-------------------------- MODULE ExceptionsProofs --------------------------
(***************************************************************************)
(* Theorems about the way from an exception or interrupt to its handler    *)
(* and back (Exceptions), for any registers, stack, vectors, lines and     *)
(* error codes, and about the descriptors of gdt.c and idt.c.              *)
(***************************************************************************)
EXTENDS Exceptions, TLAPS, SequenceTheorems

(***************************************************************************)
(* Words as sets of bits.                                                  *)
(***************************************************************************)
(* The shifts, bit by bit.                                                 *)
LEMMA ShiftBits ==
  ASSUME NEW w \in SUBSET Nat, NEW k \in Nat
  PROVE  /\ Shl(w, k) \in SUBSET Nat
         /\ \A b \in Nat : b \in Shl(w, k) <=> b >= k /\ b - k \in w
         /\ Shr(w, k) \in SUBSET Nat
         /\ \A b \in Nat : b \in Shr(w, k) <=> b + k \in w
<1>1. Shl(w, k) \in SUBSET Nat /\ Shr(w, k) \in SUBSET Nat
  BY DEF Shl, Shr
<1>2. ASSUME NEW b \in Nat PROVE b \in Shl(w, k) <=> b >= k /\ b - k \in w
  <2>1. ASSUME b \in Shl(w, k) PROVE b >= k /\ b - k \in w
    BY <2>1 DEF Shl
  <2>2. ASSUME b >= k, b - k \in w PROVE b \in Shl(w, k)
    <3>1. b = (b - k) + k
      OBVIOUS
    <3> QED BY <3>1, <2>2 DEF Shl
  <2> QED BY <2>1, <2>2
<1>3. ASSUME NEW b \in Nat PROVE b \in Shr(w, k) <=> b + k \in w
  <2>1. ASSUME b \in Shr(w, k) PROVE b + k \in w
    BY <2>1 DEF Shr
  <2>2. ASSUME b + k \in w PROVE b \in Shr(w, k)
    <3>1. b = (b + k) - k /\ b + k >= k
      OBVIOUS
    <3> QED BY <3>1, <2>2 DEF Shr
  <2> QED BY <2>1, <2>2
<1> QED BY <1>1, <1>2, <1>3

(* A field of a word, bit by bit.                                          *)
LEMMA FieldBits ==
  ASSUME NEW w \in SUBSET Nat, NEW low \in Nat, NEW high \in Nat
  PROVE  /\ Field(w, low, high) \in SUBSET Nat
         /\ \A b \in Nat : b \in Field(w, low, high) <=> b + low <= high /\ b + low \in w
<1> DEFINE v == w \cap (low .. high)
<1>1. v \in SUBSET Nat
  OBVIOUS
<1>2. /\ Shr(v, low) \in SUBSET Nat
      /\ \A b \in Nat : b \in Shr(v, low) <=> b + low \in v
  BY <1>1, ShiftBits
<1>3. \A b \in Nat : b + low \in Nat /\ b + low >= low
  OBVIOUS
<1>4. \A b \in Nat : b + low \in v <=> b + low <= high /\ b + low \in w
  BY <1>3
<1> QED BY <1>2, <1>4 DEF Field

(* What the processor decodes from an entry is what was asked for.         *)
Decodes(e, base, limit, flag) ==
  /\ SegBase(e) = base
  /\ SegLimit(e) = limit \cap (0 .. 19)
  /\ SegFlags(e) = flag \cap ((0 .. 7) \cup (12 .. 15))

(* The processor reads back from create_descriptor's entry what was asked. *)
LEMMA CreatedDecodes ==
  ASSUME NEW base \in SUBSET (0 .. 23), NEW limit \in SUBSET (0 .. 31),
         NEW flag \in SUBSET (0 .. 15)
  PROVE  Decodes(create_descriptor(base, limit, flag), base, limit, flag)
<1> DEFINE high == (limit \cap (16 .. 19)) \cup (Shl(flag, 8) \cap ((8 .. 15) \cup (20 .. 23)))
                     \cup BaseMiddle(base) \cup (base \cap (24 .. 31))
           d == Shl(high, 32) \cup Shl(base, 16) \cup (limit \cap (0 .. 15))
           e == create_descriptor(base, limit, flag)
<1>0. base \in SUBSET Nat /\ limit \in SUBSET Nat /\ flag \in SUBSET Nat
  OBVIOUS
<1>1. /\ Shl(flag, 8) \in SUBSET Nat
      /\ \A b \in Nat : b \in Shl(flag, 8) <=> b >= 8 /\ b - 8 \in flag
  BY <1>0, ShiftBits
<1>2. /\ BaseMiddle(base) \in SUBSET Nat
      /\ \A b \in Nat : b \in BaseMiddle(base) <=> b + 16 <= 23 /\ b + 16 \in base
  BY <1>0, FieldBits DEF BaseMiddle
<1>3. high \in SUBSET Nat
  BY <1>0, <1>1, <1>2
<1>4. \A b \in Nat : b \in high <=>
         \/ (16 <= b /\ b <= 19 /\ b \in limit)
         \/ (((8 <= b /\ b <= 15) \/ (20 <= b /\ b <= 23)) /\ b - 8 \in flag)
         \/ b <= 7 /\ b + 16 \in base
  BY <1>0, <1>1, <1>2
<1> HIDE DEF high
<1>5. /\ Shl(high, 32) \in SUBSET Nat
      /\ \A b \in Nat : b \in Shl(high, 32) <=> b >= 32 /\ b - 32 \in high
      /\ Shl(base, 16) \in SUBSET Nat
      /\ \A b \in Nat : b \in Shl(base, 16) <=> b >= 16 /\ b - 16 \in base
  BY <1>0, <1>3, ShiftBits
<1>6. d \in SUBSET Nat
  BY <1>0, <1>5
<1>7. \A b \in Nat : b \in d <=>
         \/ b <= 15 /\ b \in limit
         \/ (b >= 16 /\ b - 16 \in base)
         \/ (b >= 32 /\ b - 32 \in high)
  BY <1>0, <1>5
<1>8. e = [limit_low |-> Field(d, 0, 15), base_low |-> Field(d, 16, 31),
           base_middle |-> Field(d, 32, 39), access |-> Field(d, 40, 47),
           granularity |-> Field(d, 48, 55), base_high |-> Field(d, 56, 63)]
  BY DEF create_descriptor, high
<1> HIDE DEF d, e
<1>9. \A low, top \in Nat : /\ Field(d, low, top) \in SUBSET Nat
                            /\ \A b \in Nat : b \in Field(d, low, top)
                                 <=> b + low <= top /\ b + low \in d
  BY <1>6, FieldBits
<1>10. \A b \in Nat : b \in e.limit_low <=> b <= 15 /\ b \in limit
  BY <1>7, <1>8, <1>9, <1>0, SMTT(30)
<1>11. \A b \in Nat : b \in e.base_low <=> b <= 15 /\ b \in base
  BY <1>7, <1>8, <1>9, <1>0, SMTT(30)
<1>12. \A b \in Nat : b \in e.base_middle <=> b <= 7 /\ b + 16 \in base
  <2> TAKE b \in Nat
  <2>1. b \in e.base_middle <=> b + 32 <= 39 /\ b + 32 \in d
    BY <1>8, <1>9
  <2>2. b + 32 \in d <=> b + 16 \in base \/ b \in high
    BY <1>7
  <2> QED BY <2>1, <2>2, <1>4
<1>13. \A b \in Nat : b \in e.access <=> b <= 7 /\ b \in flag
  <2> TAKE b \in Nat
  <2>1. b \in e.access <=> b + 40 <= 47 /\ b + 40 \in d
    BY <1>8, <1>9
  <2>2. b + 40 \in d <=> b + 24 \in base \/ b + 8 \in high
    BY <1>7
  <2>3. b + 24 \notin base
    OBVIOUS
  <2>4. b + 8 \in Nat /\ (b + 8) - 8 = b
    OBVIOUS
  <2>5. b <= 7 => (b + 8 \in high <=> b \in flag)
    <3> SUFFICES ASSUME b <= 7 PROVE b + 8 \in high <=> b \in flag
      OBVIOUS
    <3>1. 8 <= b + 8 /\ b + 8 <= 15 /\ ~(16 <= b + 8) /\ ~(b + 8 <= 7)
      OBVIOUS
    <3> QED BY <3>1, <2>4, <1>4
  <2> QED BY <2>1, <2>2, <2>3, <2>5
<1>14. \A b \in Nat : b \in e.granularity <=>
          \/ b <= 3 /\ b + 16 \in limit
          \/ 4 <= b /\ b <= 7 /\ b + 8 \in flag
  <2> TAKE b \in Nat
  <2>1. b \in e.granularity <=> b + 48 <= 55 /\ b + 48 \in d
    BY <1>8, <1>9
  <2>2. b + 48 \in d <=> b + 32 \in base \/ b + 16 \in high
    BY <1>7
  <2>3. b + 32 \notin base
    OBVIOUS
  <2>4. b + 16 \in Nat /\ (b + 16) - 8 = b + 8
    OBVIOUS
  <2>5. b <= 7 => (b + 16 \in high <=>
                     \/ b <= 3 /\ b + 16 \in limit
                     \/ 4 <= b /\ b + 8 \in flag)
    BY <2>4, <1>4
  <2> QED BY <2>1, <2>2, <2>3, <2>5
<1>15. \A b \in Nat : b \notin e.base_high
  <2> TAKE b \in Nat
  <2>1. b \in e.base_high <=> b + 56 <= 63 /\ b + 56 \in d
    BY <1>8, <1>9
  <2>2. b + 56 \in d <=> b + 40 \in base \/ b + 24 \in high
    BY <1>7
  <2>3. b + 40 \notin base /\ b + 24 \in Nat /\ b + 24 > 23
    OBVIOUS
  <2> QED BY <2>1, <2>2, <2>3, <1>4
<1>16. /\ e.limit_low \in SUBSET Nat /\ e.base_low \in SUBSET Nat
       /\ e.base_middle \in SUBSET Nat /\ e.access \in SUBSET Nat
       /\ e.granularity \in SUBSET Nat /\ e.base_high \in SUBSET Nat
  BY <1>8, <1>9
<1>17. SegBase(e) = base
  <2>1. /\ Shl(e.base_middle, 16) \in SUBSET Nat
        /\ \A b \in Nat : b \in Shl(e.base_middle, 16) <=> b >= 16 /\ b - 16 \in e.base_middle
    BY <1>16, ShiftBits
  <2>2. Shl(e.base_high, 24) = {}
    BY <1>15, <1>16 DEF Shl
  <2>3. SegBase(e) \in SUBSET Nat
    BY <2>1, <2>2, <1>16 DEF SegBase
  <2>4. ASSUME NEW b \in Nat PROVE b \in SegBase(e) <=> b \in base
    <3>1. b \in SegBase(e) <=> b \in e.base_low \/ (b >= 16 /\ b - 16 \in e.base_middle)
      BY <2>1, <2>2 DEF SegBase
    <3>2. b >= 16 => b - 16 \in Nat /\ (b - 16) + 16 = b
      OBVIOUS
    <3> QED BY <3>1, <3>2, <1>11, <1>12
  <2> QED BY <2>3, <2>4, <1>0
<1>18. SegLimit(e) = limit \cap (0 .. 19)
  <2> DEFINE g == e.granularity \cap (0 .. 3)
  <2>1. /\ Shl(g, 16) \in SUBSET Nat
        /\ \A b \in Nat : b \in Shl(g, 16) <=> b >= 16 /\ b - 16 \in g
    BY <1>16, ShiftBits
  <2>2. SegLimit(e) \in SUBSET Nat
    BY <2>1, <1>16 DEF SegLimit
  <2>3. ASSUME NEW b \in Nat PROVE b \in SegLimit(e) <=> b \in limit /\ b <= 19
    <3>1. b \in SegLimit(e) <=> b \in e.limit_low \/ (b >= 16 /\ b - 16 \in g)
      BY <2>1 DEF SegLimit
    <3>2. b >= 16 => b - 16 \in Nat /\ (b - 16) + 16 = b
      OBVIOUS
    <3>3. b >= 16 => (b - 16 \in g <=> b <= 19 /\ b \in limit)
      BY <3>2, <1>14
    <3> QED BY <3>1, <3>3, <1>10
  <2> QED BY <2>2, <2>3, <1>0
<1>19. SegFlags(e) = flag \cap ((0 .. 7) \cup (12 .. 15))
  <2> DEFINE g == e.granularity \cap (4 .. 7)
  <2>1. /\ Shl(g, 8) \in SUBSET Nat
        /\ \A b \in Nat : b \in Shl(g, 8) <=> b >= 8 /\ b - 8 \in g
    BY <1>16, ShiftBits
  <2>2. SegFlags(e) \in SUBSET Nat
    BY <2>1, <1>16 DEF SegFlags
  <2>3. ASSUME NEW b \in Nat
        PROVE  b \in SegFlags(e) <=> b \in flag /\ (b <= 7 \/ (12 <= b /\ b <= 15))
    <3>1. b \in SegFlags(e) <=> b \in e.access \/ (b >= 8 /\ b - 8 \in g)
      BY <2>1 DEF SegFlags
    <3>2. b >= 8 => b - 8 \in Nat /\ (b - 8) + 8 = b
      OBVIOUS
    <3>3. b >= 8 => (b - 8 \in g <=> 12 <= b /\ b <= 15 /\ b \in flag)
      BY <3>2, <1>14
    <3> QED BY <3>1, <3>3, <1>13
  <2> QED BY <2>2, <2>3, <1>0
<1> QED BY <1>17, <1>18, <1>19 DEF e, Decodes

(* The same for encodeGdtEntry, which takes limits of 20 bits.             *)
LEMMA EncodedDecodes ==
  ASSUME NEW base \in SUBSET (0 .. 23), NEW limit \in SUBSET (0 .. 19),
         NEW flag \in SUBSET (0 .. 15), NEW target
  PROVE  Decodes(encodeGdtEntry(target, base, limit, flag), base, limit, flag)
<1> DEFINE e == encodeGdtEntry(target, base, limit, flag)
<1>0. base \in SUBSET Nat /\ limit \in SUBSET Nat /\ flag \in SUBSET Nat
  OBVIOUS
<1>1. e = [limit_low |-> Field(limit, 0, 15), base_low |-> Field(base, 0, 15),
           base_middle |-> Field(base, 16, 23), access |-> Field(flag, 0, 7),
           granularity |-> Byte6(limit, flag), base_high |-> Field(base, 24, 31)]
  BY DEF encodeGdtEntry
<1> HIDE DEF e
<1>2. /\ e.limit_low \in SUBSET Nat
      /\ \A b \in Nat : b \in e.limit_low <=> b <= 15 /\ b \in limit
      /\ e.base_low \in SUBSET Nat
      /\ \A b \in Nat : b \in e.base_low <=> b <= 15 /\ b \in base
      /\ e.access \in SUBSET Nat
      /\ \A b \in Nat : b \in e.access <=> b <= 7 /\ b \in flag
  BY <1>0, <1>1, FieldBits
<1>3. /\ e.base_middle \in SUBSET Nat
      /\ \A b \in Nat : b \in e.base_middle <=> b + 16 <= 23 /\ b + 16 \in base
  BY <1>0, <1>1, FieldBits
<1>4. e.base_high = {}
  <2>1. /\ Field(base, 24, 31) \in SUBSET Nat
        /\ \A b \in Nat : b \in Field(base, 24, 31) <=> b + 24 <= 31 /\ b + 24 \in base
    BY <1>0, FieldBits
  <2> QED BY <2>1, <1>1
<1>5. /\ e.granularity \in SUBSET Nat
      /\ \A b \in Nat : b \in e.granularity <=>
           \/ b + 16 <= 19 /\ b + 16 \in limit
           \/ 4 <= b /\ b <= 7 /\ b + 8 \in flag
  <2>1. /\ Field(limit, 16, 19) \in SUBSET Nat
        /\ \A b \in Nat : b \in Field(limit, 16, 19) <=> b + 16 <= 19 /\ b + 16 \in limit
    BY <1>0, FieldBits
  <2>2. /\ Shr(flag, 8) \in SUBSET Nat
        /\ \A b \in Nat : b \in Shr(flag, 8) <=> b + 8 \in flag
    BY <1>0, ShiftBits
  <2> QED BY <2>1, <2>2, <1>1 DEF Byte6
<1>6. SegBase(e) = base
  <2>1. /\ Shl(e.base_middle, 16) \in SUBSET Nat
        /\ \A b \in Nat : b \in Shl(e.base_middle, 16) <=> b >= 16 /\ b - 16 \in e.base_middle
    BY <1>3, ShiftBits
  <2>2. Shl(e.base_high, 24) = {}
    BY <1>4 DEF Shl
  <2>3. SegBase(e) \in SUBSET Nat
    BY <2>1, <2>2, <1>2 DEF SegBase
  <2>4. ASSUME NEW b \in Nat PROVE b \in SegBase(e) <=> b \in base
    <3>1. b \in SegBase(e) <=> b \in e.base_low \/ (b >= 16 /\ b - 16 \in e.base_middle)
      BY <2>1, <2>2 DEF SegBase
    <3>2. b >= 16 => b - 16 \in Nat /\ (b - 16) + 16 = b
      OBVIOUS
    <3> QED BY <3>1, <3>2, <1>2, <1>3
  <2> QED BY <2>3, <2>4, <1>0
<1>7. SegLimit(e) = limit
  <2> DEFINE g == e.granularity \cap (0 .. 3)
  <2>1. /\ Shl(g, 16) \in SUBSET Nat
        /\ \A b \in Nat : b \in Shl(g, 16) <=> b >= 16 /\ b - 16 \in g
    BY <1>5, ShiftBits
  <2>2. SegLimit(e) \in SUBSET Nat
    BY <2>1, <1>2 DEF SegLimit
  <2>3. ASSUME NEW b \in Nat PROVE b \in SegLimit(e) <=> b \in limit
    <3>1. b \in SegLimit(e) <=> b \in e.limit_low \/ (b >= 16 /\ b - 16 \in g)
      BY <2>1 DEF SegLimit
    <3>2. b >= 16 => b - 16 \in Nat /\ (b - 16) + 16 = b
      OBVIOUS
    <3>3. b >= 16 => (b - 16 \in g <=> b \in limit)
      BY <3>2, <1>5
    <3> QED BY <3>1, <3>3, <1>2
  <2> QED BY <2>2, <2>3, <1>0
<1>8. SegFlags(e) = flag \cap ((0 .. 7) \cup (12 .. 15))
  <2> DEFINE g == e.granularity \cap (4 .. 7)
  <2>1. /\ Shl(g, 8) \in SUBSET Nat
        /\ \A b \in Nat : b \in Shl(g, 8) <=> b >= 8 /\ b - 8 \in g
    BY <1>5, ShiftBits
  <2>2. SegFlags(e) \in SUBSET Nat
    BY <2>1, <1>2 DEF SegFlags
  <2>3. ASSUME NEW b \in Nat
        PROVE  b \in SegFlags(e) <=> b \in flag /\ (b <= 7 \/ (12 <= b /\ b <= 15))
    <3>1. b \in SegFlags(e) <=> b \in e.access \/ (b >= 8 /\ b - 8 \in g)
      BY <2>1 DEF SegFlags
    <3>2. b >= 8 => b - 8 \in Nat /\ (b - 8) + 8 = b
      OBVIOUS
    <3>3. b >= 8 => (b - 8 \in g <=> 12 <= b /\ b <= 15 /\ b \in flag)
      BY <3>2, <1>5
    <3> QED BY <3>1, <3>3, <1>2
  <2> QED BY <2>2, <2>3, <1>0
<1>9. limit \cap (0 .. 19) = limit
  OBVIOUS
<1> QED BY <1>6, <1>7, <1>8, <1>9 DEF e, Decodes

(***************************************************************************)
(* The gates.                                                              *)
(***************************************************************************)
(* A vector is told by its bits.                                           *)
LEMMA BitsTell ==
  ASSUME NEW s \in 0 .. 47, NEW v \in 0 .. 47, Bits(s) = Bits(v)
  PROVE  s = v
<1>1. \A b \in 0 .. 9 : (s \div 2^b) % 2 = 1 <=> (v \div 2^b) % 2 = 1
  BY DEF Bits
<1>2. 2^0 = 1 /\ 2^1 = 2 /\ 2^2 = 4 /\ 2^3 = 8 /\ 2^4 = 16 /\ 2^5 = 32
  OBVIOUS
<1>3. /\ (s \div 1) % 2 = 1 <=> (v \div 1) % 2 = 1
      /\ (s \div 2) % 2 = 1 <=> (v \div 2) % 2 = 1
      /\ (s \div 4) % 2 = 1 <=> (v \div 4) % 2 = 1
      /\ (s \div 8) % 2 = 1 <=> (v \div 8) % 2 = 1
      /\ (s \div 16) % 2 = 1 <=> (v \div 16) % 2 = 1
      /\ (s \div 32) % 2 = 1 <=> (v \div 32) % 2 = 1
  BY <1>1, <1>2
<1> QED BY <1>3

(* A stub's address is a word, and no two stubs have the same.             *)
LEMMA StubAddresses ==
  /\ \A s \in 0 .. 47 : StubAddress(s) \in SUBSET (0 .. 31)
  /\ \A s, v \in 0 .. 47 : StubAddress(s) = StubAddress(v) => s = v
<1>1. ASSUME NEW s \in 0 .. 47
      PROVE  /\ StubAddress(s) \in SUBSET (0 .. 31)
             /\ \A b \in 0 .. 9 : b \in Bits(s) <=> b + 4 \in StubAddress(s)
  <2>1. Bits(s) \in SUBSET Nat /\ Bits(s) \subseteq 0 .. 9
    BY DEF Bits
  <2>2. /\ Shl(Bits(s), 4) \in SUBSET Nat
        /\ \A b \in Nat : b \in Shl(Bits(s), 4) <=> b >= 4 /\ b - 4 \in Bits(s)
    BY <2>1, ShiftBits
  <2>3. \A b \in Shl(Bits(s), 4) : b \in 4 .. 13
    BY <2>1, <2>2
  <2>4. ASSUME NEW b \in 0 .. 9 PROVE b \in Bits(s) <=> b + 4 \in StubAddress(s)
    <3>1. b + 4 \in Nat /\ b + 4 >= 4 /\ (b + 4) - 4 = b /\ b + 4 \notin {20, 30, 31}
      OBVIOUS
    <3> QED BY <3>1, <2>2 DEF StubAddress
  <2> QED BY <2>3, <2>4 DEF StubAddress
<1>2. ASSUME NEW s \in 0 .. 47, NEW v \in 0 .. 47, StubAddress(s) = StubAddress(v)
      PROVE  s = v
  <2>1. Bits(s) \subseteq 0 .. 9 /\ Bits(v) \subseteq 0 .. 9
    BY DEF Bits
  <2>2. \A b \in 0 .. 9 : b \in Bits(s) <=> b \in Bits(v)
    BY <1>1, <1>2
  <2> QED BY <2>1, <2>2, BitsTell
<1> QED BY <1>1, <1>2

(* The two halves in a gate make up the stub's address.                    *)
LEMMA GateAddress ==
  ASSUME NEW v \in 0 .. 47
  PROVE  Gate[v].isr_low \cup Shl(Gate[v].isr_high, 16) = StubAddress(v)
<1> DEFINE addr == StubAddress(v)
<1>1. addr \in SUBSET (0 .. 31) /\ addr \in SUBSET Nat
  BY StubAddresses
<1> HIDE DEF addr
<1>2. Gate[v].isr_low = Field(addr, 0, 15) /\ Gate[v].isr_high = Field(addr, 16, 31)
  BY DEF Gate, idt_set_descriptor, HighHalf, addr
<1>3. /\ Field(addr, 0, 15) \in SUBSET Nat
      /\ \A b \in Nat : b \in Field(addr, 0, 15) <=> b <= 15 /\ b \in addr
  BY <1>1, FieldBits
<1> DEFINE high == Field(addr, 16, 31)
<1>4. /\ high \in SUBSET Nat
      /\ \A b \in Nat : b \in high <=> b + 16 <= 31 /\ b + 16 \in addr
  BY <1>1, FieldBits
<1> HIDE DEF high
<1>5. /\ Shl(high, 16) \in SUBSET Nat
      /\ \A b \in Nat : b \in Shl(high, 16) <=> b >= 16 /\ b - 16 \in high
  BY <1>4, ShiftBits
<1>6. ASSUME NEW b \in Nat
      PROVE  b \in Field(addr, 0, 15) \cup Shl(high, 16) <=> b \in addr
  <2>1. CASE b <= 15
    BY <2>1, <1>3, <1>5
  <2>2. CASE b >= 16
    <3>1. b - 16 \in Nat /\ (b - 16) + 16 = b /\ (b \in addr => b <= 31)
      BY <2>2, <1>1
    <3> QED BY <2>2, <3>1, <1>3, <1>4, <1>5
  <2> QED BY <2>1, <2>2
<1> QED BY <1>1, <1>2, <1>3, <1>5, <1>6 DEF addr, high

(* The kernel's selectors load: flat code at 8, flat data at 16.           *)
LEMMA SelectorsLoad == Loads(8, 16)
<1>1. 8 \div 8 = 1 /\ 16 \div 8 = 2
  OBVIOUS
<1> DEFINE code == Segment \cup SEG_PRIV(0) \cup SEG_CODE_EXRD
           data == Segment \cup SEG_PRIV(0) \cup SEG_DATA_RDWR
<1>2. code = {4, 7, 14, 15, 1, 3} /\ data = {4, 7, 14, 15, 1}
  BY DEF Segment, SEG_PRIV, SEG_CODE_EXRD, SEG_DATA_RDWR
<1>3. /\ GdtTable[1] = create_descriptor({}, 0 .. 31, code)
      /\ GdtTable[2] = create_descriptor({}, 0 .. 31, data)
  BY DEF GdtTable
<1> HIDE DEF code, data
<1>4. code \in SUBSET (0 .. 15) /\ data \in SUBSET (0 .. 15)
  BY <1>2
<1>5. \A flag \in SUBSET (0 .. 15) :
        SegFlags(create_descriptor({}, 0 .. 31, flag)) = flag \cap ((0 .. 7) \cup (12 .. 15))
  <2> TAKE flag \in SUBSET (0 .. 15)
  <2>1. {} \in SUBSET (0 .. 23) /\ (0 .. 31) \in SUBSET (0 .. 31)
    OBVIOUS
  <2>2. \A base \in SUBSET (0 .. 23), limit \in SUBSET (0 .. 31) :
          SegFlags(create_descriptor(base, limit, flag)) = flag \cap ((0 .. 7) \cup (12 .. 15))
    BY CreatedDecodes DEF Decodes
  <2> QED BY <2>1, <2>2
<1>6. /\ SegFlags(GdtTable[1]) = code \cap ((0 .. 7) \cup (12 .. 15))
      /\ SegFlags(GdtTable[2]) = data \cap ((0 .. 7) \cup (12 .. 15))
  BY <1>3, <1>4, <1>5
<1>7. KernelCode(GdtTable[1])
  BY <1>2, <1>6 DEF KernelCode
<1>8. KernelData(GdtTable[2])
  BY <1>2, <1>6 DEF KernelData
<1> QED BY <1>1, <1>7, <1>8 DEF Loads

(* Every gate works, and leads to the stub of its own vector.              *)
LEMMA EnteredOwnStub == \A v \in 0 .. 47 : Entered[v] = {v}
<1> TAKE v \in 0 .. 47
<1>1. Gate[v].attributes = GateFlags /\ Gate[v].kernel_cs = 8
  BY DEF Gate, idt_set_descriptor
<1>2. Entered[v] = {s \in 0 .. 47 :
                      /\ 7 \in Gate[v].attributes /\ Loads(Gate[v].kernel_cs, 16)
                      /\ StubAddress(s) = Gate[v].isr_low \cup Shl(Gate[v].isr_high, 16)}
  BY DEF Entered
<1>3. 7 \in Gate[v].attributes /\ Loads(Gate[v].kernel_cs, 16)
  BY <1>1, SelectorsLoad DEF GateFlags
<1>4. Entered[v] = {s \in 0 .. 47 : StubAddress(s) = StubAddress(v)}
  BY <1>2, <1>3, GateAddress
<1> QED BY <1>4, StubAddresses

(***************************************************************************)
(* The stack between the event and the return.                             *)
(***************************************************************************)
(* registers_t, word by word.                                              *)
LEMMA Layout ==
  /\ Len(Saved) = 12 /\ DOMAIN Saved = 1 .. 12
  /\ Saved[1] = "gs" /\ Saved[2] = "fs" /\ Saved[3] = "es" /\ Saved[4] = "ds"
  /\ Saved[5] = "edi" /\ Saved[6] = "esi" /\ Saved[7] = "ebp" /\ Saved[8] = "esp"
  /\ Saved[9] = "ebx" /\ Saved[10] = "edx" /\ Saved[11] = "ecx" /\ Saved[12] = "eax"
  /\ regs("gs") = cpu.stack[1] /\ regs("fs") = cpu.stack[2]
  /\ regs("es") = cpu.stack[3] /\ regs("ds") = cpu.stack[4]
  /\ regs("edi") = cpu.stack[5] /\ regs("esi") = cpu.stack[6]
  /\ regs("ebp") = cpu.stack[7] /\ regs("ebx") = cpu.stack[9]
  /\ regs("edx") = cpu.stack[10] /\ regs("ecx") = cpu.stack[11]
  /\ regs("eax") = cpu.stack[12] /\ regs("int_no") = cpu.stack[13]
  /\ regs("err_code") = cpu.stack[14] /\ regs("eip") = cpu.stack[15]
  /\ regs("cs") = cpu.stack[16] /\ regs("eflags") = cpu.stack[17]
<1>1. /\ Len(Saved) = 12 /\ DOMAIN Saved = 1 .. 12
      /\ Saved[1] = "gs" /\ Saved[2] = "fs" /\ Saved[3] = "es" /\ Saved[4] = "ds"
      /\ Saved[5] = "edi" /\ Saved[6] = "esi" /\ Saved[7] = "ebp" /\ Saved[8] = "esp"
      /\ Saved[9] = "ebx" /\ Saved[10] = "edx" /\ Saved[11] = "ecx" /\ Saved[12] = "eax"
  BY DEF Saved
<1> DEFINE names == Registers \cup {"esp", "int_no", "err_code"}
           rest == <<"int_no", "err_code", "eip", "cs", "eflags">>
<1>2. Saved \in Seq(names) /\ registers_t = Saved \o rest
  BY DEF Saved, registers_t, Registers, General, Segments
<1>3. /\ rest \in Seq(names) /\ Len(rest) = 5
      /\ rest[1] = "int_no" /\ rest[2] = "err_code" /\ rest[3] = "eip"
      /\ rest[4] = "cs" /\ rest[5] = "eflags"
  BY DEF Registers
<1> HIDE DEF rest, names
<1>4. /\ registers_t \in Seq(names) /\ Len(registers_t) = Len(Saved) + Len(rest)
      /\ \A i \in 1 .. Len(Saved) + Len(rest) :
           registers_t[i] = IF i <= Len(Saved) THEN Saved[i] ELSE rest[i - Len(Saved)]
  BY <1>2, <1>3, ConcatProperties, Zenon
<1>5. DOMAIN registers_t = 1 .. 17
  BY <1>1, <1>3, <1>4
<1>6. \A i \in 1 .. 17 : registers_t[i] = IF i <= 12 THEN Saved[i] ELSE rest[i - 12]
  BY <1>1, <1>3, <1>4
<1>7. /\ registers_t[1] = "gs" /\ registers_t[2] = "fs" /\ registers_t[3] = "es"
      /\ registers_t[4] = "ds" /\ registers_t[5] = "edi" /\ registers_t[6] = "esi"
      /\ registers_t[7] = "ebp" /\ registers_t[8] = "esp" /\ registers_t[9] = "ebx"
      /\ registers_t[10] = "edx" /\ registers_t[11] = "ecx" /\ registers_t[12] = "eax"
  BY <1>1, <1>6
<1>8. /\ registers_t[13] = "int_no" /\ registers_t[14] = "err_code" /\ registers_t[15] = "eip"
      /\ registers_t[16] = "cs" /\ registers_t[17] = "eflags"
  BY <1>3, <1>6
<1> DEFINE slot(n) == CHOOSE k \in DOMAIN registers_t : registers_t[k] = n
<1>9. /\ slot("gs") = 1 /\ slot("fs") = 2 /\ slot("es") = 3 /\ slot("ds") = 4
      /\ slot("edi") = 5 /\ slot("esi") = 6
  BY <1>5, <1>7, <1>8
<1>10. /\ slot("ebp") = 7 /\ slot("ebx") = 9 /\ slot("edx") = 10 /\ slot("ecx") = 11
       /\ slot("eax") = 12
  BY <1>5, <1>7, <1>8
<1>11. /\ slot("int_no") = 13 /\ slot("err_code") = 14 /\ slot("eip") = 15
       /\ slot("cs") = 16 /\ slot("eflags") = 17
  BY <1>5, <1>7, <1>8
<1> QED BY <1>1, <1>9, <1>10, <1>11 DEF regs

Places ==
  {"gdt_init", "idt_init", "irq_init", "run", "stub", "common_stub", "handler",
   "irq_handler", "common_stub_return", "iret", "page_fault_handler", "halted", "reset"}

CpuType ==
  cpu \in [pc : Places, stub : 0 .. 47, line : Int, stack : Seq(Int),
           regs : [Registers -> Int]]

(* From the event to the halt or the return, outside the reports.          *)
Trapped ==
  cpu.pc \in {"stub", "common_stub", "handler", "irq_handler", "common_stub_return", "iret"}

(* Below the first k words is the stack of the code that was interrupted.  *)
Below(k) ==
  /\ Len(cpu.stack) = k + Len(event.stack)
  /\ \A j \in 1 .. Len(event.stack) : cpu.stack[k + j] = event.stack[j]

(* What the processor pushed, then what the stub did.                      *)
IretFrame(k) ==
  /\ cpu.stack[k + 1] = event.regs.eip
  /\ cpu.stack[k + 2] = event.regs.cs
  /\ cpu.stack[k + 3] = event.regs.eflags
  /\ Below(k + 3)

CodesFrame(k) ==
  /\ cpu.stack[k + 1] = IF event.vector < 32 THEN event.vector ELSE event.vector - 32
  /\ cpu.stack[k + 2] = IF event.vector \in PushesError THEN event.err ELSE 0
  /\ IretFrame(k + 2)

SavedFrame ==
  /\ cpu.stack[1] = event.regs.gs /\ cpu.stack[2] = event.regs.fs
  /\ cpu.stack[3] = event.regs.es /\ cpu.stack[4] = event.regs.ds
  /\ cpu.stack[5] = event.regs.edi /\ cpu.stack[6] = event.regs.esi
  /\ cpu.stack[7] = event.regs.ebp /\ cpu.stack[9] = event.regs.ebx
  /\ cpu.stack[10] = event.regs.edx /\ cpu.stack[11] = event.regs.ecx
  /\ cpu.stack[12] = event.regs.eax

SameRegs == \A n \in General \cup Segments : cpu.regs[n] = event.regs[n]

EventInv ==
  /\ event.vector = cpu.stub
  /\ event.err \in Int
  /\ event.regs \in [Registers -> Int]
  /\ event.stack \in Seq(Int)
  /\ cpu.regs.eflags = 0

(* Only interrupts reach the way back.                                     *)
TrapInv ==
  Trapped =>
    /\ EventInv
    /\ cpu.pc = "stub" =>
         /\ SameRegs
         /\ cpu.stub \in PushesError => cpu.stack[1] = event.err /\ IretFrame(1)
         /\ cpu.stub \notin PushesError => IretFrame(0)
    /\ cpu.pc = "common_stub" => SameRegs /\ CodesFrame(0)
    /\ cpu.pc \in {"handler", "irq_handler", "common_stub_return"} =>
         SavedFrame /\ CodesFrame(12)
    /\ cpu.pc \in {"irq_handler", "common_stub_return", "iret"} =>
         cpu.stub >= 32 /\ cpu.line = cpu.stub - 32
    /\ cpu.pc = "iret" => SameRegs /\ IretFrame(0)

(* The tables are in place from the step that loads them, and only an      *)
(* exception before that resets the machine.                               *)
TablesInv ==
  /\ cpu.pc \notin {"gdt_init", "reset"} => gdt = TRUE
  /\ cpu.pc = "irq_init" => idt = 0 .. 31
  /\ cpu.pc = "run" \/ (Trapped /\ cpu.stub >= 32) => idt = 0 .. 47
  /\ cpu.pc = "reset" => event.vector # -1 /\ event.at \in {"gdt_init", "idt_init"}

(* printf is the caller's own: an exception finds nothing printed.         *)
PrintInv ==
  /\ call = NoCall /\ cpu.pc \notin {"page_fault_handler", "halted", "reset"} => pf = PfIdle
  /\ Trapped /\ cpu.stub < 32 => call = NoCall
  /\ cpu.pc = "page_fault_handler" => event.vector = 14
  /\ cpu.pc = "halted" /\ event.vector # 14 =>
       pf.out = <<"EXCEPTION! ", exception_messages[event.vector + 1]>>

ExcInv == CpuType /\ TrapInv /\ TablesInv /\ PrintInv

(* Words pushed on a stack, and words dropped from one.                    *)
LEMMA Pushed ==
  ASSUME NEW words \in Seq(Int), NEW s \in Seq(Int)
  PROVE  /\ words \o s \in Seq(Int) /\ Len(words \o s) = Len(words) + Len(s)
         /\ \A i \in 1 .. Len(words) : (words \o s)[i] = words[i]
         /\ \A j \in 1 .. Len(s) : (words \o s)[Len(words) + j] = s[j]
OBVIOUS

LEMMA Dropped ==
  ASSUME NEW s \in Seq(Int), NEW k \in 0 .. Len(s)
  PROVE  /\ SubSeq(s, k + 1, Len(s)) \in Seq(Int)
         /\ Len(SubSeq(s, k + 1, Len(s))) = Len(s) - k
         /\ \A j \in 1 .. Len(s) - k : SubSeq(s, k + 1, Len(s))[j] = s[k + j]
<1>1. k + 1 \in Int /\ Len(s) \in Int /\ \A i \in k + 1 .. Len(s) : s[i] \in Int
  OBVIOUS
<1>2. /\ SubSeq(s, k + 1, Len(s)) \in Seq(Int)
      /\ Len(SubSeq(s, k + 1, Len(s))) = IF k + 1 <= Len(s) THEN Len(s) - (k + 1) + 1 ELSE 0
      /\ \A j \in 1 .. Len(s) - (k + 1) + 1 :
           SubSeq(s, k + 1, Len(s))[j] = s[(k + 1) + j - 1]
  BY <1>1, SubSeqProperties, SMTT(20)
<1>3. Len(s) \in Nat
  OBVIOUS
<1>4. \A j \in 1 .. Len(s) - k : (k + 1) + j - 1 = k + j
  OBVIOUS
<1> QED BY <1>2, <1>3, <1>4

(***************************************************************************)
(* The steps.                                                              *)
(***************************************************************************)
(* An event enters the stub of its vector with the processor's words       *)
(* pushed, or resets a machine whose tables are not in place.              *)
LEMMA DeliverKeeps ==
  ASSUME CpuType, NEW v \in 0 .. 47, NEW err \in Int, NEW cr2, Deliver(v, err, cr2)
  PROVE  /\ CpuType'
         /\ event'.at = cpu.pc /\ event'.vector = v
         /\ cpu'.pc = IF gdt = TRUE /\ v \in idt THEN "stub" ELSE "reset"
         /\ gdt = TRUE /\ v \in idt => TrapInv' /\ cpu'.stub = v
<1>1. /\ event'.at = cpu.pc /\ event'.vector = v /\ event'.err = err
      /\ event'.regs = cpu.regs /\ event'.stack = cpu.stack
  BY DEF Deliver
<1>2. /\ Entered[v] # {} /\ (CHOOSE s \in Entered[v] : TRUE) = v
      /\ Gate[v].kernel_cs = 8 /\ 0 \notin Gate[v].attributes
  <2>1. Entered[v] = {v}
    BY EnteredOwnStub
  <2> QED BY <2>1 DEF Gate, idt_set_descriptor, GateFlags
<1>3. /\ cpu.stub \in 0 .. 47 /\ cpu.line \in Int /\ cpu.stack \in Seq(Int)
      /\ cpu.regs \in [Registers -> Int]
      /\ cpu.regs.eip \in Int /\ cpu.regs.cs \in Int /\ cpu.regs.eflags \in Int
      /\ {"eip", "cs", "eflags"} \subseteq Registers
  BY DEF CpuType, Registers
<1>4. CASE ~(gdt = TRUE /\ v \in idt)
  <2>1. cpu' = [cpu EXCEPT !.pc = "reset"]
    BY <1>4 DEF Deliver
  <2>2. CpuType' /\ cpu'.pc = "reset"
    BY <2>1 DEF CpuType, Places
  <2> QED BY <1>1, <1>4, <2>2
<1>5. CASE gdt = TRUE /\ v \in idt
  <2> DEFINE code == IF v \in PushesError THEN <<err>> ELSE <<>>
             frame == <<cpu.regs.eip, cpu.regs.cs, cpu.regs.eflags>>
             r == [cpu.regs EXCEPT !.cs = 8, !.eflags = 0]
  <2>1. cpu' = [cpu EXCEPT !.pc = "stub", !.stub = v, !.regs = r,
                           !.stack = code \o frame \o @]
    BY <1>2, <1>3, <1>5 DEF Deliver
  <2>2. frame \in Seq(Int) /\ Len(frame) = 3 /\ code \in Seq(Int)
    BY <1>3
  <2> DEFINE words == code \o frame
  <2>3. /\ words \in Seq(Int) /\ Len(words) = Len(code) + 3
        /\ v \in PushesError => /\ Len(words) = 4 /\ words[1] = err
                                /\ words[2] = cpu.regs.eip
                                /\ words[3] = cpu.regs.cs
                                /\ words[4] = cpu.regs.eflags
        /\ v \notin PushesError => /\ Len(words) = 3
                                   /\ words[1] = cpu.regs.eip
                                   /\ words[2] = cpu.regs.cs
                                   /\ words[3] = cpu.regs.eflags
    BY <1>3
  <2> HIDE DEF code, frame, words
  <2>4. /\ words \o cpu.stack \in Seq(Int)
        /\ Len(words \o cpu.stack) = Len(words) + Len(cpu.stack)
        /\ \A i \in 1 .. Len(words) : (words \o cpu.stack)[i] = words[i]
        /\ \A j \in 1 .. Len(cpu.stack) :
             (words \o cpu.stack)[Len(words) + j] = cpu.stack[j]
    BY <1>3, <2>3, Pushed
  <2>5. cpu'.stack = words \o cpu.stack /\ cpu'.pc = "stub" /\ cpu'.stub = v /\ cpu'.regs = r
    BY <2>1 DEF CpuType, words
  <2>6. /\ r \in [Registers -> Int] /\ r.eflags = 0
        /\ \A n \in General \cup Segments : r[n] = cpu.regs[n]
    <3>1. /\ "cs" \in Registers /\ "eflags" \in Registers
          /\ \A n \in General \cup Segments : n \in Registers /\ n # "cs" /\ n # "eflags"
      BY DEF Registers, General, Segments
    <3>2. r = [n \in Registers |->
                 IF n = "eflags" THEN 0 ELSE IF n = "cs" THEN 8 ELSE cpu.regs[n]]
      BY <1>3, <3>1
    <3> HIDE DEF r
    <3> QED BY <1>3, <3>1, <3>2
  <2>7. CpuType'
    BY <1>3, <2>1, <2>4, <2>5, <2>6 DEF CpuType, Places
  <2>8. EventInv' /\ SameRegs'
    BY <1>1, <1>3, <2>5, <2>6 DEF EventInv, SameRegs
  <2>9. CASE v \in PushesError
    <3>1. cpu'.stack[1] = err /\ IretFrame(1)'
      <4>1. /\ \A i \in 1 .. 4 : cpu'.stack[i] = words[i]
            /\ Len(cpu'.stack) = 4 + Len(cpu.stack)
            /\ \A j \in 1 .. Len(cpu.stack) : cpu'.stack[4 + j] = cpu.stack[j]
        BY <2>3, <2>4, <2>5, <2>9
      <4> QED BY <1>1, <2>3, <2>9, <4>1 DEF IretFrame, Below
    <3>2. TrapInv'
      BY <1>1, <2>5, <2>8, <2>9, <3>1 DEF TrapInv
    <3> QED BY <1>1, <1>5, <2>5, <2>7, <3>2
  <2>10. CASE v \notin PushesError
    <3>1. IretFrame(0)'
      <4>1. /\ \A i \in 1 .. 3 : cpu'.stack[i] = words[i]
            /\ Len(cpu'.stack) = 3 + Len(cpu.stack)
            /\ \A j \in 1 .. Len(cpu.stack) : cpu'.stack[3 + j] = cpu.stack[j]
        BY <2>3, <2>4, <2>5, <2>10
      <4> QED BY <1>1, <2>3, <2>10, <4>1 DEF IretFrame, Below
    <3>2. TrapInv'
      BY <1>1, <2>5, <2>8, <2>10, <3>1 DEF TrapInv
    <3> QED BY <1>1, <1>5, <2>5, <2>7, <3>2
  <2> QED BY <2>9, <2>10
<1> QED BY <1>4, <1>5

(* What holds of the processor depends on its state and the event only.    *)
LEMMA CpuSame ==
  ASSUME CpuType, TrapInv, UNCHANGED <<cpu, event>>
  PROVE  CpuType' /\ TrapInv'
BY DEF CpuType, TrapInv, Trapped, EventInv, SameRegs, SavedFrame, CodesFrame, IretFrame, Below

LEMMA ExceptionKeeps ==
  ASSUME ExcInv, NEW v \in Vectors, NEW err \in ErrCodes[v], NEW cr2, Exception(v, err, cr2)
  PROVE  ExcInv'
<1>1. v \in 0 .. 47 /\ v < 32 /\ err \in Int /\ 0 .. 31 \subseteq 0 .. 47
  BY ExceptionConstants, LibcSizes
<1>2. /\ cpu.pc \in {"gdt_init", "idt_init", "irq_init", "run", "irq_handler"}
      /\ call = NoCall /\ UNCHANGED <<gdt, idt, call, pf>> /\ Deliver(v, err, cr2)
  BY DEF Exception, Deliver
<1>3. CpuType /\ TrapInv /\ TablesInv /\ PrintInv
  BY DEF ExcInv
<1>4. /\ CpuType' /\ event'.at = cpu.pc /\ event'.vector = v
      /\ cpu'.pc = IF gdt = TRUE /\ v \in idt THEN "stub" ELSE "reset"
      /\ gdt = TRUE /\ v \in idt => TrapInv' /\ cpu'.stub = v
  BY <1>1, <1>2, <1>3, DeliverKeeps
<1>5. cpu.pc \notin {"gdt_init", "idt_init"} => gdt = TRUE /\ v \in idt
  <2>1. cpu.pc = "irq_handler" => Trapped /\ cpu.stub >= 32
    BY <1>3 DEF TrapInv, Trapped
  <2> QED BY <1>1, <1>2, <1>3, <2>1, ExceptionConstants DEF TablesInv
<1>6. pf = PfIdle
  BY <1>2, <1>3 DEF PrintInv
<1>7. CASE gdt = TRUE /\ v \in idt
  <2>1. TablesInv'
    BY <1>1, <1>2, <1>4, <1>7 DEF TablesInv, Trapped
  <2>2. PrintInv'
    BY <1>2, <1>4, <1>6, <1>7 DEF PrintInv
  <2> QED BY <1>4, <1>7, <2>1, <2>2 DEF ExcInv
<1>8. CASE ~(gdt = TRUE /\ v \in idt)
  <2>1. TrapInv'
    BY <1>4, <1>8 DEF TrapInv, Trapped
  <2>2. TablesInv'
    BY <1>1, <1>2, <1>4, <1>5, <1>8 DEF TablesInv, Trapped
  <2>3. PrintInv'
    BY <1>2, <1>4, <1>6, <1>8 DEF PrintInv, Trapped
  <2> QED BY <1>4, <2>1, <2>2, <2>3 DEF ExcInv
<1> QED BY <1>7, <1>8

LEMMA InterruptKeeps ==
  ASSUME ExcInv, NEW line \in Lines, Interrupt(line)
  PROVE  ExcInv'
<1> DEFINE v == 32 + line
<1>1. v \in 0 .. 47 /\ v >= 32 /\ 0 \in Int
  BY ExceptionConstants
<1>2. /\ cpu.pc \in {"run", "irq_handler"}
      /\ UNCHANGED <<gdt, idt, call, pf>> /\ Deliver(v, 0, 0)
  BY DEF Interrupt, Deliver
<1>3. CpuType /\ TrapInv /\ TablesInv /\ PrintInv
  BY DEF ExcInv
<1> HIDE DEF v
<1>4. /\ CpuType' /\ event'.vector = v
      /\ cpu'.pc = IF gdt = TRUE /\ v \in idt THEN "stub" ELSE "reset"
      /\ gdt = TRUE /\ v \in idt => TrapInv' /\ cpu'.stub = v
  BY <1>1, <1>2, <1>3, DeliverKeeps
<1>5. gdt = TRUE /\ v \in idt /\ idt = 0 .. 47
  <2>1. cpu.pc = "irq_handler" => Trapped /\ cpu.stub >= 32
    BY <1>3 DEF TrapInv, Trapped
  <2> QED BY <1>1, <1>2, <1>3, <2>1 DEF TablesInv
<1>6. TablesInv'
  BY <1>2, <1>4, <1>5 DEF TablesInv
<1>7. PrintInv'
  <2>1. call = NoCall => pf = PfIdle
    BY <1>2, <1>3 DEF PrintInv
  <2> QED BY <1>1, <1>2, <1>4, <1>5, <2>1 DEF PrintInv
<1> QED BY <1>4, <1>5, <1>6, <1>7 DEF ExcInv

(* The stub makes every event's frame the same shape.                      *)
LEMMA EntryStubKeeps ==
  ASSUME ExcInv, entry_stub PROVE ExcInv'
<1> DEFINE words == stub_pushes(cpu.stub)
<1>1. CpuType /\ TrapInv /\ TablesInv /\ PrintInv
  BY DEF ExcInv
<1>2. /\ cpu.pc = "stub" /\ UNCHANGED <<gdt, idt, call, event, pf>>
      /\ cpu' = [cpu EXCEPT !.pc = "common_stub", !.stack = words \o @]
  BY DEF entry_stub
<1>3. cpu.stack \in Seq(Int)
  BY <1>1 DEF CpuType
<1>13. cpu.stub \in 0 .. 47
  BY <1>1 DEF CpuType
<1>12. /\ EventInv /\ SameRegs
       /\ cpu.stub \in PushesError => cpu.stack[1] = event.err /\ IretFrame(1)
       /\ cpu.stub \notin PushesError => IretFrame(0)
  BY <1>1, <1>2 DEF TrapInv, Trapped
<1> DEFINE n == IF cpu.stub < 32 THEN cpu.stub ELSE cpu.stub - 32
<1> HIDE DEF n
<1>4. /\ words \in Seq(Int)
      /\ cpu.stub \in PushesError => Len(words) = 1 /\ words[1] = n
      /\ cpu.stub \notin PushesError => Len(words) = 2 /\ words[1] = n /\ words[2] = 0
  <2>1. CASE cpu.stub \in ErrStubs
    <3>1. words = <<cpu.stub>>
      BY <2>1 DEF stub_pushes
    <3>2. cpu.stub \in PushesError /\ n = cpu.stub
      BY <2>1 DEF ErrStubs, PushesError, n
    <3> HIDE DEF words
    <3>3. words \in Seq(Int) /\ Len(words) = 1 /\ words[1] = cpu.stub
      BY <1>13, <3>1
    <3> QED BY <3>2, <3>3
  <2>2. CASE cpu.stub \notin ErrStubs /\ cpu.stub < 32
    <3>1. words = <<cpu.stub, 0>>
      BY <2>2 DEF stub_pushes
    <3>2. cpu.stub \notin PushesError /\ n = cpu.stub
      BY <2>2 DEF ErrStubs, PushesError, n
    <3> HIDE DEF words
    <3>3. words \in Seq(Int) /\ Len(words) = 2 /\ words[1] = cpu.stub /\ words[2] = 0
      BY <1>13, <3>1
    <3> QED BY <3>2, <3>3
  <2>3. CASE cpu.stub \notin ErrStubs /\ ~(cpu.stub < 32)
    <3>1. words = <<cpu.stub - 32, 0>>
      BY <2>3 DEF stub_pushes
    <3>2. cpu.stub \notin PushesError /\ n = cpu.stub - 32
      BY <2>3 DEF ErrStubs, PushesError, n
    <3> HIDE DEF words
    <3>3. words \in Seq(Int) /\ Len(words) = 2 /\ words[1] = cpu.stub - 32 /\ words[2] = 0
      BY <1>13, <3>1
    <3> QED BY <3>2, <3>3
  <2> QED BY <2>1, <2>2, <2>3
<1> HIDE DEF words
<1>5. /\ words \o cpu.stack \in Seq(Int)
      /\ Len(words \o cpu.stack) = Len(words) + Len(cpu.stack)
      /\ \A i \in 1 .. Len(words) : (words \o cpu.stack)[i] = words[i]
      /\ \A j \in 1 .. Len(cpu.stack) :
           (words \o cpu.stack)[Len(words) + j] = cpu.stack[j]
  BY <1>3, <1>4, Pushed
<1>6. /\ cpu'.stack = words \o cpu.stack /\ cpu'.pc = "common_stub"
      /\ cpu'.stub = cpu.stub /\ cpu'.regs = cpu.regs /\ CpuType'
  BY <1>1, <1>2, <1>5 DEF CpuType, Places
<1>11. /\ Len(cpu'.stack) = Len(words) + Len(cpu.stack)
       /\ \A i \in 1 .. Len(words) : cpu'.stack[i] = words[i]
       /\ \A j \in 1 .. Len(cpu.stack) : cpu'.stack[Len(words) + j] = cpu.stack[j]
  BY <1>5, <1>6
<1>7. EventInv' /\ SameRegs'
  BY <1>2, <1>12, <1>6 DEF EventInv, SameRegs
<1>8. CodesFrame(0)'
  <2>0. Len(event.stack) \in Nat /\ event.vector = cpu.stub
    BY <1>12 DEF EventInv
  <2>1. CASE cpu.stub \in PushesError
    <3>0. Len(words) = 1 /\ words[1] = n
      BY <1>4, <2>1
    <3>1. /\ Len(cpu.stack) = 4 + Len(event.stack)
          /\ cpu.stack[1] = event.err /\ cpu.stack[2] = event.regs.eip
          /\ cpu.stack[3] = event.regs.cs /\ cpu.stack[4] = event.regs.eflags
          /\ \A j \in 1 .. Len(event.stack) : cpu.stack[4 + j] = event.stack[j]
      BY <1>12, <2>1 DEF IretFrame, Below
    <3>2. /\ Len(cpu'.stack) = 1 + Len(cpu.stack) /\ cpu'.stack[1] = n
          /\ \A j \in 1 .. Len(cpu.stack) : cpu'.stack[1 + j] = cpu.stack[j]
      BY <1>3, <3>0, <1>11
    <3>3. /\ cpu'.stack[2] = cpu.stack[1] /\ cpu'.stack[3] = cpu.stack[2]
          /\ cpu'.stack[4] = cpu.stack[3] /\ cpu'.stack[5] = cpu.stack[4]
          /\ \A j \in 1 .. Len(event.stack) : cpu'.stack[5 + j] = cpu.stack[4 + j]
      <4>1. \A j \in 1 .. Len(event.stack) : 4 + j \in 1 .. Len(cpu.stack) /\ 1 + (4 + j) = 5 + j
        BY <2>0, <3>1
      <4> QED BY <2>0, <3>1, <3>2, <4>1
    <3>4. event.vector \in PushesError /\ n = IF event.vector < 32 THEN event.vector ELSE event.vector - 32
      BY <2>0, <2>1 DEF n
    <3>5. event' = event
      BY <1>2
    <3>6. /\ cpu'.stack[1] = n /\ cpu'.stack[2] = event.err
          /\ cpu'.stack[3] = event.regs.eip /\ cpu'.stack[4] = event.regs.cs
          /\ cpu'.stack[5] = event.regs.eflags
          /\ Len(cpu'.stack) = 5 + Len(event.stack)
          /\ \A j \in 1 .. Len(event.stack) : cpu'.stack[5 + j] = event.stack[j]
      BY <2>0, <3>1, <3>2, <3>3
    <3> QED BY <3>4, <3>5, <3>6 DEF CodesFrame, IretFrame, Below
  <2>2. CASE cpu.stub \notin PushesError
    <3>0. Len(words) = 2 /\ words[1] = n /\ words[2] = 0
      BY <1>4, <2>2
    <3>1. /\ Len(cpu.stack) = 3 + Len(event.stack)
          /\ cpu.stack[1] = event.regs.eip
          /\ cpu.stack[2] = event.regs.cs /\ cpu.stack[3] = event.regs.eflags
          /\ \A j \in 1 .. Len(event.stack) : cpu.stack[3 + j] = event.stack[j]
      BY <1>12, <2>2 DEF IretFrame, Below
    <3>2. /\ Len(cpu'.stack) = 2 + Len(cpu.stack) /\ cpu'.stack[1] = n /\ cpu'.stack[2] = 0
          /\ \A j \in 1 .. Len(cpu.stack) : cpu'.stack[2 + j] = cpu.stack[j]
      BY <1>3, <3>0, <1>11
    <3>3. /\ cpu'.stack[3] = cpu.stack[1] /\ cpu'.stack[4] = cpu.stack[2]
          /\ cpu'.stack[5] = cpu.stack[3]
          /\ \A j \in 1 .. Len(event.stack) : cpu'.stack[5 + j] = cpu.stack[3 + j]
      <4>1. \A j \in 1 .. Len(event.stack) : 3 + j \in 1 .. Len(cpu.stack) /\ 2 + (3 + j) = 5 + j
        BY <2>0, <3>1
      <4> QED BY <2>0, <3>1, <3>2, <4>1
    <3>4. event.vector \notin PushesError /\ n = IF event.vector < 32 THEN event.vector ELSE event.vector - 32
      BY <2>0, <2>2 DEF n
    <3>5. event' = event
      BY <1>2
    <3>6. /\ cpu'.stack[1] = n /\ cpu'.stack[2] = 0
          /\ cpu'.stack[3] = event.regs.eip /\ cpu'.stack[4] = event.regs.cs
          /\ cpu'.stack[5] = event.regs.eflags
          /\ Len(cpu'.stack) = 5 + Len(event.stack)
          /\ \A j \in 1 .. Len(event.stack) : cpu'.stack[5 + j] = event.stack[j]
      BY <2>0, <3>1, <3>2, <3>3
    <3> QED BY <3>4, <3>5, <3>6 DEF CodesFrame, IretFrame, Below
  <2> QED BY <2>1, <2>2
<1>9. TrapInv'
  BY <1>6, <1>7, <1>8 DEF TrapInv
<1>10. TablesInv' /\ PrintInv'
  BY <1>1, <1>2, <1>6 DEF TablesInv, PrintInv, Trapped
<1> QED BY <1>6, <1>9, <1>10 DEF ExcInv

(* The common stub saves the registers above the codes.                    *)
LEMMA CommonStubKeeps ==
  ASSUME ExcInv, common_stub PROVE ExcInv'
<1> DEFINE words == [k \in DOMAIN Saved |->
                       IF Saved[k] = "esp" THEN Len(cpu.stack) ELSE cpu.regs[Saved[k]]]
           r == [m \in DOMAIN cpu.regs |->
                   IF m \in Segments \cup {"eax"} THEN 16 ELSE cpu.regs[m]]
<1>1. CpuType /\ TrapInv /\ TablesInv /\ PrintInv
  BY DEF ExcInv
<1>2. /\ cpu.pc = "common_stub" /\ UNCHANGED <<gdt, idt, call, event, pf>>
      /\ cpu' = [cpu EXCEPT !.pc = "handler", !.stack = words \o @, !.regs = r]
  BY DEF common_stub
<1>3. cpu.stack \in Seq(Int)
  BY <1>1 DEF CpuType
<1>4. cpu.regs \in [Registers -> Int]
  BY <1>1 DEF CpuType
<1>5. EventInv /\ SameRegs /\ CodesFrame(0)
  BY <1>1, <1>2 DEF TrapInv, Trapped
<1>6. /\ words \in Seq(Int) /\ Len(words) = 12
      /\ \A k \in 1 .. 12 : k # 8 => words[k] = cpu.regs[Saved[k]]
  <2>1. \A k \in 1 .. 12 : k # 8 => Saved[k] # "esp" /\ Saved[k] \in Registers
    BY Layout DEF Registers, General, Segments
  <2>2. Saved[8] = "esp" /\ DOMAIN Saved = 1 .. 12 /\ Len(cpu.stack) \in Int
    BY <1>3, Layout
  <2>3. words \in [1 .. 12 -> Int]
    BY <1>4, <2>1, <2>2
  <2> QED BY <2>1, <2>2, <2>3
<1>7. /\ r \in [Registers -> Int] /\ r.eflags = cpu.regs.eflags
  BY <1>4 DEF Registers, General, Segments
<1> HIDE DEF words, r
<1>8. /\ words \o cpu.stack \in Seq(Int)
      /\ Len(words \o cpu.stack) = Len(words) + Len(cpu.stack)
      /\ \A i \in 1 .. Len(words) : (words \o cpu.stack)[i] = words[i]
      /\ \A j \in 1 .. Len(cpu.stack) :
           (words \o cpu.stack)[Len(words) + j] = cpu.stack[j]
  BY <1>3, <1>6, Pushed
<1>9. /\ cpu'.stack = words \o cpu.stack /\ cpu'.pc = "handler"
      /\ cpu'.stub = cpu.stub /\ cpu'.regs = r /\ CpuType'
  BY <1>1, <1>2, <1>7, <1>8 DEF CpuType, Places
<1>10. /\ Len(cpu'.stack) = 12 + Len(cpu.stack)
       /\ \A i \in 1 .. 12 : cpu'.stack[i] = words[i]
       /\ \A j \in 1 .. Len(cpu.stack) : cpu'.stack[12 + j] = cpu.stack[j]
  BY <1>6, <1>8, <1>9
<1>11. EventInv'
  BY <1>2, <1>5, <1>7, <1>9 DEF EventInv
<1>12. SavedFrame'
  <2>1. event' = event
    BY <1>2
  <2>2. \A k \in 1 .. 12 : k # 8 => cpu'.stack[k] = cpu.regs[Saved[k]]
    BY <1>6, <1>10
  <2>3. \A k \in 1 .. 12 : k # 8 => cpu.regs[Saved[k]] = event.regs[Saved[k]]
    <3>1. \A k \in 1 .. 12 : k # 8 => Saved[k] \in General \cup Segments
      BY Layout DEF General, Segments
    <3> QED BY <1>5, <3>1 DEF SameRegs
  <2>4. \A k \in 1 .. 12 : k # 8 => cpu'.stack[k] = event'.regs[Saved[k]]
    BY <2>1, <2>2, <2>3
  <2> QED BY <2>4, Layout DEF SavedFrame
<1>13. CodesFrame(12)'
  <2>0. Len(event.stack) \in Nat
    BY <1>5 DEF EventInv
  <2>1. /\ cpu.stack[1] = IF event.vector < 32 THEN event.vector ELSE event.vector - 32
        /\ cpu.stack[2] = IF event.vector \in PushesError THEN event.err ELSE 0
        /\ cpu.stack[3] = event.regs.eip /\ cpu.stack[4] = event.regs.cs
        /\ cpu.stack[5] = event.regs.eflags
        /\ Len(cpu.stack) = 5 + Len(event.stack)
        /\ \A j \in 1 .. Len(event.stack) : cpu.stack[5 + j] = event.stack[j]
    BY <1>5 DEF CodesFrame, IretFrame, Below
  <2>2. /\ cpu'.stack[13] = cpu.stack[1] /\ cpu'.stack[14] = cpu.stack[2]
        /\ cpu'.stack[15] = cpu.stack[3] /\ cpu'.stack[16] = cpu.stack[4]
        /\ cpu'.stack[17] = cpu.stack[5]
        /\ Len(cpu'.stack) = 17 + Len(event.stack)
        /\ \A j \in 1 .. Len(event.stack) : cpu'.stack[17 + j] = cpu.stack[5 + j]
    <3>1. \A j \in 1 .. Len(event.stack) :
            5 + j \in 1 .. Len(cpu.stack) /\ 12 + (5 + j) = 17 + j
      BY <2>0, <2>1
    <3>2. \A j \in 1 .. Len(event.stack) : cpu'.stack[17 + j] = cpu.stack[5 + j]
      BY <1>10, <3>1
    <3>3. \A i \in 1 .. 5 : cpu'.stack[12 + i] = cpu.stack[i]
      <4>1. Len(cpu.stack) = 5 + Len(event.stack)
        BY <2>1
      <4>2. \A i \in 1 .. 5 : i \in 1 .. Len(cpu.stack)
        BY <2>0, <4>1
      <4> QED BY <1>10, <4>2
    <3>4. 12 + 1 = 13 /\ 12 + 2 = 14 /\ 12 + 3 = 15 /\ 12 + 4 = 16 /\ 12 + 5 = 17
      OBVIOUS
    <3>5. /\ cpu'.stack[13] = cpu.stack[1] /\ cpu'.stack[14] = cpu.stack[2]
          /\ cpu'.stack[15] = cpu.stack[3] /\ cpu'.stack[16] = cpu.stack[4]
          /\ cpu'.stack[17] = cpu.stack[5]
      BY <3>3, <3>4
    <3>6. Len(cpu'.stack) = 17 + Len(event.stack)
      BY <2>0, <2>1, <1>10
    <3> QED BY <3>2, <3>5, <3>6
  <2>3. event' = event
    BY <1>2
  <2> QED BY <2>1, <2>2, <2>3 DEF CodesFrame, IretFrame, Below
<1>14. TrapInv'
  BY <1>9, <1>11, <1>12, <1>13 DEF TrapInv
<1>15. TablesInv' /\ PrintInv'
  BY <1>1, <1>2, <1>9 DEF TablesInv, PrintInv, Trapped
<1> QED BY <1>9, <1>14, <1>15 DEF ExcInv

(* A handler of an interrupt runs, and hands the same stack back.          *)
LEMMA IrqHandlerKeeps ==
  ASSUME ExcInv, irq_handler PROVE ExcInv'
<1>1. CpuType /\ TrapInv /\ TablesInv /\ PrintInv
  BY DEF ExcInv
<1> DEFINE r == [cpu.regs EXCEPT !.eax = 0, !.ecx = 0, !.edx = 0, !.eip = HandlerEip]
<1>2. /\ cpu.pc = "handler" /\ cpu.stub >= 32 /\ UNCHANGED <<gdt, idt, call, event, pf>>
      /\ cpu' = [cpu EXCEPT !.pc = "irq_handler", !.line = regs("int_no"), !.regs = r]
  BY DEF irq_handler
<1>3. EventInv /\ SavedFrame /\ CodesFrame(12)
  BY <1>1, <1>2 DEF TrapInv, Trapped
<1>4. cpu.stub \in 0 .. 47
  BY <1>1 DEF CpuType
<1>5. regs("int_no") = cpu.stub - 32
  <2>1. event.vector = cpu.stub
    BY <1>3 DEF EventInv
  <2>2. cpu.stack[12 + 1] = IF event.vector < 32 THEN event.vector ELSE event.vector - 32
    BY <1>3 DEF CodesFrame
  <2>3. 12 + 1 = 13 /\ ~(event.vector < 32)
    BY <1>2, <1>4, <2>1
  <2> QED BY <2>1, <2>2, <2>3, Layout
<1>6. r \in [Registers -> Int] /\ r.eflags = cpu.regs.eflags
  <2>1. cpu.regs \in [Registers -> Int] /\ HandlerEip \in Int
    BY <1>1, ExceptionConstants, LibcSizes DEF CpuType
  <2>2. /\ {"eax", "ecx", "edx", "eip", "eflags"} \subseteq Registers
    BY DEF Registers, General
  <2>3. r = [n \in Registers |-> IF n \in {"eax", "ecx", "edx"} THEN 0
                                 ELSE IF n = "eip" THEN HandlerEip ELSE cpu.regs[n]]
    BY <2>1, <2>2
  <2> HIDE DEF r
  <2> QED BY <2>1, <2>2, <2>3
<1> HIDE DEF r
<1>7. /\ cpu'.stack = cpu.stack /\ cpu'.pc = "irq_handler" /\ cpu'.stub = cpu.stub
      /\ cpu'.line = cpu.stub - 32 /\ cpu'.regs = r
  BY <1>1, <1>2, <1>5 DEF CpuType
<1>8. CpuType'
  <2>1. cpu.stub - 32 \in Int
    BY <1>4
  <2>2. cpu' = [cpu EXCEPT !.pc = "irq_handler", !.line = cpu.stub - 32, !.regs = r]
    BY <1>2, <1>5
  <2> QED BY <1>1, <1>6, <2>1, <2>2 DEF CpuType, Places
<1>9. EventInv' /\ SavedFrame' /\ CodesFrame(12)'
  BY <1>2, <1>3, <1>6, <1>7 DEF EventInv, SavedFrame, CodesFrame, IretFrame, Below
<1>10. TrapInv'
  BY <1>2, <1>7, <1>9 DEF TrapInv
<1>11. TablesInv' /\ PrintInv'
  BY <1>1, <1>2, <1>7 DEF TablesInv, PrintInv, Trapped
<1> QED BY <1>8, <1>10, <1>11 DEF ExcInv

LEMMA IrqReturnKeeps ==
  ASSUME ExcInv, irq_handler_return PROVE ExcInv'
<1>1. CpuType /\ TrapInv /\ TablesInv /\ PrintInv
  BY DEF ExcInv
<1>2. /\ cpu.pc = "irq_handler" /\ UNCHANGED <<gdt, idt, call, event, pf>>
      /\ cpu' = [cpu EXCEPT !.pc = "common_stub_return"]
  BY DEF irq_handler_return
<1>3. EventInv /\ SavedFrame /\ CodesFrame(12) /\ cpu.stub >= 32 /\ cpu.line = cpu.stub - 32
  BY <1>1, <1>2 DEF TrapInv, Trapped
<1>4. /\ cpu'.stack = cpu.stack /\ cpu'.pc = "common_stub_return" /\ cpu'.stub = cpu.stub
      /\ cpu'.line = cpu.line /\ cpu'.regs = cpu.regs /\ CpuType'
  BY <1>1, <1>2 DEF CpuType, Places
<1>5. EventInv' /\ SavedFrame' /\ CodesFrame(12)'
  BY <1>2, <1>3, <1>4 DEF EventInv, SavedFrame, CodesFrame, IretFrame, Below
<1>6. TrapInv'
  BY <1>3, <1>4, <1>5 DEF TrapInv
<1>7. TablesInv' /\ PrintInv'
  BY <1>1, <1>2, <1>4 DEF TablesInv, PrintInv, Trapped
<1> QED BY <1>4, <1>6, <1>7 DEF ExcInv

(* Back in the stub the registers are those of the interrupted code.       *)
LEMMA StubReturnKeeps ==
  ASSUME ExcInv, common_stub_return PROVE ExcInv'
<1>1. CpuType /\ TrapInv /\ TablesInv /\ PrintInv
  BY DEF ExcInv
<1> DEFINE r == [n \in DOMAIN cpu.regs |->
                   IF n \in General \cup Segments THEN regs(n) ELSE cpu.regs[n]]
           rest == SubSeq(cpu.stack, 14 + 1, Len(cpu.stack))
<1>2. /\ cpu.pc = "common_stub_return" /\ UNCHANGED <<gdt, idt, call, event, pf>>
      /\ cpu' = [cpu EXCEPT !.pc = "iret", !.regs = r, !.stack = rest]
  <2>1. Len(Saved) + Codes + 1 = 14 + 1
    BY Layout DEF Codes
  <2> QED BY <2>1 DEF common_stub_return
<1>3. EventInv /\ SavedFrame /\ CodesFrame(12) /\ cpu.stub >= 32 /\ cpu.line = cpu.stub - 32
  BY <1>1, <1>2 DEF TrapInv, Trapped
<1>4. cpu.stack \in Seq(Int)
  BY <1>1 DEF CpuType
<1>5. cpu.regs \in [Registers -> Int] /\ DOMAIN cpu.regs = Registers
  BY <1>1 DEF CpuType
<1>6. \A n \in General \cup Segments : regs(n) = event.regs[n]
  BY <1>3, Layout DEF SavedFrame, General, Segments
<1>7. /\ r \in [Registers -> Int] /\ r.eflags = cpu.regs.eflags
      /\ \A n \in General \cup Segments : r[n] = event.regs[n]
  <2>1. event.regs \in [Registers -> Int]
    BY <1>3 DEF EventInv
  <2>2. General \cup Segments \subseteq Registers
    BY DEF Registers
  <2>3. "eflags" \in Registers /\ "eflags" \notin General \cup Segments
    BY DEF Registers, General, Segments
  <2>4. r = [n \in Registers |->
               IF n \in General \cup Segments THEN event.regs[n] ELSE cpu.regs[n]]
    BY <1>5, <1>6
  <2> HIDE DEF r
  <2> QED BY <1>5, <2>1, <2>2, <2>3, <2>4
<1>8. /\ cpu.stack[15] = event.regs.eip /\ cpu.stack[16] = event.regs.cs
      /\ cpu.stack[17] = event.regs.eflags
      /\ Len(cpu.stack) = 17 + Len(event.stack)
      /\ \A j \in 1 .. Len(event.stack) : cpu.stack[17 + j] = event.stack[j]
  BY <1>3 DEF CodesFrame, IretFrame, Below
<1>9. Len(event.stack) \in Nat
  BY <1>3 DEF EventInv
<1>10. /\ rest \in Seq(Int) /\ Len(rest) = Len(cpu.stack) - 14
       /\ \A j \in 1 .. Len(cpu.stack) - 14 : rest[j] = cpu.stack[14 + j]
  <2>1. 14 \in 0 .. Len(cpu.stack)
    BY <1>8, <1>9
  <2> QED BY <1>4, <2>1, Dropped
<1> HIDE DEF r, rest
<1>11. /\ cpu'.stack = rest /\ cpu'.pc = "iret" /\ cpu'.stub = cpu.stub
       /\ cpu'.line = cpu.line /\ cpu'.regs = r /\ CpuType'
  BY <1>1, <1>2, <1>7, <1>10 DEF CpuType, Places
<1>12. EventInv' /\ SameRegs'
  BY <1>2, <1>3, <1>7, <1>11 DEF EventInv, SameRegs
<1>13. IretFrame(0)'
  <2>1. Len(rest) = 3 + Len(event.stack)
    BY <1>8, <1>9, <1>10
  <2>2. \A j \in 1 .. 3 + Len(event.stack) : rest[j] = cpu.stack[14 + j]
    BY <1>8, <1>9, <1>10
  <2>3. 14 + 1 = 15 /\ 14 + 2 = 16 /\ 14 + 3 = 17
        /\ {1, 2, 3} \subseteq 1 .. 3 + Len(event.stack)
    BY <1>9
  <2>4. rest[1] = cpu.stack[15] /\ rest[2] = cpu.stack[16] /\ rest[3] = cpu.stack[17]
    BY <2>2, <2>3
  <2>5. \A j \in 1 .. Len(event.stack) : rest[3 + j] = cpu.stack[17 + j]
    <3>1. \A j \in 1 .. Len(event.stack) :
            3 + j \in 1 .. 3 + Len(event.stack) /\ 14 + (3 + j) = 17 + j
      BY <1>9
    <3> QED BY <2>2, <3>1
  <2>6. event' = event
    BY <1>2
  <2> QED BY <1>8, <1>11, <2>1, <2>4, <2>5, <2>6 DEF IretFrame, Below
<1>14. TrapInv'
  BY <1>3, <1>11, <1>12, <1>13 DEF TrapInv
<1>15. TablesInv' /\ PrintInv'
  BY <1>1, <1>2, <1>11 DEF TablesInv, PrintInv, Trapped
<1> QED BY <1>11, <1>14, <1>15 DEF ExcInv

(* iret leaves the interrupted code as it was.                             *)
LEMMA IretRestores ==
  ASSUME ExcInv, iret
  PROVE  /\ cpu.line = event.vector - 32
         /\ cpu'.regs = event.regs
         /\ cpu'.stack = event.stack
<1>1. CpuType /\ TrapInv
  BY DEF ExcInv
<1> DEFINE rest == SubSeq(cpu.stack, 3 + 1, Len(cpu.stack))
           r == [cpu.regs EXCEPT !.eip = cpu.stack[1], !.cs = cpu.stack[2],
                                 !.eflags = cpu.stack[3]]
<1>2. cpu.pc = "iret" /\ cpu' = [cpu EXCEPT !.pc = "run", !.regs = r, !.stack = rest]
  <2>1. 3 + 1 = 4
    OBVIOUS
  <2> QED BY <2>1 DEF iret
<1>3. EventInv /\ SameRegs /\ IretFrame(0) /\ cpu.line = cpu.stub - 32
  BY <1>1, <1>2 DEF TrapInv, Trapped
<1>4. /\ cpu.stack[1] = event.regs.eip /\ cpu.stack[2] = event.regs.cs
      /\ cpu.stack[3] = event.regs.eflags
      /\ Len(cpu.stack) = 3 + Len(event.stack)
      /\ \A j \in 1 .. Len(event.stack) : cpu.stack[3 + j] = event.stack[j]
  BY <1>3 DEF IretFrame, Below
<1>5. event.stack \in Seq(Int) /\ Len(event.stack) \in Nat
  BY <1>3 DEF EventInv
<1>6. rest = event.stack
  <2>1. cpu.stack \in Seq(Int)
    BY <1>1 DEF CpuType
  <2>2. 3 \in 0 .. Len(cpu.stack) /\ Len(cpu.stack) - 3 = Len(event.stack)
    BY <1>4, <1>5
  <2>3. /\ rest \in Seq(Int) /\ Len(rest) = Len(cpu.stack) - 3
        /\ \A j \in 1 .. Len(cpu.stack) - 3 : rest[j] = cpu.stack[3 + j]
    BY <2>1, <2>2, Dropped
  <2> HIDE DEF rest
  <2>4. Len(rest) = Len(event.stack) /\ \A j \in 1 .. Len(rest) : rest[j] = event.stack[j]
    BY <1>4, <2>2, <2>3
  <2> QED BY <1>5, <2>3, <2>4, SeqEqual
<1>7. r = event.regs
  <2>1. cpu.regs \in [Registers -> Int]
    BY <1>1 DEF CpuType
  <2>2. event.regs \in [Registers -> Int]
    BY <1>3 DEF EventInv
  <2>3. {"eip", "cs", "eflags"} \subseteq Registers
    BY DEF Registers
  <2>4. r = [n \in Registers |-> IF n = "eip" THEN cpu.stack[1] ELSE
               IF n = "cs" THEN cpu.stack[2] ELSE
               IF n = "eflags" THEN cpu.stack[3] ELSE cpu.regs[n]]
    BY <2>1, <2>3
  <2> HIDE DEF r
  <2>5. \A n \in Registers : n \notin {"eip", "cs", "eflags"} => cpu.regs[n] = event.regs[n]
    BY <1>3 DEF SameRegs, Registers
  <2>6. \A n \in Registers : r[n] = event.regs[n]
    BY <1>4, <2>4, <2>5
  <2>7. r \in [Registers -> Int]
    BY <2>2, <2>4, <2>6
  <2> QED BY <2>2, <2>6, <2>7
<1>8. cpu.line = event.vector - 32
  BY <1>3 DEF EventInv
<1> HIDE DEF r, rest
<1>9. cpu'.regs = r /\ cpu'.stack = rest
  BY <1>1, <1>2 DEF CpuType
<1> QED BY <1>6, <1>7, <1>8, <1>9

LEMMA IretKeeps ==
  ASSUME ExcInv, iret PROVE ExcInv'
<1>1. CpuType /\ TrapInv /\ TablesInv /\ PrintInv
  BY DEF ExcInv
<1>2. /\ cpu.pc = "iret" /\ UNCHANGED <<gdt, idt, call, pf>> /\ cpu'.pc = "run"
      /\ cpu' = [cpu EXCEPT !.pc = "run", !.regs = cpu'.regs, !.stack = cpu'.stack]
  BY <1>1 DEF iret, CpuType
<1>3. cpu'.regs = event.regs /\ cpu'.stack = event.stack
  BY IretRestores
<1>4. EventInv /\ cpu.stub >= 32
  BY <1>1, <1>2 DEF TrapInv, Trapped
<1>5. CpuType'
  <2>1. event.regs \in [Registers -> Int] /\ event.stack \in Seq(Int)
    BY <1>4 DEF EventInv
  <2>2. cpu' = [cpu EXCEPT !.pc = "run", !.regs = event.regs, !.stack = event.stack]
    BY <1>2, <1>3
  <2> QED BY <1>1, <2>1, <2>2 DEF CpuType, Places
<1>6. TrapInv'
  BY <1>2 DEF TrapInv, Trapped
<1>7. TablesInv' /\ PrintInv'
  BY <1>1, <1>2, <1>4 DEF TablesInv, PrintInv, Trapped
<1> QED BY <1>5, <1>6, <1>7 DEF ExcInv

(***************************************************************************)
(* The handlers of exceptions, and kernel_main.                            *)
(***************************************************************************)
(* At a handler, registers_t tells the event.                              *)
LEMMA FrameTold == ASSUME ExcInv PROVE FrameTellsEvent
<1> SUFFICES ASSUME cpu.pc = "handler"
             PROVE  /\ \A n \in Registers : regs(n) = event.regs[n]
                    /\ regs("int_no") = IF event.vector < 32 THEN event.vector
                                       ELSE event.vector - 32
                    /\ regs("err_code") = IF event.vector \in PushesError THEN event.err ELSE 0
  BY DEF FrameTellsEvent
<1>1. SavedFrame /\ CodesFrame(12)
  BY DEF ExcInv, TrapInv, Trapped
<1>2. \A n \in General \cup Segments : regs(n) = event.regs[n]
  BY <1>1, Layout DEF SavedFrame, General, Segments
<1>3. /\ cpu.stack[13] = IF event.vector < 32 THEN event.vector ELSE event.vector - 32
      /\ cpu.stack[14] = IF event.vector \in PushesError THEN event.err ELSE 0
      /\ cpu.stack[15] = event.regs.eip /\ cpu.stack[16] = event.regs.cs
      /\ cpu.stack[17] = event.regs.eflags
  BY <1>1 DEF CodesFrame, IretFrame
<1>4. /\ regs("eip") = event.regs["eip"] /\ regs("cs") = event.regs["cs"]
      /\ regs("eflags") = event.regs["eflags"]
  BY <1>3, Layout
<1>5. \A n \in Registers : regs(n) = event.regs[n]
  BY <1>2, <1>4 DEF Registers
<1> QED BY <1>3, <1>5, Layout

(* Two pieces of text, one after the other.                                *)
LEMMA TwoTexts == ASSUME NEW a, NEW b PROVE <<>> \o <<a>> \o <<b>> = <<a, b>>
<1> DEFINE S == {a, b}
           c == <<a>> \o <<b>>
           d == <<a, b>>
<1>1. <<>> \o <<a>> = <<a>>
  OBVIOUS
<1>2. <<a>> \in Seq(S) /\ <<b>> \in Seq(S) /\ Len(<<a>>) = 1 /\ Len(<<b>>) = 1
  OBVIOUS
<1>3. c \in Seq(S) /\ Len(c) = 2 /\ c[1] = a /\ c[2] = b
  BY <1>2
<1>4. d \in Seq(S) /\ Len(d) = 2 /\ d[1] = a /\ d[2] = b
  OBVIOUS
<1> HIDE DEF c, d, S
<1>5. \A i \in 1 .. Len(c) : c[i] = d[i]
  BY <1>3, <1>4
<1>6. c = d
  BY <1>3, <1>4, <1>5, SeqEqual
<1> QED BY <1>1, <1>6 DEF c, d

(* exception_handler prints the name of the exception.                     *)
LEMMA ExceptionHandlerKeeps ==
  ASSUME ExcInv, exception_handler PROVE ExcInv'
<1>1. CpuType /\ TrapInv /\ TablesInv /\ PrintInv
  BY DEF ExcInv
<1>2. /\ cpu.pc = "handler" /\ cpu.stub < 32
      /\ cpu' = [cpu EXCEPT !.pc = "halted"] /\ UNCHANGED <<gdt, idt, call, event>>
  BY DEF exception_handler
<1>3. Trapped /\ EventInv
  BY <1>1, <1>2 DEF TrapInv, Trapped
<1>4. regs("int_no") = event.vector /\ event.vector < 32
  <2>1. event.vector = cpu.stub
    BY <1>3 DEF EventInv
  <2> QED BY <1>2, <2>1, FrameTold DEF FrameTellsEvent
<1>5. pf = PfIdle
  BY <1>1, <1>2, <1>3 DEF PrintInv
<1>6. pf'.out = <<"EXCEPTION! ", exception_messages[event.vector + 1]>>
  <2> DEFINE name == exception_messages[event.vector + 1]
  <2>1. pf.out = <<>>
    BY <1>5 DEF PfIdle
  <2>2. pf' = [pf EXCEPT !.out = @ \o <<"EXCEPTION! ">> \o <<name>>]
    BY <1>4 DEF exception_handler
  <2> HIDE DEF name
  <2>3. pf'.out = pf.out \o <<"EXCEPTION! ">> \o <<name>>
    BY <2>2, <1>5 DEF PfIdle
  <2>4. <<>> \o <<"EXCEPTION! ">> \o <<name>> = <<"EXCEPTION! ", name>>
    BY TwoTexts
  <2> QED BY <2>1, <2>3, <2>4 DEF name
<1>7. CpuType' /\ cpu'.pc = "halted"
  BY <1>1, <1>2 DEF CpuType, Places
<1>8. TrapInv' /\ TablesInv' /\ PrintInv'
  BY <1>1, <1>2, <1>6, <1>7 DEF TrapInv, TablesInv, PrintInv, Trapped
<1> QED BY <1>7, <1>8 DEF ExcInv

LEMMA PageFaultKeeps ==
  ASSUME ExcInv, page_fault_handler \/ page_fault_print \/ page_fault_halt
  PROVE  ExcInv'
<1>1. CpuType /\ TrapInv /\ TablesInv /\ PrintInv
  BY DEF ExcInv
<1>2. CASE page_fault_handler
  <2>1. /\ cpu.pc = "handler" /\ cpu.stub < 32 /\ regs("int_no") = 14
        /\ cpu' = [cpu EXCEPT !.pc = "page_fault_handler"]
        /\ UNCHANGED <<gdt, idt, call, event, pf>>
    BY <1>2 DEF page_fault_handler
  <2>2. EventInv
    BY <1>1, <2>1 DEF TrapInv, Trapped
  <2>3. event.vector = 14
    <3>1. event.vector = cpu.stub
      BY <2>2 DEF EventInv
    <3> QED BY <2>1, <3>1, FrameTold DEF FrameTellsEvent
  <2>4. CpuType' /\ cpu'.pc = "page_fault_handler"
    BY <1>1, <2>1 DEF CpuType, Places
  <2>5. TrapInv' /\ TablesInv' /\ PrintInv'
    BY <1>1, <2>1, <2>3, <2>4 DEF TrapInv, TablesInv, PrintInv, Trapped
  <2> QED BY <2>4, <2>5 DEF ExcInv
<1>3. CASE page_fault_print
  <2>1. cpu.pc = "page_fault_handler" /\ UNCHANGED <<cpu, gdt, idt, call, event>>
    BY <1>3 DEF page_fault_print
  <2>2. CpuType' /\ TrapInv'
    BY <1>1, <2>1, CpuSame
  <2>3. TablesInv' /\ PrintInv'
    BY <1>1, <2>1 DEF TablesInv, PrintInv, Trapped
  <2> QED BY <2>2, <2>3 DEF ExcInv
<1>4. CASE page_fault_halt
  <2>1. /\ cpu.pc = "page_fault_handler" /\ cpu' = [cpu EXCEPT !.pc = "halted"]
        /\ UNCHANGED <<gdt, idt, call, event, pf>>
    BY <1>4 DEF page_fault_halt
  <2>2. CpuType' /\ cpu'.pc = "halted"
    BY <1>1, <2>1 DEF CpuType, Places
  <2>3. TrapInv' /\ TablesInv' /\ PrintInv'
    BY <1>1, <2>1, <2>2 DEF TrapInv, TablesInv, PrintInv, Trapped
  <2> QED BY <2>2, <2>3 DEF ExcInv
<1> QED BY <1>2, <1>3, <1>4

(* The tables are set up in order.                                         *)
LEMMA TablesKeep ==
  ASSUME ExcInv, gdt_init \/ idt_init \/ irq_init
  PROVE  ExcInv'
<1>1. CpuType /\ TrapInv /\ TablesInv /\ PrintInv
  BY DEF ExcInv
<1>2. CASE gdt_init
  <2> DEFINE r == [n \in DOMAIN cpu.regs |->
                     CASE n \in Segments -> 16 [] n = "cs" -> 8 [] OTHER -> cpu.regs[n]]
  <2>1. /\ cpu.pc = "gdt_init" /\ gdt' = TRUE /\ UNCHANGED <<idt, call, event, pf>>
        /\ cpu' = [cpu EXCEPT !.pc = "idt_init", !.regs = r]
    BY <1>2, SelectorsLoad DEF gdt_init
  <2>2. cpu.regs \in [Registers -> Int]
    BY <1>1 DEF CpuType
  <2>3. r \in [Registers -> Int]
    <3>1. "cs" \notin Segments
      BY DEF Segments
    <3> QED BY <2>2, <3>1
  <2> HIDE DEF r
  <2>4. CpuType' /\ cpu'.pc = "idt_init"
    BY <1>1, <2>1, <2>3 DEF CpuType, Places
  <2>5. TrapInv' /\ TablesInv' /\ PrintInv'
    BY <1>1, <2>1, <2>4 DEF TrapInv, TablesInv, PrintInv, Trapped
  <2> QED BY <2>4, <2>5 DEF ExcInv
<1>3. CASE idt_init
  <2>1. /\ cpu.pc = "idt_init" /\ idt' = 0 .. 31 /\ UNCHANGED <<gdt, call, event, pf>>
        /\ cpu' = [cpu EXCEPT !.pc = "irq_init"]
    BY <1>3 DEF idt_init
  <2>2. CpuType' /\ cpu'.pc = "irq_init"
    BY <1>1, <2>1 DEF CpuType, Places
  <2>3. TrapInv' /\ TablesInv' /\ PrintInv'
    BY <1>1, <2>1, <2>2 DEF TrapInv, TablesInv, PrintInv, Trapped
  <2> QED BY <2>2, <2>3 DEF ExcInv
<1>4. CASE irq_init
  <2>1. /\ cpu.pc = "irq_init" /\ idt' = idt \cup (32 .. 47) /\ UNCHANGED <<gdt, call, event, pf>>
        /\ cpu' = [cpu EXCEPT !.pc = "run"]
    BY <1>4 DEF irq_init
  <2>2. idt' = 0 .. 47
    <3>1. idt = 0 .. 31
      BY <1>1, <2>1 DEF TablesInv
    <3>2. (0 .. 31) \cup (32 .. 47) = 0 .. 47
      OBVIOUS
    <3> QED BY <2>1, <3>1, <3>2
  <2>3. CpuType' /\ cpu'.pc = "run"
    BY <1>1, <2>1 DEF CpuType, Places
  <2>4. TrapInv' /\ TablesInv' /\ PrintInv'
    BY <1>1, <2>1, <2>2, <2>3 DEF TrapInv, TablesInv, PrintInv, Trapped
  <2> QED BY <2>3, <2>4 DEF ExcInv
<1> QED BY <1>2, <1>3, <1>4

(* The kernel's own code, between events.                                  *)
LEMMA RunKeeps ==
  ASSUME ExcInv,
         \/ sti \/ RunPrintf \/ Return
         \/ \E ds \in Formats : CallPrintf(ds)
         \/ \E r \in SegmentRequests : CallSegment(r)
  PROVE  ExcInv'
<1>1. CpuType /\ TrapInv /\ TablesInv /\ PrintInv
  BY DEF ExcInv
<1>2. CASE sti
  <2>1. /\ cpu.pc = "run" /\ cpu' = [cpu EXCEPT !.regs.eflags = 1]
        /\ UNCHANGED <<gdt, idt, call, event, pf>>
    BY <1>2 DEF sti
  <2>2. cpu.regs \in [Registers -> Int] /\ "eflags" \in Registers
    BY <1>1 DEF CpuType, Registers
  <2> DEFINE r == [cpu.regs EXCEPT !.eflags = 1]
  <2>5. r \in [Registers -> Int]
    BY <2>2
  <2>6. cpu' = [cpu EXCEPT !.regs = r]
    BY <2>1
  <2> HIDE DEF r
  <2>3. CpuType' /\ cpu'.pc = "run"
    BY <1>1, <2>1, <2>5, <2>6 DEF CpuType
  <2>4. TrapInv' /\ TablesInv' /\ PrintInv'
    BY <1>1, <2>1, <2>3 DEF TrapInv, TablesInv, PrintInv, Trapped
  <2> QED BY <2>3, <2>4 DEF ExcInv
<1>3. CASE RunPrintf
  <2>1. /\ cpu.pc \in {"run", "page_fault_handler"} /\ pf.pc = "run"
        /\ UNCHANGED <<cpu, gdt, idt, call, event>>
    BY <1>3 DEF RunPrintf, printf_step, printf_literal, printf_conversion, printf_return
  <2>2. CpuType' /\ TrapInv'
    BY <1>1, <2>1, CpuSame
  <2>3. call = NoCall => cpu.pc = "page_fault_handler"
    <3>1. PfIdle.pc # "run"
      BY DEF PfIdle
    <3> QED BY <1>1, <2>1, <3>1 DEF PrintInv
  <2>4. TablesInv' /\ PrintInv'
    BY <1>1, <2>1, <2>3 DEF TablesInv, PrintInv, Trapped
  <2> QED BY <2>2, <2>4 DEF ExcInv
<1>4. CASE Return
  <2>1. cpu.pc = "run" /\ pf' = PfIdle /\ UNCHANGED <<cpu, gdt, idt, event>>
    BY <1>4 DEF Return
  <2>2. CpuType' /\ TrapInv'
    BY <1>1, <2>1, CpuSame
  <2>3. TablesInv' /\ PrintInv'
    BY <1>1, <2>1 DEF TablesInv, PrintInv, Trapped
  <2> QED BY <2>2, <2>3 DEF ExcInv
<1>5. CASE (\E ds \in Formats : CallPrintf(ds)) \/ \E r \in SegmentRequests : CallSegment(r)
  <2>1. cpu.pc = "run" /\ UNCHANGED <<cpu, gdt, idt, event>>
    BY <1>5 DEF CallPrintf, CallSegment, Ready
  <2>2. call' # NoCall
    BY <1>5 DEF CallPrintf, CallSegment, NoCall
  <2>3. CpuType' /\ TrapInv'
    BY <1>1, <2>1, CpuSame
  <2>4. TablesInv' /\ PrintInv'
    BY <1>1, <2>1, <2>2 DEF TablesInv, PrintInv, Trapped
  <2> QED BY <2>3, <2>4 DEF ExcInv
<1> QED BY <1>2, <1>3, <1>4, <1>5

(***************************************************************************)
(* The theorems.                                                           *)
(***************************************************************************)
LEMMA ExcInitEstablishes == ExcInit => ExcInv
<1> SUFFICES ASSUME ExcInit PROVE ExcInv
  OBVIOUS
<1> DEFINE r == [MainRegs EXCEPT !.eflags = 0]
<1>1. r \in [Registers -> Int]
  <2>1. MainRegs \in [Registers -> Int]
    BY ExceptionConstants, LibcSizes
  <2> QED BY <2>1
<1>2. cpu = [pc |-> "gdt_init", stub |-> 0, line |-> 0, stack |-> <<>>, regs |-> r]
  BY DEF ExcInit
<1> HIDE DEF r
<1>3. CpuType /\ cpu.pc = "gdt_init"
  BY <1>1, <1>2 DEF CpuType, Places
<1>4. TrapInv /\ TablesInv /\ PrintInv
  BY <1>3 DEF ExcInit, TrapInv, TablesInv, PrintInv, Trapped
<1> QED BY <1>3, <1>4 DEF ExcInv

LEMMA ExcStep == ASSUME ExcInv, [ExcNext]_excVars PROVE ExcInv'
<1>1. CASE UNCHANGED excVars
  <2>1. UNCHANGED <<cpu, gdt, idt, call, event, pf>>
    BY <1>1 DEF excVars
  <2>2. CpuType' /\ TrapInv'
    BY <2>1, CpuSame DEF ExcInv
  <2>3. TablesInv' /\ PrintInv'
    BY <2>1 DEF ExcInv, TablesInv, PrintInv, Trapped
  <2> QED BY <2>2, <2>3 DEF ExcInv
<1>2. CASE \E v \in Vectors : \E err \in ErrCodes[v], cr2 \in DOMAIN Phys : Exception(v, err, cr2)
  BY <1>2, ExceptionKeeps
<1>3. CASE \E line \in Lines : Interrupt(line)
  BY <1>3, InterruptKeeps
<1>4. CASE KernelStep
  BY <1>4, TablesKeep, EntryStubKeeps, CommonStubKeeps, StubReturnKeeps, IretKeeps,
     IrqHandlerKeeps, IrqReturnKeeps, ExceptionHandlerKeeps, PageFaultKeeps, RunKeeps
     DEF KernelStep
<1>5. CASE \/ sti
           \/ \E ds \in Formats : CallPrintf(ds)
           \/ \E r \in SegmentRequests : CallSegment(r)
  BY <1>5, RunKeeps
<1> QED BY <1>1, <1>2, <1>3, <1>4, <1>5 DEF ExcNext

(* The inductive invariant: at every point of a trap the stack is the      *)
(* words pushed so far over the stack of the code that was interrupted,    *)
(* and the tables are loaded before they are needed.                       *)
THEOREM ExcInvariant == ExcSpec => []ExcInv
<1>1. ExcInit => ExcInv
  BY ExcInitEstablishes
<1>2. ExcInv /\ [ExcNext]_excVars => ExcInv'
  BY ExcStep
<1> QED BY <1>1, <1>2, PTL DEF ExcSpec

(* isr_stubs.S and irq_stubs.S build the registers_t of isr.h: whatever    *)
(* the vector and the stack, a handler finds the registers of the code     *)
(* that was interrupted, its vector or line and its error code.            *)
THEOREM HandlersFrame == ExcSpec => []FrameTellsEvent
<1>1. ExcInv => FrameTellsEvent
  BY FrameTold
<1> QED BY <1>1, ExcInvariant, PTL

(* irq_stubs.S gives the interrupted code back its registers, flags and    *)
(* stack, and irq_handler was told the line.                               *)
THEOREM InterruptsTransparent == ExcSpec => InterruptTransparent
<1>1. ASSUME ExcInv, [ExcNext]_excVars
      PROVE  [cpu.pc = "iret" =>
                /\ cpu.line = event.vector - 32
                /\ cpu'.regs = event.regs
                /\ cpu'.stack = event.stack]_excVars
  <2> SUFFICES ASSUME ExcNext, cpu.pc = "iret"
               PROVE  /\ cpu.line = event.vector - 32
                      /\ cpu'.regs = event.regs
                      /\ cpu'.stack = event.stack
    BY <1>1
  <2>1. iret
    BY DEF ExcNext, KernelStep, Exception, Interrupt, gdt_init, idt_init, irq_init, entry_stub,
       common_stub, common_stub_return, irq_handler, irq_handler_return, exception_handler,
       page_fault_handler, page_fault_print, page_fault_halt, RunPrintf, Return, sti,
       CallPrintf, CallSegment, Ready
  <2> QED BY <1>1, <2>1, IretRestores
<1> QED BY <1>1, ExcInvariant, PTL DEF ExcSpec, InterruptTransparent

(* An exception other than a page fault halts with its own name printed    *)
(* and nothing else: the part of ReportTellsFault that needs no digits.    *)
ExceptionNamed ==
  cpu.pc = "halted" /\ event.vector # 14 =>
    pf.out = <<"EXCEPTION! ", exception_messages[event.vector + 1]>>

(* exception_handler prints the name of the exception that came.           *)
THEOREM ExceptionsNamed == ExcSpec => []ExceptionNamed
<1>1. ExcInv => ExceptionNamed
  BY DEF ExcInv, PrintInv, ExceptionNamed
<1> QED BY <1>1, ExcInvariant, PTL

(* Once gdt_init and idt_init have run no event resets the machine: every  *)
(* gate holds the address of its own stub and a selector that loads.  The  *)
(* part of EventsAnswered that needs no fairness.                          *)
NoTripleFault ==
  cpu.pc = "reset" => event.vector # -1 /\ event.at \in {"gdt_init", "idt_init"}

(* A triple fault is possible before gdt_init and idt_init only.           *)
THEOREM GatesWork == ExcSpec => []NoTripleFault
<1>1. ExcInv => NoTripleFault
  BY DEF ExcInv, TablesInv, NoTripleFault
<1> QED BY <1>1, ExcInvariant, PTL

(* The last descriptor made is that of its request.                        *)
SegmentInv ==
  call.kind = "segment" =>
    /\ call.asked \in SegmentRequests
    /\ call.created = create_descriptor(call.asked.base, call.asked.limit, call.asked.flag)
    /\ call.encoded = encodeGdtEntry(NullEntry, call.asked.base, call.asked.limit,
                                     call.asked.flag)

(* Both encoders of gdt.c make descriptors the processor decodes to what   *)
(* was asked for, for every base below 16 MiB, every limit and flags.      *)
THEOREM SegmentsDecoded == ExcSpec => []SegmentsDecode
<1>1. ExcInit => SegmentInv
  BY DEF ExcInit, SegmentInv, NoCall
<1>2. ASSUME SegmentInv, [ExcNext]_excVars PROVE SegmentInv'
  <2>1. CASE UNCHANGED call
    BY <1>2, <2>1 DEF SegmentInv
  <2>2. CASE Return
    BY <2>2 DEF Return, SegmentInv, NoCall
  <2>3. CASE \E ds \in Formats : CallPrintf(ds)
    BY <2>3 DEF CallPrintf, SegmentInv
  <2>4. ASSUME NEW r \in SegmentRequests, CallSegment(r) PROVE SegmentInv'
    BY <2>4 DEF CallSegment, SegmentInv
  <2> QED BY <1>2, <2>1, <2>2, <2>3, <2>4
          DEF ExcNext, excVars, KernelStep, Exception, Interrupt, gdt_init, idt_init, irq_init,
              entry_stub, common_stub, common_stub_return, iret, irq_handler,
              irq_handler_return, exception_handler, page_fault_handler, page_fault_print,
              page_fault_halt, RunPrintf, sti
<1>3. SegmentInv => SegmentsDecode
  <2> SUFFICES ASSUME SegmentInv, call.kind = "segment", call.asked.base \subseteq 0 .. 23,
                      NEW e \in {call.created} \cup
                        (IF call.asked.limit \subseteq 0 .. 19 THEN {call.encoded} ELSE {})
               PROVE  /\ SegBase(e) = call.asked.base
                      /\ SegLimit(e) = call.asked.limit \cap (0 .. 19)
                      /\ SegFlags(e) = call.asked.flag \cap ((0 .. 7) \cup (12 .. 15))
    BY DEF SegmentsDecode
  <2> DEFINE base == call.asked.base
             limit == call.asked.limit
             flag == call.asked.flag
  <2>1. /\ base \in SUBSET (0 .. 23) /\ limit \in SUBSET (0 .. 31)
        /\ flag \in SUBSET (0 .. 15)
        /\ call.created = create_descriptor(base, limit, flag)
        /\ call.encoded = encodeGdtEntry(NullEntry, base, limit, flag)
    BY ExceptionConstants DEF SegmentInv
  <2> HIDE DEF base, limit, flag
  <2>2. \/ e = create_descriptor(base, limit, flag)
        \/ e = encodeGdtEntry(NullEntry, base, limit, flag) /\ limit \subseteq 0 .. 19
    BY <2>1 DEF limit
  <2>3. Decodes(e, base, limit, flag)
    <3>1. Decodes(create_descriptor(base, limit, flag), base, limit, flag)
      BY <2>1, CreatedDecodes
    <3>2. limit \subseteq 0 .. 19
            => Decodes(encodeGdtEntry(NullEntry, base, limit, flag), base, limit, flag)
      BY <2>1, EncodedDecodes
    <3> QED BY <2>2, <3>1, <3>2
  <2> QED BY <2>3 DEF Decodes, base, limit, flag
<1> QED BY <1>1, <1>2, <1>3, PTL DEF ExcSpec
=============================================================================
