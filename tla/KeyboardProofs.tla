--------------------------- MODULE KeyboardProofs ---------------------------
(***************************************************************************)
(* Theorems about the keyboard path of Keyboard, for every size of the     *)
(* ring buffer, every set of keys and any number of key events.            *)
(***************************************************************************)
EXTENDS Keyboard, TLAPS, SequenceTheorems

(***************************************************************************)
(* Control: what holds of the program counter, the flags and the           *)
(* interrupt line.                                                         *)
(***************************************************************************)
Bytes == [code : Keys \cup {"ext", "lshift", "slash"}, brk : BOOLEAN,
          want : Chars \cup {NoChar}]

Users == [down : SUBSET Keys, caps : BOOLEAN, events : Nat]
Ports == [full : BOOLEAN, byte : Bytes]
Pics  == [irr : BOOLEAN, isr : BOOLEAN, masked : BOOLEAN]
Cpus  == [pc : Pcs, iflag : BOOLEAN, shadow : BOOLEAN, ret : Pcs \cup {"none"}]
Kbds  == [buffer : [Slots -> Chars \cup {NoChar}], read_pos : Slots,
          write_pos : Slots, left_shift : BOOLEAN, right_shift : BOOLEAN,
          caps_lock : BOOLEAN, extended : BOOLEAN, registered : BOOLEAN]
Getcs == [c : Chars \cup {NoChar}, slot : Slots \cup {-1}]

TypeInv ==
  /\ user \in Users /\ dev \in Seq(Bytes) /\ port \in Ports /\ pic \in Pics
  /\ cpu \in Cpus /\ kbd \in Kbds /\ getc \in Getcs

InHandler == cpu.pc \in {"irq_handler", "pic_send_eoi", "iret"}

(* Interrupts are off in the handler, during start-up and from the check   *)
(* to the sti; an sti still casts its shadow after it; the handler         *)
(* returns to the cli or to the end of keyboard_getchar.                   *)
ControlInv ==
  /\ cpu.pc \in {"pic_init", "keyboard_init", "sti", "check", "take_sti"} => ~cpu.iflag
  /\ InHandler => ~cpu.iflag /\ cpu.ret \in {"cli", "return"}
  /\ cpu.pc \in {"hlt", "leave"} => cpu.shadow
  /\ cpu.pc \in {"hlt", "halted"} => ~keyboard_has_key
  /\ cpu.pc \notin {"pic_init", "keyboard_init"} => kbd.registered

(* A request stands for a byte in port 0x60 nobody has read yet.           *)
LineInv ==
  /\ pic.irr => port.full
  /\ cpu.pc = "irq_handler" => port.full /\ ~pic.irr

(* Before keyboard_init the statics are those of the loaded image.         *)
StartInv ==
  cpu.pc \in {"pic_init", "keyboard_init"} =>
    /\ kbd.read_pos = 0 /\ kbd.write_pos = 0
    /\ ~kbd.left_shift /\ ~kbd.right_shift /\ ~kbd.caps_lock /\ ~kbd.extended

SlotAfter(s) == IF s = KBD_BUF_SIZE - 1 THEN 0 ELSE s + 1

(* keyboard_getchar's local is in use exactly from the take to the return, *)
(* also across an interrupt, and stands for a character; a slot it still   *)
(* has to read is the one before read_pos.                                 *)
InTake == cpu.pc \in {"take_sti", "leave", "return"} \/ (InHandler /\ cpu.ret = "return")

HandInv ==
  /\ ~InTake => getc.c = NoChar /\ getc.slot = -1
  /\ InTake => CharRead \in Chars /\ (getc.slot = -1 \/ getc.c = NoChar)
  /\ getc.slot # -1 => SlotAfter(getc.slot) = kbd.read_pos

(* The slots from read_pos up to write_pos, around the end of the buffer,  *)
(* hold characters.                                                        *)
Queued(s) ==
  IF kbd.read_pos <= kbd.write_pos THEN kbd.read_pos <= s /\ s < kbd.write_pos
  ELSE kbd.read_pos <= s \/ s < kbd.write_pos

RingInv == \A s \in Slots : Queued(s) => kbd.buffer[s] \in Chars

KbdInv ==
  /\ TypeInv
  /\ ControlInv
  /\ LineInv
  /\ StartInv
  /\ HandInv
  /\ RingInv

(***************************************************************************)
(* The ring buffer's arithmetic.                                           *)
(***************************************************************************)
(* Indices wrap once.                                                      *)
LEMMA Wrap ==
  ASSUME NEW a \in Nat, a < 2 * KBD_BUF_SIZE
  PROVE  a % KBD_BUF_SIZE = IF a < KBD_BUF_SIZE THEN a ELSE a - KBD_BUF_SIZE
<1> DEFINE n == KBD_BUF_SIZE
<1>1. n \in Nat /\ n > 1
  BY KeyboardSizes
<1> HIDE DEF n
<1>2. CASE a < n
  BY <1>1, <1>2 DEF n
<1>3. CASE a >= n
  <2> DEFINE q == a \div n
             r == a % n
  <2>1. q \in Int /\ r \in 0 .. n - 1 /\ a = n * q + r
    BY <1>1
  <2> HIDE DEF q, r
  <2>2. CASE q <= 0
    <3>1. n * q <= 0
      BY <1>1, <2>1, <2>2
    <3> QED BY <1>1, <1>3, <2>1, <3>1
  <2>3. CASE q >= 2
    <3>1. n * q >= n * 2
      BY <1>1, <2>1, <2>3
    <3> QED BY <1>1, <2>1, <3>1 DEF n
  <2>4. CASE q = 1
    <3>1. r = a - n
      BY <1>1, <2>1, <2>4
    <3> QED BY <1>1, <1>3, <3>1 DEF n, r
  <2> QED BY <2>1, <2>2, <2>3, <2>4
<1> QED BY <1>1, <1>2, <1>3

(* The slot after a slot.                                                  *)
LEMMA NextSlot ==
  ASSUME NEW p \in Slots
  PROVE  /\ (p + 1) % KBD_BUF_SIZE \in Slots
         /\ (p + 1) % KBD_BUF_SIZE = IF p = KBD_BUF_SIZE - 1 THEN 0 ELSE p + 1
<1>1. KBD_BUF_SIZE \in Nat /\ KBD_BUF_SIZE > 1 /\ p \in Nat /\ p < KBD_BUF_SIZE
  BY KeyboardSizes DEF Slots
<1>2. (p + 1) % KBD_BUF_SIZE = IF p + 1 < KBD_BUF_SIZE THEN p + 1 ELSE p + 1 - KBD_BUF_SIZE
  BY <1>1, Wrap
<1> QED BY <1>1, <1>2 DEF Slots

(***************************************************************************)
(* keyboard_irq_handler.                                                   *)
(***************************************************************************)
Mods == [left_shift : BOOLEAN, right_shift : BOOLEAN, caps_lock : BOOLEAN,
         extended : BOOLEAN]

ModsOf(k) == [left_shift |-> k.left_shift, right_shift |-> k.right_shift,
              caps_lock |-> k.caps_lock, extended |-> k.extended]

(* The modifiers a byte leaves behind.                                     *)
AfterByte(m, b) ==
  IF b.code = "ext" THEN [m EXCEPT !.extended = TRUE]
  ELSE [left_shift  |-> IF b.code # "lshift" THEN m.left_shift
                        ELSE ~b.brk /\ (m.left_shift \/ ~m.extended),
        right_shift |-> IF b.code # "rshift" THEN m.right_shift
                        ELSE ~b.brk /\ (m.right_shift \/ ~m.extended),
        caps_lock   |-> m.caps_lock # (b.code = "caps" /\ ~b.brk /\ ~m.extended),
        extended    |-> FALSE]

(* A byte stands for a character of the tables or for none.                *)
LEMMA CharOfType ==
  ASSUME NEW k, NEW b
  PROVE  CharOf(k, b) \in Chars \cup {NoChar}
BY DEF CharOf, scancode_to_ascii, Ascii, is_letter_scancode, Chars, NoChar

(* The handler moves the modifiers as AfterByte says, and appends the      *)
(* character the byte stands for, if any, unless the buffer is full.       *)
LEMMA HandlerResult ==
  ASSUME NEW k \in Kbds, NEW b \in Bytes
  PROVE  LET r == keyboard_irq_handler(k, b)
             c == CharOf(k, b)
             next == (k.write_pos + 1) % KBD_BUF_SIZE
         IN  /\ r \in Kbds
             /\ ModsOf(r) = AfterByte(ModsOf(k), b)
             /\ r.registered = k.registered /\ r.read_pos = k.read_pos
             /\ IF c = NoChar \/ next = k.read_pos
                THEN r.write_pos = k.write_pos /\ r.buffer = k.buffer
                ELSE r.write_pos = next /\ r.buffer = [k.buffer EXCEPT ![k.write_pos] = c]
<1> DEFINE c == CharOf(k, b)
           next == (k.write_pos + 1) % KBD_BUF_SIZE
           plain == ~b.brk /\ ~k.extended
           shift(now, code) == IF b.code # code THEN now
                               ELSE IF b.brk THEN FALSE ELSE now \/ plain
           ls == shift(k.left_shift, "lshift")
           rs == shift(k.right_shift, "rshift")
           cl == k.caps_lock # (b.code = "caps" /\ plain)
           m == [k EXCEPT !.extended = FALSE, !.left_shift = ls, !.right_shift = rs,
                          !.caps_lock = cl]
           r == keyboard_irq_handler(k, b)
<1>1. c \in Chars \cup {NoChar}
  BY CharOfType
<1>2. next \in Slots
  BY NextSlot DEF Kbds
<1>3. ls \in BOOLEAN /\ rs \in BOOLEAN /\ cl \in BOOLEAN
  BY DEF Kbds, Bytes
<1>4. CASE b.code = "ext"
  <2>1. r = [k EXCEPT !.extended = TRUE] /\ c = NoChar
    BY <1>4 DEF keyboard_irq_handler, CharOf
  <2> QED BY <1>4, <2>1 DEF Kbds, ModsOf, AfterByte
<1>5. CASE b.code # "ext"
  <2>1. r = IF c = NoChar THEN m ELSE kbd_buffer_push(m, c)
    BY <1>5 DEF keyboard_irq_handler
  <2>2. /\ m \in Kbds /\ m.write_pos = k.write_pos /\ m.read_pos = k.read_pos
        /\ m.buffer = k.buffer /\ m.registered = k.registered
        /\ m.left_shift = ls /\ m.right_shift = rs /\ m.caps_lock = cl
        /\ m.extended = FALSE
    BY <1>3, ZenonT(30) DEF Kbds
  <2>3. ModsOf(m) = AfterByte(ModsOf(k), b)
    <3>1. /\ ls = IF b.code # "lshift" THEN k.left_shift
                  ELSE ~b.brk /\ (k.left_shift \/ ~k.extended)
          /\ rs = IF b.code # "rshift" THEN k.right_shift
                  ELSE ~b.brk /\ (k.right_shift \/ ~k.extended)
          /\ cl = (k.caps_lock # (b.code = "caps" /\ ~b.brk /\ ~k.extended))
      BY DEF Kbds, Bytes
    <3> HIDE DEF ls, rs, cl, m
    <3> QED BY <1>5, <2>2, <3>1 DEF ModsOf, AfterByte
  <2> HIDE DEF m
  <2>4. CASE c = NoChar \/ next = k.read_pos
    BY <2>1, <2>2, <2>3, <2>4 DEF kbd_buffer_push
  <2>5. CASE ~(c = NoChar \/ next = k.read_pos)
    <3>1. r = [m EXCEPT !.buffer[k.write_pos] = c, !.write_pos = next]
      BY <2>1, <2>2, <2>5 DEF kbd_buffer_push
    <3> HIDE DEF r, c, next
    <3>2. /\ r \in Kbds /\ r.registered = m.registered /\ r.read_pos = m.read_pos
          /\ r.write_pos = next
          /\ r.buffer = [m.buffer EXCEPT ![k.write_pos] = c]
          /\ ModsOf(r) = ModsOf(m)
      BY <1>1, <1>2, <2>2, <3>1 DEF Kbds, ModsOf
    <3> QED BY <2>2, <2>3, <2>5, <3>2 DEF r, c, next
  <2> QED BY <2>4, <2>5
<1> QED BY <1>4, <1>5

(***************************************************************************)
(* Types.                                                                  *)
(***************************************************************************)
(* What a key sends are bytes, with or without fake shifts.                *)
LEMMA CodesType ==
  ASSUME NEW key \in Keys, NEW brk \in BOOLEAN
  PROVE  Codes(key, brk) \in Seq(Bytes)
<1>1. Meant(key) \in Chars \cup {NoChar}
  BY DEF Meant, Ascii, is_letter_scancode, Chars, NoChar
<1>2. Ext \in Bytes /\ Byte("slash", brk, NoChar) \in Bytes
      /\ Byte("lshift", TRUE, NoChar) \in Bytes /\ Byte("lshift", FALSE, NoChar) \in Bytes
  BY DEF Ext, Byte, Bytes
<1>3. Byte(key, brk, IF brk THEN NoChar ELSE Meant(key)) \in Bytes
  BY <1>1 DEF Byte, Bytes
<1>4. \A a, b \in Bytes : <<a, b>> \in Seq(Bytes)
  OBVIOUS
<1>5. CASE key # "kp_slash"
  BY <1>3, <1>5 DEF Codes
<1>6. CASE key = "kp_slash"
  <2> DEFINE code == <<Ext, Byte("slash", brk, NoChar)>>
             down == <<Ext, Byte("lshift", TRUE, NoChar)>>
             up == <<Ext, Byte("lshift", FALSE, NoChar)>>
  <2>1. code \in Seq(Bytes) /\ down \in Seq(Bytes) /\ up \in Seq(Bytes)
    BY <1>2, <1>4
  <2>2. Codes(key, brk) \in {code, down \o code, code \o up}
    BY <1>6 DEF Codes
  <2> HIDE DEF code, down, up
  <2> QED BY <2>1, <2>2, ConcatProperties
<1> QED BY <1>5, <1>6

(* The two ways an instruction moves the processor on.                     *)
LEMMA CpuMoves ==
  ASSUME NEW c \in Cpus, NEW pc \in Pcs, NEW i \in BOOLEAN, NEW s \in BOOLEAN
  PROVE  /\ [c EXCEPT !.pc = pc, !.shadow = s] \in Cpus
         /\ [c EXCEPT !.pc = pc, !.shadow = s, !.iflag = i] \in Cpus
         /\ [c EXCEPT !.pc = pc, !.iflag = i, !.shadow = s] \in Cpus
BY DEF Cpus

(* Every step keeps the types.                                             *)
LEMMA TypePreserved == TypeInv /\ ControlInv /\ [Next]_vars => TypeInv'
<1> SUFFICES ASSUME TypeInv, ControlInv, [Next]_vars PROVE TypeInv'
  OBVIOUS
<1> USE DEF TypeInv
<1>0. \A pc \in Pcs : Goto(pc) \/ Sti(pc) => cpu' \in Cpus
  BY CpuMoves DEF Goto, Sti
<1>00. /\ "irq_handler" \in Pcs /\ "pic_send_eoi" \in Pcs /\ "iret" \in Pcs
       /\ "keyboard_init" \in Pcs /\ "sti" \in Pcs /\ "cli" \in Pcs
       /\ "check" \in Pcs /\ "take_sti" \in Pcs /\ "leave" \in Pcs /\ "return" \in Pcs
       /\ "hlt" \in Pcs /\ "halted" \in Pcs
  BY DEF Pcs
<1>1. ASSUME NEW key \in Keys, PressKey(key) PROVE TypeInv'
  <2>1. Codes(key, FALSE) \in Seq(Bytes)
    BY CodesType
  <2>2. user' \in Users
    BY <1>1 DEF PressKey, Users
  <2>3. dev' \in Seq(Bytes)
    BY <1>1, <2>1, ConcatProperties DEF PressKey
  <2> QED BY <1>1, <2>2, <2>3 DEF PressKey
<1>2. ASSUME NEW key \in Keys, ReleaseKey(key) PROVE TypeInv'
  <2>1. Codes(key, TRUE) \in Seq(Bytes)
    BY CodesType
  <2>2. user' \in Users
    <3>1. user.down \ {key} \in SUBSET Keys /\ user.events + 1 \in Nat
      BY DEF Users
    <3> QED BY <1>2, <3>1 DEF ReleaseKey, Users
  <2>3. dev' \in Seq(Bytes)
    BY <1>2, <2>1, ConcatProperties DEF ReleaseKey
  <2> QED BY <1>2, <2>2, <2>3 DEF ReleaseKey
<1>3. CASE DeviceRaise
  <2>1. Head(dev) \in Bytes /\ Tail(dev) \in Seq(Bytes)
    BY <1>3 DEF DeviceRaise
  <2>2. pic' \in Pics
    BY <1>3 DEF DeviceRaise, Pics
  <2> QED BY <1>3, <2>1, <2>2 DEF DeviceRaise, Ports
<1>4. CASE Interrupt
  <2>1. pic' \in Pics
    BY <1>4 DEF Interrupt, Pics
  <2>2. cpu' \in Cpus
    BY <1>4, <1>00 DEF Interrupt, Cpus
  <2> QED BY <1>4, <2>1, <2>2 DEF Interrupt
<1>5. CASE irq_handler
  <2>1. port.byte \in Bytes
    BY DEF Ports
  <2>2. keyboard_irq_handler(kbd, port.byte) \in Kbds
    BY <2>1, HandlerResult
  <2>3. [port EXCEPT !.full = FALSE] \in Ports
    BY DEF Ports
  <2> QED BY <1>0, <1>00, <1>5, <2>2, <2>3 DEF irq_handler
<1>6. CASE pic_send_eoi
  <2>1. pic' \in Pics
    BY <1>6 DEF pic_send_eoi, Pics
  <2> QED BY <1>0, <1>00, <1>6, <2>1 DEF pic_send_eoi
<1>7. CASE iret
  <2>1. cpu' \in Cpus
    BY <1>7, <1>00 DEF iret, Cpus, ControlInv, InHandler
  <2> QED BY <1>7, <2>1 DEF iret
<1>8. CASE pic_init
  BY <1>0, <1>00, <1>8 DEF pic_init, Pics
<1>9. CASE keyboard_init
  <2>1. kbd' \in Kbds
    <3>1. 0 \in Slots
      BY KeyboardSizes DEF Slots
    <3> QED BY <1>9, <3>1 DEF keyboard_init, Reset, Kbds
  <2>2. pic' \in Pics
    BY <1>9 DEF keyboard_init, Pics
  <2> QED BY <1>0, <1>00, <1>9, <2>1, <2>2 DEF keyboard_init
<1>10. CASE kernel_main_sti
  BY <1>0, <1>00, <1>10 DEF kernel_main_sti
<1>11. CASE getchar_cli
  BY <1>00, <1>11, CpuMoves DEF getchar_cli
<1>12. CASE getchar_take
  <2>1. (kbd.read_pos + 1) % KBD_BUF_SIZE \in Slots
    BY NextSlot DEF Kbds
  <2>2. kbd' \in Kbds
    BY <1>12, <2>1 DEF getchar_take, Kbds
  <2>3. getc' \in Getcs
    BY <1>12 DEF getchar_take, Kbds, Getcs
  <2> QED BY <1>0, <1>00, <1>12, <2>2, <2>3 DEF getchar_take
<1>13. CASE getchar_take_sti \/ getchar_leave
  BY <1>0, <1>00, <1>13 DEF getchar_take_sti, getchar_leave
<1>14. CASE getchar_return
  BY <1>0, <1>00, <1>14 DEF getchar_return, Getcs
<1>15. CASE getchar_empty_sti
  BY <1>0, <1>00, <1>15 DEF getchar_empty_sti
<1>16. CASE getchar_hlt
  BY <1>0, <1>00, <1>16 DEF getchar_hlt
<1>17. CASE UNCHANGED vars
  BY <1>17 DEF vars
<1> QED
  BY <1>1, <1>2, <1>3, <1>4, <1>5, <1>6, <1>7, <1>8, <1>9, <1>10, <1>11, <1>12,
     <1>13, <1>14, <1>15, <1>16, <1>17 DEF Next, CpuStep
(***************************************************************************)
(* The control invariants.                                                 *)
(***************************************************************************)
(* A step of irq_handler: the byte in the port goes through the driver.    *)
LEMMA HandlerKbd ==
  ASSUME TypeInv, ControlInv, irq_handler
  PROVE  /\ kbd' = keyboard_irq_handler(kbd, port.byte)
         /\ kbd'.registered = kbd.registered /\ kbd'.read_pos = kbd.read_pos
         /\ port.byte \in Bytes /\ kbd \in Kbds
         /\ ~port'.full /\ cpu'.pc = "pic_send_eoi"
         /\ cpu'.iflag = cpu.iflag /\ cpu'.ret = cpu.ret
<1>1. port.byte \in Bytes /\ kbd \in Kbds /\ ~[port EXCEPT !.full = FALSE].full
  BY DEF TypeInv, Ports
<1>2. kbd.registered /\ cpu.pc = "irq_handler"
  BY DEF irq_handler, ControlInv
<1>3. kbd' = keyboard_irq_handler(kbd, port.byte) /\ ~port'.full
  BY <1>1, <1>2 DEF irq_handler
<1>4. cpu'.pc = "pic_send_eoi" /\ cpu'.iflag = cpu.iflag /\ cpu'.ret = cpu.ret
  BY DEF irq_handler, Goto, TypeInv, Cpus
<1> QED BY <1>1, <1>3, <1>4, HandlerResult

(* Every step keeps the control invariant.                                 *)
LEMMA ControlPreserved == TypeInv /\ ControlInv /\ [Next]_vars => ControlInv'
<1> SUFFICES ASSUME TypeInv, ControlInv, [Next]_vars PROVE ControlInv'
  OBVIOUS
<1> USE DEF TypeInv, ControlInv, InHandler, keyboard_has_key, Cpus, Goto, Sti
<1>1. ASSUME NEW key \in Keys, PressKey(key) \/ ReleaseKey(key) PROVE ControlInv'
  BY <1>1 DEF PressKey, ReleaseKey
<1>2. CASE DeviceRaise
  BY <1>2 DEF DeviceRaise
<1>3. CASE Interrupt
  <2>1. cpu.pc \in {"cli", "return", "halted"}
    BY <1>3 DEF Interrupt, Interruptible, Pcs
  <2>2. cpu' = [pc |-> "irq_handler", iflag |-> FALSE, shadow |-> FALSE,
                ret |-> IF cpu.pc = "halted" THEN "cli" ELSE cpu.pc]
        /\ kbd' = kbd
    BY <1>3 DEF Interrupt
  <2> QED BY <2>1, <2>2
<1>4. CASE irq_handler
  <2>1. /\ kbd'.registered = kbd.registered /\ cpu'.pc = "pic_send_eoi"
        /\ cpu'.iflag = cpu.iflag /\ cpu'.ret = cpu.ret /\ cpu.pc = "irq_handler"
    BY <1>4, HandlerKbd DEF irq_handler
  <2> QED BY <2>1
<1>5. CASE pic_send_eoi
  BY <1>5 DEF pic_send_eoi
<1>6. CASE iret
  BY <1>6 DEF iret
<1>7. CASE pic_init
  BY <1>7 DEF pic_init
<1>8. CASE keyboard_init
  <2>1. kbd'.registered = TRUE
    BY <1>8 DEF keyboard_init, Reset, Kbds
  <2> QED BY <1>8, <2>1 DEF keyboard_init
<1>9. CASE kernel_main_sti
  BY <1>9 DEF kernel_main_sti
<1>10. CASE getchar_cli
  BY <1>10 DEF getchar_cli
<1>11. CASE getchar_take
  <2>1. kbd'.registered = kbd.registered
    BY <1>11 DEF getchar_take, Kbds
  <2> QED BY <1>11, <2>1 DEF getchar_take
<1>12. CASE getchar_take_sti \/ getchar_leave
  BY <1>12 DEF getchar_take_sti, getchar_leave
<1>13. CASE getchar_return
  BY <1>13 DEF getchar_return
<1>14. CASE getchar_empty_sti
  BY <1>14 DEF getchar_empty_sti
<1>15. CASE getchar_hlt
  BY <1>15 DEF getchar_hlt
<1>16. CASE UNCHANGED vars
  BY <1>16 DEF vars
<1> QED
  BY <1>1, <1>2, <1>3, <1>4, <1>5, <1>6, <1>7, <1>8, <1>9, <1>10, <1>11,
     <1>12, <1>13, <1>14, <1>15, <1>16 DEF Next, CpuStep

(* Every step keeps the line invariant: the edge is latched with the byte  *)
(* and taken before the byte is read.                                      *)
LEMMA LinePreserved == TypeInv /\ ControlInv /\ LineInv /\ [Next]_vars => LineInv'
<1> SUFFICES ASSUME TypeInv, ControlInv, LineInv, [Next]_vars PROVE LineInv'
  OBVIOUS
<1> USE DEF TypeInv, LineInv, Pics, Ports, Cpus, Goto, Sti
<1>1. ASSUME NEW key \in Keys, PressKey(key) \/ ReleaseKey(key) PROVE LineInv'
  BY <1>1 DEF PressKey, ReleaseKey
<1>2. CASE DeviceRaise
  BY <1>2 DEF DeviceRaise
<1>3. CASE Interrupt
  BY <1>3 DEF Interrupt, Interruptible
<1>4. CASE irq_handler
  <2>1. cpu'.pc = "pic_send_eoi" /\ cpu.pc = "irq_handler"
    BY <1>4, HandlerKbd DEF irq_handler
  <2> QED BY <1>4, <2>1 DEF irq_handler
<1>5. CASE pic_send_eoi
  BY <1>5 DEF pic_send_eoi
<1>6. CASE iret
  BY <1>6 DEF iret, ControlInv, InHandler
<1>7. CASE pic_init
  BY <1>7 DEF pic_init
<1>8. CASE keyboard_init
  BY <1>8 DEF keyboard_init
<1>9. CASE kernel_main_sti
  BY <1>9 DEF kernel_main_sti
<1>10. CASE getchar_cli
  BY <1>10 DEF getchar_cli
<1>11. CASE getchar_take
  BY <1>11 DEF getchar_take
<1>12. CASE getchar_take_sti \/ getchar_leave
  BY <1>12 DEF getchar_take_sti, getchar_leave
<1>13. CASE getchar_return
  BY <1>13 DEF getchar_return
<1>14. CASE getchar_empty_sti
  BY <1>14 DEF getchar_empty_sti
<1>15. CASE getchar_hlt
  BY <1>15 DEF getchar_hlt
<1>16. CASE UNCHANGED vars
  BY <1>16 DEF vars
<1> QED
  BY <1>1, <1>2, <1>3, <1>4, <1>5, <1>6, <1>7, <1>8, <1>9, <1>10, <1>11,
     <1>12, <1>13, <1>14, <1>15, <1>16 DEF Next, CpuStep

(* Every step keeps the statics untouched until keyboard_init.             *)
LEMMA StartPreserved == TypeInv /\ ControlInv /\ StartInv /\ [Next]_vars => StartInv'
<1> SUFFICES ASSUME TypeInv, ControlInv, StartInv, [Next]_vars PROVE StartInv'
  OBVIOUS
<1> USE DEF TypeInv, StartInv, Cpus, Goto, Sti
<1>1. ASSUME NEW key \in Keys, PressKey(key) \/ ReleaseKey(key) PROVE StartInv'
  BY <1>1 DEF PressKey, ReleaseKey
<1>2. CASE DeviceRaise
  BY <1>2 DEF DeviceRaise
<1>3. CASE Interrupt
  BY <1>3 DEF Interrupt, Interruptible
<1>4. CASE irq_handler
  <2>1. cpu'.pc = "pic_send_eoi"
    BY <1>4, HandlerKbd
  <2> QED BY <2>1
<1>5. CASE pic_send_eoi
  BY <1>5 DEF pic_send_eoi
<1>6. CASE iret
  BY <1>6 DEF iret, ControlInv, InHandler
<1>7. CASE pic_init
  BY <1>7 DEF pic_init
<1>8. CASE keyboard_init
  BY <1>8 DEF keyboard_init
<1>9. CASE kernel_main_sti
  BY <1>9 DEF kernel_main_sti
<1>10. CASE getchar_cli
  BY <1>10 DEF getchar_cli
<1>11. CASE getchar_take
  BY <1>11 DEF getchar_take
<1>12. CASE getchar_take_sti \/ getchar_leave
  <2>1. cpu'.pc \in {"leave", "return"}
    BY <1>12 DEF getchar_take_sti, getchar_leave
  <2> QED BY <2>1
<1>13. CASE getchar_return
  BY <1>13 DEF getchar_return
<1>14. CASE getchar_empty_sti
  BY <1>14 DEF getchar_empty_sti
<1>15. CASE getchar_hlt
  BY <1>15 DEF getchar_hlt
<1>16. CASE UNCHANGED vars
  BY <1>16 DEF vars
<1> QED
  BY <1>1, <1>2, <1>3, <1>4, <1>5, <1>6, <1>7, <1>8, <1>9, <1>10, <1>11,
     <1>12, <1>13, <1>14, <1>15, <1>16 DEF Next, CpuStep

(***************************************************************************)
(* The ring buffer and keyboard_getchar's local.                           *)
(***************************************************************************)
(* What a step of irq_handler does to the buffer, in terms of SlotAfter.   *)
LEMMA HandlerRing ==
  ASSUME TypeInv, ControlInv, irq_handler
  PROVE  LET c == CharOf(kbd, port.byte) IN
         /\ kbd'.read_pos = kbd.read_pos
         /\ IF c = NoChar \/ SlotAfter(kbd.write_pos) = kbd.read_pos
            THEN kbd'.write_pos = kbd.write_pos /\ kbd'.buffer = kbd.buffer
            ELSE /\ c \in Chars
                 /\ kbd'.write_pos = SlotAfter(kbd.write_pos)
                 /\ kbd'.buffer = [kbd.buffer EXCEPT ![kbd.write_pos] = c]
<1>1. /\ kbd' = keyboard_irq_handler(kbd, port.byte) /\ kbd'.read_pos = kbd.read_pos
      /\ port.byte \in Bytes /\ kbd \in Kbds
  BY HandlerKbd
<1>2. kbd.write_pos \in Slots
  BY <1>1 DEF Kbds
<1>3. (kbd.write_pos + 1) % KBD_BUF_SIZE = SlotAfter(kbd.write_pos)
  BY <1>2, NextSlot DEF SlotAfter
<1> QED BY <1>1, <1>3, HandlerResult, CharOfType

(* A step of getchar_take moves read_pos and nothing else of the buffer.   *)
LEMMA TakeRing ==
  ASSUME TypeInv, getchar_take
  PROVE  /\ kbd'.read_pos = SlotAfter(kbd.read_pos)
         /\ kbd'.write_pos = kbd.write_pos /\ kbd'.buffer = kbd.buffer
         /\ kbd.read_pos # kbd.write_pos
<1>1. kbd \in Kbds /\ kbd.read_pos \in Slots
  BY DEF TypeInv, Kbds
<1>2. (kbd.read_pos + 1) % KBD_BUF_SIZE = SlotAfter(kbd.read_pos)
  BY <1>1, NextSlot DEF SlotAfter
<1> QED BY <1>1, <1>2 DEF getchar_take, Kbds, keyboard_has_key

(* Every step keeps characters, and only those, in the queued slots.       *)
LEMMA RingPreserved == TypeInv /\ ControlInv /\ StartInv /\ RingInv /\ [Next]_vars => RingInv'
<1> SUFFICES ASSUME TypeInv, ControlInv, StartInv, RingInv, [Next]_vars PROVE RingInv'
  OBVIOUS
<1> USE DEF RingInv, Queued
<1>1. ASSUME NEW key \in Keys, PressKey(key) \/ ReleaseKey(key) PROVE RingInv'
  BY <1>1 DEF PressKey, ReleaseKey
<1>2. CASE DeviceRaise
  BY <1>2 DEF DeviceRaise
<1>3. CASE Interrupt
  BY <1>3 DEF Interrupt, Interruptible
<1>4. CASE irq_handler
  <2> DEFINE c == CharOf(kbd, port.byte)
  <2>0. /\ kbd.read_pos \in Slots /\ kbd.write_pos \in Slots
        /\ kbd.buffer \in [Slots -> Chars \cup {NoChar}]
    BY DEF TypeInv, Kbds
  <2>1. kbd'.read_pos = kbd.read_pos
    BY <1>4, HandlerRing
  <2>2. CASE c = NoChar \/ SlotAfter(kbd.write_pos) = kbd.read_pos
    <3>1. kbd'.write_pos = kbd.write_pos /\ kbd'.buffer = kbd.buffer
      BY <1>4, <2>2, HandlerRing
    <3> QED BY <2>1, <3>1
  <2>3. CASE ~(c = NoChar \/ SlotAfter(kbd.write_pos) = kbd.read_pos)
    <3>1. /\ c \in Chars
          /\ kbd'.write_pos = SlotAfter(kbd.write_pos)
          /\ kbd'.buffer = [kbd.buffer EXCEPT ![kbd.write_pos] = c]
      BY <1>4, <2>3, HandlerRing
    <3>2. ASSUME NEW s \in Slots, Queued(s)' PROVE kbd'.buffer[s] \in Chars
      <4>1. CASE s = kbd.write_pos
        BY <2>0, <3>1, <4>1
      <4>2. CASE s # kbd.write_pos
        <5>1. Queued(s)
          BY <2>0, <2>1, <2>3, <3>1, <3>2, <4>2, KeyboardSizes DEF SlotAfter, Slots
        <5> QED BY <2>0, <3>1, <4>2, <5>1
      <4> QED BY <4>1, <4>2
    <3> QED BY <3>2
  <2> QED BY <2>2, <2>3
<1>5. CASE pic_send_eoi
  BY <1>5 DEF pic_send_eoi
<1>6. CASE iret
  BY <1>6 DEF iret
<1>7. CASE pic_init
  BY <1>7 DEF pic_init
<1>8. CASE keyboard_init
  <2>1. kbd'.read_pos = 0 /\ kbd'.write_pos = 0
    BY <1>8 DEF keyboard_init, Reset, TypeInv, Kbds
  <2> QED BY <2>1 DEF Slots
<1>9. CASE kernel_main_sti
  BY <1>9 DEF kernel_main_sti
<1>10. CASE getchar_cli
  BY <1>10 DEF getchar_cli
<1>11. CASE getchar_take
  <2>1. /\ kbd'.read_pos = SlotAfter(kbd.read_pos)
        /\ kbd'.write_pos = kbd.write_pos /\ kbd'.buffer = kbd.buffer
        /\ kbd.read_pos # kbd.write_pos
    BY <1>11, TakeRing
  <2>2. kbd.read_pos \in Slots /\ kbd.write_pos \in Slots
    BY DEF TypeInv, Kbds
  <2>3. ASSUME NEW s \in Slots, Queued(s)' PROVE Queued(s)
    BY <2>1, <2>2, <2>3, KeyboardSizes DEF SlotAfter, Slots
  <2> QED BY <2>1, <2>3
<1>12. CASE getchar_take_sti \/ getchar_leave
  BY <1>12 DEF getchar_take_sti, getchar_leave
<1>13. CASE getchar_return
  BY <1>13 DEF getchar_return
<1>14. CASE getchar_empty_sti
  BY <1>14 DEF getchar_empty_sti
<1>15. CASE getchar_hlt
  BY <1>15 DEF getchar_hlt
<1>16. CASE UNCHANGED vars
  BY <1>16 DEF vars
<1> QED
  BY <1>1, <1>2, <1>3, <1>4, <1>5, <1>6, <1>7, <1>8, <1>9, <1>10, <1>11,
     <1>12, <1>13, <1>14, <1>15, <1>16 DEF Next, CpuStep

(* Every step keeps the local a character while it is in use: the slot it  *)
(* may still have to read is never written before keyboard_getchar ends.   *)
LEMMA HandPreserved == TypeInv /\ ControlInv /\ RingInv /\ HandInv /\ [Next]_vars => HandInv'
<1> SUFFICES ASSUME TypeInv, ControlInv, RingInv, HandInv, [Next]_vars PROVE HandInv'
  OBVIOUS
<1> USE DEF HandInv, InTake, InHandler, CharRead
<1>1. ASSUME NEW key \in Keys, PressKey(key) \/ ReleaseKey(key) PROVE HandInv'
  BY <1>1 DEF PressKey, ReleaseKey
<1>2. CASE DeviceRaise
  BY <1>2 DEF DeviceRaise
<1>3. CASE Interrupt
  <2>1. cpu.pc \in {"cli", "return", "halted"}
    BY <1>3 DEF Interrupt, Interruptible, Pcs, ControlInv, TypeInv, Cpus
  <2> QED BY <1>3, <2>1 DEF Interrupt
<1>4. CASE irq_handler
  <2> DEFINE c == CharOf(kbd, port.byte)
  <2>0. /\ kbd.read_pos \in Slots /\ kbd.write_pos \in Slots
        /\ kbd.buffer \in [Slots -> Chars \cup {NoChar}]
        /\ getc.slot \in Slots \cup {-1}
    BY DEF TypeInv, Kbds, Getcs
  <2>1. /\ kbd'.read_pos = kbd.read_pos /\ getc' = getc
        /\ cpu'.pc = "pic_send_eoi" /\ cpu.pc = "irq_handler" /\ cpu'.ret = cpu.ret
    BY <1>4, HandlerRing, HandlerKbd DEF irq_handler
  <2>2. InTake' = InTake /\ InTake \in BOOLEAN
    BY <2>1
  <2>3. getc.slot # -1 => kbd'.buffer[getc.slot] = kbd.buffer[getc.slot]
    <3>1. CASE c = NoChar \/ SlotAfter(kbd.write_pos) = kbd.read_pos
      BY <1>4, <3>1, HandlerRing
    <3>2. CASE ~(c = NoChar \/ SlotAfter(kbd.write_pos) = kbd.read_pos)
      <4>1. kbd'.buffer = [kbd.buffer EXCEPT ![kbd.write_pos] = c]
        BY <1>4, <3>2, HandlerRing
      <4>2. getc.slot # -1 => getc.slot # kbd.write_pos
        BY <3>2
      <4> QED BY <2>0, <4>1, <4>2
    <3> QED BY <3>1, <3>2
  <2> HIDE DEF InTake
  <2> QED BY <2>1, <2>2, <2>3
<1>5. CASE pic_send_eoi
  BY <1>5 DEF pic_send_eoi, Goto, TypeInv, Cpus
<1>6. CASE iret
  BY <1>6 DEF iret, ControlInv
<1>7. CASE pic_init
  BY <1>7 DEF pic_init, Goto, TypeInv, Cpus
<1>8. CASE keyboard_init
  <2>1. getc.slot = -1 /\ getc.c = NoChar /\ getc' = getc /\ cpu'.pc = "sti"
    BY <1>8 DEF keyboard_init, Goto, TypeInv, Cpus
  <2> QED BY <2>1
<1>9. CASE kernel_main_sti
  BY <1>9 DEF kernel_main_sti, Sti, TypeInv, Cpus
<1>10. CASE getchar_cli
  BY <1>10 DEF getchar_cli, TypeInv, Cpus
<1>11. CASE getchar_take
  <2>1. /\ kbd'.read_pos = SlotAfter(kbd.read_pos)
        /\ kbd'.write_pos = kbd.write_pos /\ kbd'.buffer = kbd.buffer
        /\ kbd.read_pos # kbd.write_pos
    BY <1>11, TakeRing
  <2>2. kbd.read_pos \in Slots /\ kbd.write_pos \in Slots
    BY DEF TypeInv, Kbds
  <2>3. kbd.buffer[kbd.read_pos] \in Chars /\ kbd.read_pos # -1
    BY <2>1, <2>2, KeyboardSizes DEF RingInv, Queued, Slots
  <2>4. cpu'.pc = "take_sti"
    BY <1>11 DEF getchar_take, Goto, TypeInv, Cpus
  <2>5. \/ getc' = [c |-> kbd.buffer[kbd.read_pos], slot |-> -1]
        \/ getc' = [c |-> NoChar, slot |-> kbd.read_pos]
    BY <1>11 DEF getchar_take
  <2> QED BY <2>1, <2>2, <2>3, <2>4, <2>5
<1>12. CASE getchar_take_sti \/ getchar_leave
  BY <1>12 DEF getchar_take_sti, getchar_leave, Sti, Goto, TypeInv, Cpus
<1>13. CASE getchar_return
  BY <1>13 DEF getchar_return, Goto, TypeInv, Cpus
<1>14. CASE getchar_empty_sti
  BY <1>14 DEF getchar_empty_sti, Sti, TypeInv, Cpus
<1>15. CASE getchar_hlt
  BY <1>15 DEF getchar_hlt, Goto, TypeInv, Cpus
<1>16. CASE UNCHANGED vars
  BY <1>16 DEF vars
<1> QED
  BY <1>1, <1>2, <1>3, <1>4, <1>5, <1>6, <1>7, <1>8, <1>9, <1>10, <1>11,
     <1>12, <1>13, <1>14, <1>15, <1>16 DEF Next, CpuStep

(***************************************************************************)
(* The invariant.                                                          *)
(***************************************************************************)
(* The start of kernel_main satisfies the invariant.                       *)
LEMMA KbdInitEstablishes == KeyboardInit => KbdInv
<1> SUFFICES ASSUME KeyboardInit PROVE KbdInv
  OBVIOUS
<1> USE DEF KeyboardInit
<1>0. 0 \in Slots
  BY KeyboardSizes DEF Slots
<1>1. Ext \in Bytes
  BY DEF Ext, Byte, Bytes
<1>2. user \in Users /\ dev \in Seq(Bytes) /\ port \in Ports /\ pic \in Pics
  BY <1>1 DEF Users, Ports, Pics
<1>3. cpu \in Cpus /\ getc \in Getcs
  BY DEF Cpus, Pcs, Getcs
<1>4. kbd \in Kbds
  BY <1>0 DEF Kbds
<1>5. TypeInv
  BY <1>2, <1>3, <1>4 DEF TypeInv
<1>6. ControlInv /\ LineInv /\ StartInv
  BY DEF ControlInv, InHandler, LineInv, StartInv
<1>7. HandInv
  BY DEF HandInv, InTake, InHandler
<1>8. RingInv
  BY DEF RingInv, Queued, Slots
<1> QED BY <1>5, <1>6, <1>7, <1>8 DEF KbdInv

(* The ring buffer, the interrupt line and keyboard_getchar stay together  *)
(* in the way KbdInv describes, wherever the interrupts come.              *)
THEOREM KeyboardInvariant == Spec => []KbdInv
<1>1. KeyboardInit => KbdInv
  BY KbdInitEstablishes
<1>2. KbdInv /\ [Next]_vars => KbdInv'
  BY TypePreserved, ControlPreserved, LinePreserved, StartPreserved,
     RingPreserved, HandPreserved DEF KbdInv
<1> QED BY <1>1, <1>2, PTL DEF Spec

(* The ring buffer's indices stay inside the buffer and the processor      *)
(* inside its code.                                                        *)
THEOREM KeyboardTypes == Spec => []KeyboardTypeOK
<1>1. KbdInv => KeyboardTypeOK
  BY DEF KbdInv, TypeInv, KeyboardTypeOK, Users, Pics, Cpus, Kbds, Getcs
<1> QED BY <1>1, KeyboardInvariant, PTL

(* No lost wake-up: keyboard_getchar never sleeps on a character.          *)
THEOREM KeyboardNoLostWakeup == Spec => []NoSleepWithInput
<1>1. KbdInv => NoSleepWithInput
  BY DEF KbdInv, ControlInv, NoSleepWithInput
<1> QED BY <1>1, KeyboardInvariant, PTL

(***************************************************************************)
(* The ring buffer is a queue.                                             *)
(***************************************************************************)
(* Contents, without the modulo.                                           *)
Length(k) == IF k.read_pos <= k.write_pos THEN k.write_pos - k.read_pos
             ELSE k.write_pos - k.read_pos + KBD_BUF_SIZE

SlotAt(k, i) == IF k.read_pos + i - 1 < KBD_BUF_SIZE THEN k.read_pos + i - 1
                ELSE k.read_pos + i - 1 - KBD_BUF_SIZE

ContentsShape ==
  /\ Length(kbd) \in Nat
  /\ \A i \in 1 .. Length(kbd) : SlotAt(kbd, i) \in Slots
  /\ Contents = [i \in 1 .. Length(kbd) |-> kbd.buffer[SlotAt(kbd, i)]]
  /\ Contents \in Seq(Chars)
  /\ Len(Contents) = Length(kbd)

(* Contents are the characters from read_pos up to write_pos.              *)
LEMMA ContentsIs == TypeInv /\ RingInv => ContentsShape
<1> SUFFICES ASSUME TypeInv, RingInv PROVE ContentsShape
  OBVIOUS
<1> DEFINE n == KBD_BUF_SIZE
           r == kbd.read_pos
           w == kbd.write_pos
<1>1. n \in Nat /\ n > 1 /\ r \in Nat /\ r < n /\ w \in Nat /\ w < n
  BY KeyboardSizes DEF TypeInv, Kbds, Slots
<1>2. Waiting = Length(kbd) /\ Length(kbd) \in Nat /\ Length(kbd) < n
  <2> DEFINE a == w - r + KBD_BUF_SIZE
  <2>1. a \in Nat /\ a < 2 * KBD_BUF_SIZE
    BY <1>1
  <2> HIDE DEF a
  <2>2. a % KBD_BUF_SIZE = IF a < KBD_BUF_SIZE THEN a ELSE a - KBD_BUF_SIZE
    BY <2>1, Wrap
  <2>3. Waiting = a % KBD_BUF_SIZE
    BY DEF Waiting, a
  <2> QED BY <1>1, <2>2, <2>3 DEF Length, a
<1>3. ASSUME NEW i \in 1 .. Length(kbd)
      PROVE  (r + i - 1) % n = SlotAt(kbd, i) /\ SlotAt(kbd, i) \in Slots
  <2> DEFINE a == r + i - 1
  <2>1. a \in Nat /\ a < 2 * KBD_BUF_SIZE
    BY <1>1, <1>2
  <2> HIDE DEF a
  <2>2. a % KBD_BUF_SIZE = IF a < KBD_BUF_SIZE THEN a ELSE a - KBD_BUF_SIZE
    BY <2>1, Wrap
  <2>3. SlotAt(kbd, i) = IF a < KBD_BUF_SIZE THEN a ELSE a - KBD_BUF_SIZE
    BY <1>1 DEF SlotAt, a
  <2>4. SlotAt(kbd, i) = a % KBD_BUF_SIZE /\ SlotAt(kbd, i) \in Slots
    BY <1>1, <2>1, <2>2, <2>3 DEF Slots
  <2> QED BY <2>4 DEF a
<1>4. Contents = [i \in 1 .. Length(kbd) |-> kbd.buffer[SlotAt(kbd, i)]]
  BY <1>2, <1>3 DEF Contents
<1>5. ASSUME NEW i \in 1 .. Length(kbd) PROVE kbd.buffer[SlotAt(kbd, i)] \in Chars
  <2>1. Queued(SlotAt(kbd, i))
    BY <1>1, <1>2 DEF Queued, SlotAt, Length
  <2> QED BY <1>3, <2>1 DEF RingInv
<1>6. Contents \in [1 .. Length(kbd) -> Chars]
  BY <1>4, <1>5
<1>7. Contents \in Seq(Chars) /\ Len(Contents) = Length(kbd)
  BY <1>2, <1>6
<1> QED BY <1>2, <1>3, <1>4, <1>7 DEF ContentsShape

(* A character the handler pushes goes to the end of the queue.            *)
LEMMA PushAppends ==
  ASSUME TypeInv, RingInv, TypeInv', RingInv', NEW c \in Chars,
         SlotAfter(kbd.write_pos) # kbd.read_pos,
         kbd'.read_pos = kbd.read_pos,
         kbd'.write_pos = SlotAfter(kbd.write_pos),
         kbd'.buffer = [kbd.buffer EXCEPT ![kbd.write_pos] = c]
  PROVE  Contents' = Append(Contents, c) /\ Len(Contents) < KBD_BUF_SIZE - 1
<1>1. /\ kbd.read_pos \in Slots /\ kbd.write_pos \in Slots
      /\ kbd.buffer \in [Slots -> Chars \cup {NoChar}]
      /\ KBD_BUF_SIZE \in Nat /\ KBD_BUF_SIZE > 1
  BY KeyboardSizes DEF TypeInv, Kbds
<1>2. /\ Length(kbd) \in Nat /\ Contents \in Seq(Chars) /\ Len(Contents) = Length(kbd)
      /\ Contents = [i \in 1 .. Length(kbd) |-> kbd.buffer[SlotAt(kbd, i)]]
      /\ \A i \in 1 .. Length(kbd) : SlotAt(kbd, i) \in Slots
  BY ContentsIs DEF ContentsShape
<1>3. /\ Contents' \in Seq(Chars) /\ Len(Contents') = Length(kbd)'
      /\ Contents' = [i \in 1 .. Length(kbd)' |-> kbd'.buffer[SlotAt(kbd', i)]]
  <2>1. ContentsShape'
    BY ContentsIs, PTL
  <2> QED BY <2>1 DEF ContentsShape
<1>4. Length(kbd)' = Length(kbd) + 1 /\ Length(kbd) < KBD_BUF_SIZE - 1
  BY <1>1, SMTT(20) DEF Length, SlotAfter, Slots
<1>5. ASSUME NEW i \in 1 .. Length(kbd) + 1
      PROVE  Contents'[i] = Append(Contents, c)[i]
  <2>1. SlotAt(kbd', i) = SlotAt(kbd, i)
    BY DEF SlotAt
  <2>2. CASE i = Length(kbd) + 1
    <3>1. SlotAt(kbd, i) = kbd.write_pos
      BY <1>1, <2>2, SMTT(20) DEF SlotAt, Length, Slots
    <3>2. Append(Contents, c)[i] = c
      BY <1>2, <2>2, AppendProperties
    <3> QED BY <1>1, <1>3, <1>4, <2>1, <3>1, <3>2
  <2>3. CASE i # Length(kbd) + 1
    <3>1. i \in 1 .. Length(kbd)
      BY <1>2, <2>3
    <3>2. SlotAt(kbd, i) # kbd.write_pos
      BY <1>1, <1>2, <3>1, SMTT(20) DEF SlotAt, Length, Slots
    <3>3. Append(Contents, c)[i] = kbd.buffer[SlotAt(kbd, i)]
      BY <1>2, <3>1, AppendProperties
    <3> QED BY <1>1, <1>2, <1>3, <1>4, <2>1, <3>1, <3>2, <3>3
  <2> QED BY <2>2, <2>3
<1>6. Append(Contents, c) \in Seq(Chars) /\ Len(Append(Contents, c)) = Length(kbd) + 1
  BY <1>2, AppendProperties
<1>7. Contents' = Append(Contents, c)
  <2>1. Len(Contents') = Len(Append(Contents, c))
    BY <1>3, <1>4, <1>6
  <2>2. \A i \in 1 .. Len(Contents') : Contents'[i] = Append(Contents, c)[i]
    BY <1>3, <1>4, <1>5
  <2> QED BY <1>3, <1>6, <2>1, <2>2, SeqEqual
<1> QED BY <1>2, <1>4, <1>7

(* keyboard_getchar takes the head of the queue.                           *)
LEMMA TakeTakesHead ==
  ASSUME TypeInv, RingInv, TypeInv', RingInv',
         kbd.read_pos # kbd.write_pos,
         kbd'.read_pos = SlotAfter(kbd.read_pos),
         kbd'.write_pos = kbd.write_pos, kbd'.buffer = kbd.buffer
  PROVE  /\ Contents # << >> /\ Head(Contents) = kbd.buffer[kbd.read_pos]
         /\ Contents' = Tail(Contents)
<1>1. /\ kbd.read_pos \in Slots /\ kbd.write_pos \in Slots
      /\ KBD_BUF_SIZE \in Nat /\ KBD_BUF_SIZE > 1
  BY KeyboardSizes DEF TypeInv, Kbds
<1>2. /\ Length(kbd) \in Nat /\ Contents \in Seq(Chars) /\ Len(Contents) = Length(kbd)
      /\ Contents = [i \in 1 .. Length(kbd) |-> kbd.buffer[SlotAt(kbd, i)]]
  BY ContentsIs DEF ContentsShape
<1>3. /\ Contents' \in Seq(Chars) /\ Len(Contents') = Length(kbd)'
      /\ Contents' = [i \in 1 .. Length(kbd)' |-> kbd'.buffer[SlotAt(kbd', i)]]
  <2>1. ContentsShape'
    BY ContentsIs, PTL
  <2> QED BY <2>1 DEF ContentsShape
<1>4. Length(kbd)' = Length(kbd) - 1 /\ Length(kbd) >= 1
  BY <1>1 DEF Length, SlotAfter, Slots
<1>5. Contents # << >>
  BY <1>2, <1>4
<1>6. Head(Contents) = kbd.buffer[kbd.read_pos]
  <2>1. SlotAt(kbd, 1) = kbd.read_pos
    BY <1>1 DEF SlotAt, Slots
  <2> QED BY <1>2, <1>4, <1>5, <2>1
<1>7. /\ Tail(Contents) \in Seq(Chars) /\ Len(Tail(Contents)) = Length(kbd) - 1
      /\ \A i \in 1 .. Length(kbd) - 1 : Tail(Contents)[i] = Contents[i + 1]
  BY <1>2, <1>5, HeadTailProperties
<1>8. ASSUME NEW i \in 1 .. Length(kbd) - 1 PROVE Contents'[i] = Tail(Contents)[i]
  <2>1. SlotAt(kbd', i) = SlotAt(kbd, i + 1)
    <3>1. i \in Nat /\ i >= 1 /\ i < KBD_BUF_SIZE
      BY <1>1, <1>2 DEF Length, Slots
    <3> QED BY <1>1, <3>1 DEF SlotAt, SlotAfter, Slots
  <2> QED BY <1>2, <1>3, <1>4, <1>7, <2>1
<1>9. Contents' = Tail(Contents)
  BY <1>3, <1>4, <1>7, <1>8, SeqEqual
<1> QED BY <1>5, <1>6, <1>9

(* Every step of the driver is a step of the queue or changes nothing of   *)
(* it: CharQueue is implemented, wherever the interrupts come.             *)
LEMMA QueueStep ==
  ASSUME KbdInv, KbdInv', Next
  PROVE  Queue!QNext \/ UNCHANGED Queue!qVars
<1> USE DEF Queue!qVars
<1>0. /\ TypeInv /\ ControlInv /\ RingInv /\ HandInv
      /\ TypeInv' /\ ControlInv' /\ RingInv' /\ HandInv'
  BY DEF KbdInv
<1>1. ASSUME kbd' = kbd, getc' = getc PROVE UNCHANGED Queue!qVars
  BY <1>1 DEF Contents, Waiting, InHand, CharRead
<1>2. ASSUME kbd' = kbd, getc' = getc PROVE Queue!QNext \/ UNCHANGED Queue!qVars
  BY <1>1, <1>2
<1>3. CASE irq_handler
  <2> DEFINE c == CharOf(kbd, port.byte)
  <2>0. /\ getc' = getc /\ getc.slot \in Slots \cup {-1} /\ kbd.write_pos \in Slots
        /\ kbd.buffer \in [Slots -> Chars \cup {NoChar}]
    BY <1>0, <1>3 DEF irq_handler, TypeInv, Getcs, Kbds
  <2>1. CASE c = NoChar \/ SlotAfter(kbd.write_pos) = kbd.read_pos
    <3>1. /\ kbd'.read_pos = kbd.read_pos /\ kbd'.write_pos = kbd.write_pos
          /\ kbd'.buffer = kbd.buffer
      BY <1>0, <1>3, <2>1, HandlerRing
    <3>2. UNCHANGED <<Contents, InHand>>
      BY <2>0, <3>1 DEF Contents, Waiting, InHand, CharRead
    <3> QED BY <3>2
  <2>2. CASE ~(c = NoChar \/ SlotAfter(kbd.write_pos) = kbd.read_pos)
    <3>1. /\ c \in Chars
          /\ kbd'.read_pos = kbd.read_pos
          /\ kbd'.write_pos = SlotAfter(kbd.write_pos)
          /\ kbd'.buffer = [kbd.buffer EXCEPT ![kbd.write_pos] = c]
      BY <1>0, <1>3, <2>2, HandlerRing
    <3>2. Contents' = Append(Contents, c) /\ Len(Contents) < KBD_BUF_SIZE - 1
      BY <1>0, <2>2, <3>1, PushAppends
    <3>3. getc.slot # -1 => getc.slot # kbd.write_pos
      BY <1>0, <2>2 DEF HandInv
    <3>4. InHand' = InHand
      BY <2>0, <3>1, <3>3 DEF InHand, CharRead
    <3>5. Queue!Put(c)
      BY <3>2, <3>4 DEF Queue!Put
    <3> QED BY <3>1, <3>5 DEF Queue!QNext
  <2> QED BY <2>1, <2>2
<1>4. CASE keyboard_init
  <2>1. /\ kbd.read_pos = 0 /\ kbd.write_pos = 0 /\ getc' = getc
        /\ kbd'.read_pos = 0 /\ kbd'.write_pos = 0 /\ kbd'.buffer = kbd.buffer
    BY <1>0, <1>4 DEF keyboard_init, Reset, KbdInv, StartInv, TypeInv, Kbds
  <2>2. UNCHANGED <<Contents, InHand>>
    BY <2>1 DEF Contents, Waiting, InHand, CharRead
  <2> QED BY <2>2
<1>5. CASE getchar_take
  <2>1. /\ kbd'.read_pos = SlotAfter(kbd.read_pos)
        /\ kbd'.write_pos = kbd.write_pos /\ kbd'.buffer = kbd.buffer
        /\ kbd.read_pos # kbd.write_pos
    BY <1>0, <1>5, TakeRing
  <2>2. /\ Contents # << >> /\ Head(Contents) = kbd.buffer[kbd.read_pos]
        /\ Contents' = Tail(Contents)
    BY <1>0, <2>1, TakeTakesHead
  <2>3. /\ kbd.read_pos \in Slots /\ kbd.read_pos # -1
        /\ kbd.buffer[kbd.read_pos] \in Chars
    BY <1>0, <2>1, KeyboardSizes DEF RingInv, Queued, Slots, TypeInv, Kbds
  <2>4. getc.c = NoChar /\ getc.slot = -1
    BY <1>0, <1>5 DEF getchar_take, HandInv, InTake, InHandler
  <2>5. InHand = << >>
    BY <2>4 DEF InHand
  <2>6. \/ getc' = [c |-> kbd.buffer[kbd.read_pos], slot |-> -1]
        \/ getc' = [c |-> NoChar, slot |-> kbd.read_pos]
    BY <1>5 DEF getchar_take
  <2>7. InHand' = <<kbd.buffer[kbd.read_pos]>>
    BY <2>1, <2>3, <2>6 DEF InHand, CharRead, Chars, NoChar
  <2>8. Queue!Take
    BY <2>2, <2>5, <2>7 DEF Queue!Take
  <2> QED BY <2>8 DEF Queue!QNext
<1>6. CASE getchar_return
  <2>1. CharRead \in Chars /\ (getc.slot = -1 \/ getc.c = NoChar)
    BY <1>0, <1>6 DEF getchar_return, HandInv, InTake
  <2>2. InHand = <<CharRead>>
    BY <2>1 DEF InHand, CharRead, Chars, NoChar
  <2>3. InHand' = << >>
    BY <1>6 DEF getchar_return, InHand
  <2>4. Contents' = Contents
    BY <1>6 DEF getchar_return, Contents, Waiting
  <2>5. Queue!Deliver(CharRead)
    BY <2>2, <2>3, <2>4 DEF Queue!Deliver
  <2> QED BY <2>1, <2>5 DEF Queue!QNext
<1> HIDE DEF Queue!qVars
<1>7. CASE \E key \in Keys : PressKey(key) \/ ReleaseKey(key)
  BY <1>2, <1>7 DEF PressKey, ReleaseKey
<1>8. CASE \/ DeviceRaise \/ Interrupt \/ pic_send_eoi \/ iret \/ pic_init
           \/ kernel_main_sti \/ getchar_cli \/ getchar_take_sti \/ getchar_leave
           \/ getchar_empty_sti \/ getchar_hlt
  BY <1>2, <1>8 DEF DeviceRaise, Interrupt, pic_send_eoi, iret, pic_init,
     kernel_main_sti, getchar_cli, getchar_take_sti, getchar_leave, getchar_empty_sti, getchar_hlt
<1> QED
  BY <1>3, <1>4, <1>5, <1>6, <1>7, <1>8 DEF Next, CpuStep

(* The ring buffer, filled by the handler between any two instructions of  *)
(* keyboard_getchar, is the queue the shell relies on: for every buffer    *)
(* size no accepted character is lost, doubled, reordered or overwritten.  *)
THEOREM KeyboardIsQueue == Spec => ImplementsCharQueue
<1>1. KeyboardInit => Queue!QInit
  <2> SUFFICES ASSUME KeyboardInit PROVE Contents = << >> /\ InHand = << >>
    BY DEF Queue!QInit
  <2>1. InHand = << >>
    BY DEF KeyboardInit, InHand
  <2>2. TypeInv /\ RingInv
    BY KbdInitEstablishes DEF KbdInv
  <2>3. Contents \in Seq(Chars) /\ Len(Contents) = Length(kbd)
    BY <2>2, ContentsIs DEF ContentsShape
  <2>4. Length(kbd) = 0
    BY DEF KeyboardInit, Length
  <2> QED BY <2>1, <2>3, <2>4, EmptySeq
<1>2. KbdInv /\ KbdInv' /\ [Next]_vars => [Queue!QNext]_(Queue!qVars)
  <2> SUFFICES ASSUME KbdInv, KbdInv', [Next]_vars
               PROVE  Queue!QNext \/ UNCHANGED Queue!qVars
    OBVIOUS
  <2>1. CASE UNCHANGED vars
    BY <2>1 DEF vars, Queue!qVars, Contents, Waiting, InHand, CharRead
  <2> QED BY <2>1, QueueStep
<1> QED BY <1>1, <1>2, KeyboardInvariant, PTL DEF Spec, ImplementsCharQueue, Queue!QSpec

(***************************************************************************)
(* Decoding.  The bytes on their way from the keys to the handler take its *)
(* modifiers, byte by byte, to those of the user, and each byte that means *)
(* a character is met by the modifiers it was typed with.                  *)
(***************************************************************************)
Pending == IF port.full THEN <<port.byte>> \o dev ELSE dev

UserMods == [left_shift |-> "lshift" \in user.down, right_shift |-> "rshift" \in user.down,
             caps_lock |-> user.caps, extended |-> FALSE]

(* Byte b leads from modifiers m to n and stands for what the user meant.  *)
Reads(m, b, n) == n = AfterByte(m, b) /\ b.want = CharOf(m, b)

Decodes(m, bytes, n) ==
  \E s \in [0 .. Len(bytes) -> Mods] :
    /\ s[0] = m /\ s[Len(bytes)] = n
    /\ \A i \in 1 .. Len(bytes) : Reads(s[i - 1], bytes[i], s[i])

DecodeInv == Decodes(ModsOf(kbd), Pending, UserMods)

(* A keyboard without shift codes around extended keys, whose Caps Lock    *)
(* does not repeat while it is held.                                       *)
PlainKeyboard == FakeShifts = FALSE /\ "caps" \notin Repeating

(* A byte takes modifiers to modifiers.                                    *)
LEMMA ModsType ==
  /\ \A m \in Mods, b \in Bytes : AfterByte(m, b) \in Mods
  /\ \A k \in Kbds : ModsOf(k) \in Mods
<1>1. ASSUME NEW m \in Mods, NEW b \in Bytes PROVE AfterByte(m, b) \in Mods
  <2>1. m.left_shift \in BOOLEAN /\ m.right_shift \in BOOLEAN /\ m.extended \in BOOLEAN
        /\ m.caps_lock \in BOOLEAN
    BY DEF Mods
  <2>2. CASE b.code = "ext"
    BY <2>2 DEF AfterByte, Mods
  <2>3. CASE b.code # "ext"
    BY <2>1, <2>3 DEF AfterByte, Mods, Bytes
  <2> QED BY <2>2, <2>3
<1>2. ASSUME NEW k \in Kbds PROVE ModsOf(k) \in Mods
  BY DEF Kbds, ModsOf, Mods
<1> QED BY <1>1, <1>2

(* Nothing on its way: the modifiers agree.                                *)
LEMMA DecodesNone ==
  ASSUME NEW m \in Mods
  PROVE  Decodes(m, << >>, m)
<1> DEFINE s == [i \in 0 .. 0 |-> m]
<1>1. s \in [0 .. Len(<< >>) -> Mods] /\ s[0] = m /\ s[Len(<< >>)] = m
  OBVIOUS
<1>2. \A i \in 1 .. Len(<< >>) : Reads(s[i - 1], << >>[i], s[i])
  OBVIOUS
<1> HIDE DEF s
<1> QED BY <1>1, <1>2 DEF Decodes

(* A byte joins the end.                                                   *)
LEMMA DecodesAppend ==
  ASSUME NEW bytes \in Seq(Bytes), NEW b \in Bytes, NEW m, NEW n, NEW o \in Mods,
         Decodes(m, bytes, n), Reads(n, b, o)
  PROVE  Decodes(m, Append(bytes, b), o)
<1> DEFINE l == Len(bytes)
           t == Append(bytes, b)
<1>1. PICK s \in [0 .. l -> Mods] :
        /\ s[0] = m /\ s[l] = n
        /\ \A i \in 1 .. l : Reads(s[i - 1], bytes[i], s[i])
  BY DEF Decodes
<1>2. /\ l \in Nat /\ Len(t) = l + 1 /\ t[l + 1] = b
      /\ \A i \in 1 .. l : t[i] = bytes[i]
  BY AppendProperties
<1> DEFINE u == [i \in 0 .. l + 1 |-> IF i = l + 1 THEN o ELSE s[i]]
<1> HIDE DEF l, t
<1>3. u \in [0 .. Len(t) -> Mods] /\ u[0] = m /\ u[Len(t)] = o
  BY <1>1, <1>2
<1>4. ASSUME NEW i \in 1 .. Len(t) PROVE Reads(u[i - 1], t[i], u[i])
  <2>1. CASE i = l + 1
    <3>1. u[i - 1] = n /\ u[i] = o /\ t[i] = b
      BY <1>1, <1>2, <2>1
    <3> QED BY <3>1
  <2>2. CASE i # l + 1
    <3>1. i \in 1 .. l /\ u[i - 1] = s[i - 1] /\ u[i] = s[i] /\ t[i] = bytes[i]
      BY <1>2, <2>2
    <3> QED BY <1>1, <3>1
  <2> QED BY <2>1, <2>2
<1> HIDE DEF u
<1>5. Decodes(m, t, o)
  BY <1>3, <1>4 DEF Decodes
<1> QED BY <1>5 DEF t

(* The first byte is the one the handler meets.                            *)
LEMMA DecodesHead ==
  ASSUME NEW bytes \in Seq(Bytes), NEW b \in Bytes, NEW m, NEW n,
         Decodes(m, <<b>> \o bytes, n)
  PROVE  Decodes(AfterByte(m, b), bytes, n) /\ b.want = CharOf(m, b)
<1> DEFINE l == Len(bytes)
           t == <<b>> \o bytes
<1>2. /\ l \in Nat /\ Len(t) = l + 1 /\ t[1] = b
      /\ \A i \in 1 .. l : t[i + 1] = bytes[i]
  <2>1. <<b>> \in Seq(Bytes) /\ Len(<<b>>) = 1 /\ <<b>>[1] = b
    OBVIOUS
  <2>2. l \in Nat
    OBVIOUS
  <2>3. /\ Len(t) = 1 + l
        /\ \A i \in 1 .. 1 + l : t[i] = IF i <= 1 THEN <<b>>[i] ELSE bytes[i - 1]
    BY <2>1, ConcatProperties
  <2> HIDE DEF l, t
  <2>4. ASSUME NEW i \in 1 .. l PROVE t[i + 1] = bytes[i]
    <3>1. i + 1 \in 1 .. 1 + l /\ ~(i + 1 <= 1) /\ (i + 1) - 1 = i
      BY <2>2
    <3> QED BY <2>3, <3>1
  <2>5. t[1] = b
    BY <2>1, <2>2, <2>3
  <2> QED BY <2>2, <2>3, <2>4, <2>5
<1>1. PICK s \in [0 .. Len(t) -> Mods] :
        /\ s[0] = m /\ s[Len(t)] = n
        /\ \A i \in 1 .. Len(t) : Reads(s[i - 1], t[i], s[i])
  BY DEF Decodes
<1> HIDE DEF l, t
<1> DEFINE u == [i \in 0 .. l |-> s[i + 1]]
<1>3. u \in [0 .. l -> Mods] /\ u[0] = s[1] /\ u[l] = n
  BY <1>1, <1>2
<1>4. ASSUME NEW i \in 1 .. l PROVE Reads(u[i - 1], bytes[i], u[i])
  <2>1. i + 1 \in 1 .. Len(t) /\ (i + 1) - 1 = i /\ u[i - 1] = s[i] /\ u[i] = s[i + 1]
    BY <1>2
  <2>2. Reads(s[(i + 1) - 1], t[i + 1], s[i + 1])
    BY <1>1, <2>1
  <2> QED BY <1>2, <2>1, <2>2
<1>5. Reads(m, b, s[1])
  <2>1. 1 \in 1 .. Len(t) /\ 1 - 1 = 0
    BY <1>2
  <2>2. Reads(s[1 - 1], t[1], s[1])
    BY <1>1, <2>1
  <2> QED BY <1>1, <1>2, <2>1, <2>2
<1> HIDE DEF u
<1>6. Decodes(s[1], bytes, n)
  BY <1>3, <1>4 DEF Decodes, l
<1> QED BY <1>5, <1>6 DEF Reads

(* A byte from the keys joins the bytes on their way.                      *)
LEMMA PendingGrows ==
  ASSUME TypeInv, port' = port, NEW b \in Bytes
  PROVE  /\ Pending \in Seq(Bytes)
         /\ dev' = dev \o <<b>> => Pending' = Append(Pending, b)
         /\ \A c \in Bytes :
              dev' = dev \o <<b, c>> => Pending' = Append(Append(Pending, b), c)
<1>1. dev \in Seq(Bytes) /\ port.byte \in Bytes
  BY DEF TypeInv, Ports
<1> DEFINE d == dev
           p == <<port.byte>>
<1>2. d \in Seq(Bytes) /\ p \in Seq(Bytes) /\ p \o d \in Seq(Bytes)
  BY <1>1, ConcatProperties
<1>3. \A x, y \in Seq(Bytes) : x \o Append(y, b) = Append(x \o y, b)
  OBVIOUS
<1>4. \A y \in Seq(Bytes) : y \o <<b>> = Append(y, b)
  OBVIOUS
<1>5. ASSUME NEW c \in Bytes
      PROVE  /\ \A y \in Seq(Bytes) : y \o <<b, c>> = Append(Append(y, b), c)
             /\ \A x, y \in Seq(Bytes) :
                  x \o Append(Append(y, b), c) = Append(Append(x \o y, b), c)
  <2>1. ASSUME NEW y \in Seq(Bytes) PROVE y \o <<b, c>> = Append(Append(y, b), c)
    OBVIOUS
  <2>2. ASSUME NEW x \in Seq(Bytes), NEW y \in Seq(Bytes)
        PROVE  x \o Append(Append(y, b), c) = Append(Append(x \o y, b), c)
    <3>1. \A z \in Seq(Bytes) : x \o Append(z, c) = Append(x \o z, c)
      OBVIOUS
    <3>2. Append(y, b) \in Seq(Bytes)
      OBVIOUS
    <3> QED BY <1>3, <3>1, <3>2
  <2> QED BY <2>1, <2>2
<1>6. Pending = (IF port.full THEN p \o d ELSE d)
      /\ Pending' = (IF port.full THEN p \o dev' ELSE dev')
  BY DEF Pending
<1> HIDE DEF p
<1> QED BY <1>2, <1>3, <1>4, <1>5, <1>6, SMTT(20)

(* A key sends what its modifiers make it mean, and changes the user's     *)
(* modifiers as its bytes change the driver's.                             *)
LEMMA KeyDecodes ==
  ASSUME TypeInv, TypeInv', PlainKeyboard, DecodeInv, NEW key \in Keys,
         PressKey(key) \/ ReleaseKey(key)
  PROVE  DecodeInv'
<1> DEFINE m == ModsOf(kbd)
           n == UserMods
           o == UserMods'
<1>1. port' = port /\ kbd' = kbd /\ ModsOf(kbd)' = m
  BY DEF PressKey, ReleaseKey
<1>2. user \in Users /\ n \in Mods
  BY DEF TypeInv, Users, UserMods, Mods
<1>3. user' \in Users /\ o \in Mods
  BY DEF TypeInv, UserMods, Users, Mods
<1>4. Decodes(m, Pending, n)
  BY DEF DecodeInv
<1>5. PICK up \in BOOLEAN : /\ dev' = dev \o Codes(key, up)
                            /\ IF up THEN ReleaseKey(key) ELSE PressKey(key)
  BY DEF PressKey, ReleaseKey
<1>6. CASE key # "kp_slash"
  <2> DEFINE b == Byte(key, up, IF up THEN NoChar ELSE Meant(key))
  <2>1. Codes(key, up) = <<b>>
    BY <1>6 DEF Codes
  <2>2. b \in Bytes
    <3>1. Meant(key) \in Chars \cup {NoChar}
      BY DEF Meant, Ascii, is_letter_scancode, Chars, NoChar
    <3> QED BY <3>1 DEF Byte, Bytes
  <2>3. key # "ext"
    BY KeyboardSizes
  <2>4. b.code = key /\ b.brk = up /\ b.want = IF up THEN NoChar ELSE Meant(key)
    BY DEF Byte
  <2>5. b.want = CharOf(n, b)
    <3>1. CASE up
      BY <2>4, <3>1 DEF CharOf
    <3>2. CASE ~up
      <4>1. CharOf(n, b) = scancode_to_ascii(n, key)
        BY <2>3, <2>4, <3>2 DEF CharOf, UserMods
      <4>2. (n.left_shift \/ n.right_shift) = Shifted /\ n.caps_lock = user.caps
        BY DEF UserMods, Shifted
      <4>3. scancode_to_ascii(n, key) = Meant(key)
        BY <4>2 DEF scancode_to_ascii, Meant
      <4> QED BY <2>4, <3>2, <4>1, <4>3
    <3> QED BY <3>1, <3>2
  <2>6. o = AfterByte(n, b)
    <3> DEFINE ls == IF key # "lshift" THEN "lshift" \in user.down ELSE ~up
               rs == IF key # "rshift" THEN "rshift" \in user.down ELSE ~up
               cl == user.caps # (key = "caps" /\ ~up)
    <3>1. AfterByte(n, b) = [left_shift |-> ls, right_shift |-> rs, caps_lock |-> cl,
                             extended |-> FALSE]
      <4>1. /\ n.left_shift = ("lshift" \in user.down) /\ n.extended = FALSE
            /\ n.right_shift = ("rshift" \in user.down) /\ n.caps_lock = user.caps
        BY DEF UserMods
      <4>2. /\ ls = IF b.code # "lshift" THEN n.left_shift
                    ELSE ~b.brk /\ (n.left_shift \/ ~n.extended)
            /\ rs = IF b.code # "rshift" THEN n.right_shift
                    ELSE ~b.brk /\ (n.right_shift \/ ~n.extended)
            /\ cl = (n.caps_lock # (b.code = "caps" /\ ~b.brk /\ ~n.extended))
        BY <2>4, <4>1
      <4> HIDE DEF ls, rs, cl, n, b
      <4> QED BY <2>3, <2>4, <4>2 DEF AfterByte
    <3>2. ("lshift" \in user'.down) = ls /\ ("rshift" \in user'.down) = rs
          /\ user'.caps = cl
      <4>1. CASE up
        <5>1. user'.down = user.down \ {key} /\ user'.caps = user.caps
          BY <1>2, <1>5, <4>1 DEF ReleaseKey, Users
        <5> QED BY <1>2, <4>1, <5>1 DEF Users
      <4>2. CASE ~up
        <5>1. key = "caps" => key \notin user.down
          BY <1>5, <4>2 DEF PressKey, PlainKeyboard
        <5>2. /\ user'.down = user.down \cup {key}
              /\ user'.caps = (user.caps # (key = "caps" /\ key \notin user.down))
          BY <1>2, <1>5, <4>2 DEF PressKey, Users
        <5> QED BY <1>2, <4>2, <5>1, <5>2 DEF Users
      <4> QED BY <4>1, <4>2
    <3> HIDE DEF ls, rs, cl
    <3> QED BY <3>1, <3>2 DEF UserMods
  <2> HIDE DEF b, m, n, o
  <2>7. Pending \in Seq(Bytes) /\ Pending' = Append(Pending, b)
    BY <1>1, <1>5, <2>1, <2>2, PendingGrows
  <2>8. Decodes(m, Append(Pending, b), o)
    BY <1>3, <1>4, <2>2, <2>5, <2>6, <2>7, DecodesAppend DEF Reads
  <2> QED BY <1>1, <2>7, <2>8 DEF DecodeInv, o
<1>7. CASE key = "kp_slash"
  <2> DEFINE b == Byte("slash", up, NoChar)
             e == [n EXCEPT !.extended = TRUE]
  <2>1. Codes(key, up) = <<Ext, b>>
    BY <1>7 DEF Codes, PlainKeyboard
  <2>2. Ext \in Bytes /\ b \in Bytes /\ e \in Mods
    BY <1>2 DEF Ext, Byte, Bytes, Mods
  <2>3. Reads(n, Ext, e)
    BY DEF Reads, AfterByte, CharOf, Ext, Byte
  <2>4. o = n
    <3>1. /\ ("lshift" \in user'.down) = ("lshift" \in user.down)
          /\ ("rshift" \in user'.down) = ("rshift" \in user.down)
          /\ user'.caps = user.caps
      <4>1. CASE up
        <5>1. user'.down = user.down \ {key} /\ user'.caps = user.caps
          BY <1>2, <1>5, <4>1 DEF ReleaseKey, Users
        <5> QED BY <1>2, <1>7, <5>1 DEF Users
      <4>2. CASE ~up
        <5>1. /\ user'.down = user.down \cup {key}
              /\ user'.caps = (user.caps # (key = "caps" /\ key \notin user.down))
          BY <1>2, <1>5, <4>2 DEF PressKey, Users
        <5> QED BY <1>2, <1>7, <5>1 DEF Users
      <4> QED BY <4>1, <4>2
    <3> QED BY <3>1 DEF UserMods
  <2>5. Reads(e, b, n)
    <3>1. b.want = CharOf(e, b)
      BY <1>2 DEF CharOf, Byte, Mods
    <3>2. n = AfterByte(e, b)
      BY <1>2 DEF AfterByte, Byte, Mods, UserMods, Users
    <3> QED BY <3>1, <3>2 DEF Reads
  <2> HIDE DEF b, e, m, n, o
  <2>6. Pending \in Seq(Bytes) /\ Pending' = Append(Append(Pending, Ext), b)
    BY <1>1, <1>5, <2>1, <2>2, PendingGrows
  <2>7. Decodes(m, Append(Pending, Ext), e)
    BY <1>4, <2>2, <2>3, <2>6, DecodesAppend
  <2>8. Append(Pending, Ext) \in Seq(Bytes)
    BY <2>2, <2>6
  <2>9. Decodes(m, Append(Append(Pending, Ext), b), n)
    BY <1>2, <2>2, <2>5, <2>7, <2>8, DecodesAppend
  <2> QED BY <1>1, <2>4, <2>6, <2>9 DEF DecodeInv, o
<1> QED BY <1>6, <1>7

(* What the handler makes of the byte in the port is what the user meant,  *)
(* and the rest of the bytes is still decoded.                             *)
LEMMA HandlerDecodes ==
  ASSUME TypeInv, ControlInv, LineInv, DecodeInv, irq_handler
  PROVE  DecodeInv' /\ port.byte.want = CharOf(kbd, port.byte)
<1> DEFINE b == port.byte
<1>1. /\ kbd' = keyboard_irq_handler(kbd, b) /\ b \in Bytes /\ kbd \in Kbds
      /\ ~port'.full
  BY HandlerKbd
<1>2. port.full /\ dev' = dev /\ user' = user /\ dev \in Seq(Bytes)
  BY DEF irq_handler, LineInv, TypeInv
<1>3. Pending = <<b>> \o dev /\ Pending' = dev
  BY <1>1, <1>2 DEF Pending
<1>4. UserMods' = UserMods
  BY <1>2 DEF UserMods
<1>5. ModsOf(kbd)' = AfterByte(ModsOf(kbd), b)
  <2>1. ModsOf(keyboard_irq_handler(kbd, b)) = AfterByte(ModsOf(kbd), b)
    BY <1>1, HandlerResult
  <2>2. ModsOf(kbd)' = ModsOf(keyboard_irq_handler(kbd, b))
    BY <1>1 DEF ModsOf
  <2> QED BY <2>1, <2>2
<1>6. /\ Decodes(AfterByte(ModsOf(kbd), b), dev, UserMods)
      /\ b.want = CharOf(ModsOf(kbd), b)
  BY <1>1, <1>2, <1>3, DecodesHead DEF DecodeInv
<1>7. CharOf(ModsOf(kbd), b) = CharOf(kbd, b)
  BY DEF CharOf, ModsOf, scancode_to_ascii
<1> QED BY <1>3, <1>4, <1>5, <1>6, <1>7 DEF DecodeInv

(* Every step keeps the bytes on their way decodable.                      *)
LEMMA DecodePreserved ==
  ASSUME PlainKeyboard
  PROVE  KbdInv /\ DecodeInv /\ [Next]_vars => DecodeInv'
<1> SUFFICES ASSUME KbdInv, DecodeInv, [Next]_vars PROVE DecodeInv'
  OBVIOUS
<1>0. TypeInv /\ ControlInv /\ LineInv /\ StartInv
  BY DEF KbdInv
<1>1. ASSUME ModsOf(kbd)' = ModsOf(kbd), port' = port, dev' = dev, user' = user
      PROVE  DecodeInv'
  BY <1>1 DEF DecodeInv, Pending, UserMods
<1>2. CASE \E key \in Keys : PressKey(key) \/ ReleaseKey(key)
  BY <1>0, <1>2, TypePreserved, KeyDecodes
<1>3. CASE DeviceRaise
  <2>1. /\ dev \in Seq(Bytes) /\ dev # << >> /\ ~port.full
        /\ port'.full /\ port'.byte = Head(dev) /\ dev' = Tail(dev)
        /\ kbd' = kbd /\ user' = user
    BY <1>0, <1>3 DEF DeviceRaise, TypeInv
  <2>2. <<Head(dev)>> \o Tail(dev) = dev
    BY <2>1
  <2>3. Pending' = Pending
    BY <2>1, <2>2 DEF Pending
  <2> QED BY <2>1, <2>3 DEF DecodeInv, UserMods, ModsOf
<1>4. CASE irq_handler
  BY <1>0, <1>4, HandlerDecodes
<1>5. CASE keyboard_init
  <2>1. ModsOf(kbd)' = ModsOf(kbd)
    BY <1>0, <1>5 DEF keyboard_init, Reset, StartInv, TypeInv, Kbds, ModsOf
  <2> QED BY <1>1, <1>5, <2>1 DEF keyboard_init
<1>6. CASE getchar_take
  <2>1. ModsOf(kbd)' = ModsOf(kbd)
    BY <1>0, <1>6 DEF getchar_take, TypeInv, Kbds, ModsOf
  <2> QED BY <1>1, <1>6, <2>1 DEF getchar_take
<1>7. CASE \/ Interrupt \/ pic_send_eoi \/ iret \/ pic_init
           \/ kernel_main_sti \/ getchar_cli \/ getchar_take_sti \/ getchar_leave
           \/ getchar_return \/ getchar_empty_sti \/ getchar_hlt
  <2>1. kbd' = kbd /\ port' = port /\ dev' = dev /\ user' = user
    BY <1>7 DEF Interrupt, pic_send_eoi, iret, pic_init, kernel_main_sti, getchar_cli,
       getchar_take_sti, getchar_leave, getchar_return, getchar_empty_sti, getchar_hlt
  <2> QED BY <1>1, <2>1
<1>8. CASE UNCHANGED vars
  BY <1>1, <1>8 DEF vars
<1> QED
  BY <1>2, <1>3, <1>4, <1>5, <1>6, <1>7, <1>8 DEF Next, CpuStep

(* On a keyboard without fake shifts whose Caps Lock does not repeat, the  *)
(* handler appends exactly the character the user meant when the key went  *)
(* down, however many bytes were queued in between.                        *)
THEOREM KeyboardDecodes ==
  ASSUME PlainKeyboard
  PROVE  Spec => DecodesWhatWasTyped
<1>1. KeyboardInit => DecodeInv
  <2> SUFFICES ASSUME KeyboardInit PROVE DecodeInv
    OBVIOUS
  <2>1. Pending = << >> /\ UserMods \in Mods
    BY DEF KeyboardInit, Pending, UserMods, Mods
  <2>2. ModsOf(kbd) = UserMods
    <3>1. /\ kbd.left_shift = FALSE /\ kbd.right_shift = FALSE
          /\ kbd.caps_lock = FALSE /\ kbd.extended = FALSE
      BY DEF KeyboardInit
    <3>2. /\ ("lshift" \in user.down) = FALSE /\ ("rshift" \in user.down) = FALSE
          /\ user.caps = FALSE
      BY DEF KeyboardInit
    <3> QED BY <3>1, <3>2 DEF ModsOf, UserMods
  <2> QED BY <2>1, <2>2, DecodesNone DEF DecodeInv
<1>2. KbdInv /\ DecodeInv /\ [Next]_vars =>
        [cpu.pc = "irq_handler" /\ cpu'.pc = "pic_send_eoi" =>
           LET want == port.byte.want
               full == (kbd.write_pos + 1) % KBD_BUF_SIZE = kbd.read_pos
           IN  IF want = NoChar \/ full
               THEN kbd'.write_pos = kbd.write_pos
               ELSE /\ kbd'.write_pos = (kbd.write_pos + 1) % KBD_BUF_SIZE
                    /\ kbd'.buffer[kbd.write_pos] = want]_vars
  <2> DEFINE next == (kbd.write_pos + 1) % KBD_BUF_SIZE
             want == port.byte.want
  <2> SUFFICES ASSUME KbdInv, DecodeInv, [Next]_vars, ~UNCHANGED vars,
                      cpu.pc = "irq_handler", cpu'.pc = "pic_send_eoi"
               PROVE  IF want = NoChar \/ next = kbd.read_pos
                      THEN kbd'.write_pos = kbd.write_pos
                      ELSE kbd'.write_pos = next /\ kbd'.buffer[kbd.write_pos] = want
    OBVIOUS
  <2>1. irq_handler
    <3>1. CASE Interrupt
      BY <3>1 DEF Interrupt
    <3>2. CASE DeviceRaise \/ \E key \in Keys : PressKey(key) \/ ReleaseKey(key)
      BY <3>2 DEF DeviceRaise, PressKey, ReleaseKey
    <3>3. CASE CpuStep
      BY <3>3 DEF CpuStep, pic_send_eoi, iret, pic_init, keyboard_init,
         kernel_main_sti, getchar_cli, getchar_take, getchar_take_sti,
         getchar_leave, getchar_return, getchar_empty_sti, getchar_hlt
    <3> QED BY <3>1, <3>2, <3>3 DEF Next
  <2>2. want = CharOf(kbd, port.byte)
    BY <2>1, HandlerDecodes DEF KbdInv
  <2>3. /\ kbd' = keyboard_irq_handler(kbd, port.byte)
        /\ port.byte \in Bytes /\ kbd \in Kbds
    BY <2>1, HandlerKbd DEF KbdInv
  <2>4. kbd.write_pos \in Slots /\ kbd.buffer \in [Slots -> Chars \cup {NoChar}]
    BY <2>3 DEF Kbds
  <2> HIDE DEF next, want
  <2>5. IF want = NoChar \/ next = kbd.read_pos
        THEN kbd'.write_pos = kbd.write_pos
        ELSE kbd'.write_pos = next /\ kbd'.buffer = [kbd.buffer EXCEPT ![kbd.write_pos] = want]
    BY <2>2, <2>3, HandlerResult DEF next
  <2> QED BY <2>4, <2>5
<1> QED
  BY <1>1, <1>2, DecodePreserved, KeyboardInvariant, PTL DEF Spec, DecodesWhatWasTyped

=============================================================================
