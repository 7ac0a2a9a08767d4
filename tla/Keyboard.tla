------------------------------ MODULE Keyboard ------------------------------
(***************************************************************************)
(* The keyboard path: a user at the keys, the PS/2 controller, the 8259    *)
(* interrupt controller (pic.c), the interrupt entry and exit (irq.c,      *)
(* irq_stubs.S), the driver's handler and ring buffer (keyboard.c), and    *)
(* the shell that calls keyboard_getchar for ever (shell.c), from          *)
(* kernel_main's pic_init on.                                              *)
(*                                                                         *)
(* keyboard_getchar runs instruction by instruction, because the handler   *)
(* may run between any two of them when interrupts are enabled.  The       *)
(* handler itself runs with interrupts disabled (an interrupt gate), so    *)
(* only the controller can move meanwhile; it is cut where it touches the  *)
(* hardware: the read of port 0x60, the end-of-interrupt, the return.      *)
(***************************************************************************)
EXTENDS Integers, Sequences, FiniteSets

CONSTANTS
  KBD_BUF_SIZE,   \* 256
  Keys,           \* the keys of the keyboard
  MaxEvents,      \* bound: presses, repeats and releases by the user
  Repeating,      \* the keys that repeat while held down
  EarlyKeys,      \* the user may type before pic_init
  FakeShifts      \* the keyboard brackets extended keys with shift codes

ASSUME KeyboardSizes ==
  /\ KBD_BUF_SIZE \in Nat /\ KBD_BUF_SIZE > 1
  /\ Keys \subseteq {"lshift", "rshift", "caps", "ctrl", "f1",
                     "q", "slash", "kp_slash"}
  /\ Repeating \subseteq Keys
  /\ MaxEvents \in Nat
  /\ EarlyKeys \in BOOLEAN /\ FakeShifts \in BOOLEAN

VARIABLES
  user,    \* keys held down, Caps Lock, events so far
  dev,     \* bytes the keyboard has not yet given to the controller
  port,    \* the controller's output register, port 0x60
  pic,     \* IRQ 1 in the 8259: requested, in service, masked
  cpu,     \* program counter, IF, the shadow of STI, interrupted pc
  kbd,     \* the statics of keyboard.c, and irq_handlers[1]
  getc     \* keyboard_getchar's c, and the buffer slot it comes from

vars == <<user, dev, port, pic, cpu, kbd, getc>>

Slots == 0 .. KBD_BUF_SIZE - 1
NoChar == "none"
Chars == {"q", "Q", "/", "?"}

(***************************************************************************)
(* Scancodes.  A byte is a key code with its break bit; want is not part   *)
(* of it, but the character the user meant (history).                      *)
(***************************************************************************)
Byte(code, brk, want) == [code |-> code, brk |-> brk, want |-> want]
Ext == Byte("ext", FALSE, NoChar)

(* scancode_ascii and scancode_ascii_shift.                                *)
Ascii(code, shifted) ==
  CASE code = "q"     -> IF shifted THEN "Q" ELSE "q"
    [] code = "slash" -> IF shifted THEN "?" ELSE "/"
    [] OTHER          -> NoChar

is_letter_scancode(code) == code = "q"

(* Mutant: Caps Lock also shifts signs.                                    *)
Bug_scancode_to_ascii(k, code) ==
  Ascii(code, (k.left_shift \/ k.right_shift) # k.caps_lock)

scancode_to_ascii(k, code) ==
  LET shift == k.left_shift \/ k.right_shift
  IN  Ascii(code, IF is_letter_scancode(code) THEN shift # k.caps_lock ELSE shift)

(***************************************************************************)
(* The user and the keyboard (external).                                   *)
(***************************************************************************)
Shifted == user.down \cap {"lshift", "rshift"} # {}

Meant(key) ==
  Ascii(key, IF is_letter_scancode(key) THEN Shifted # user.caps ELSE Shifted)

(* The bytes a key sends.  kp_slash is the extended "/" of the keypad.     *)
Codes(key, brk) ==
  IF key # "kp_slash" THEN <<Byte(key, brk, IF brk THEN NoChar ELSE Meant(key))>>
  ELSE LET fake == FakeShifts /\ "lshift" \in user.down
           code == <<Ext, Byte("slash", brk, NoChar)>>
       IN  CASE fake /\ ~brk -> <<Ext, Byte("lshift", TRUE, NoChar)>> \o code
             [] fake /\ brk  -> code \o <<Ext, Byte("lshift", FALSE, NoChar)>>
             [] OTHER        -> code

UserActive == user.events < MaxEvents /\ (EarlyKeys \/ cpu.pc # "pic_init")

(* A key goes down, or repeats while it is held; Caps Lock changes when    *)
(* its key goes down.                                                      *)
PressKey(key) ==
  /\ UserActive
  /\ key \in user.down => key \in Repeating
  /\ user' = [down |-> user.down \cup {key}, events |-> user.events + 1,
              caps |-> user.caps # (key = "caps" /\ key \notin user.down)]
  /\ dev' = dev \o Codes(key, FALSE)
  /\ UNCHANGED <<port, pic, cpu, kbd, getc>>

ReleaseKey(key) ==
  /\ UserActive
  /\ key \in user.down
  /\ user' = [user EXCEPT !.down = @ \ {key}, !.events = @ + 1]
  /\ dev' = dev \o Codes(key, TRUE)
  /\ UNCHANGED <<port, pic, cpu, kbd, getc>>

(* The controller takes the next byte when its register is free, and       *)
(* raises the line: a rising edge, which the 8259 latches, masked or not.  *)
DeviceRaise ==
  /\ dev # << >>
  /\ ~port.full
  /\ port' = [full |-> TRUE, byte |-> Head(dev)]
  /\ dev' = Tail(dev)
  /\ pic' = [pic EXCEPT !.irr = TRUE]
  /\ UNCHANGED <<user, cpu, kbd, getc>>

(***************************************************************************)
(* The processor (external): an instruction ends the shadow of the STI     *)
(* before it; an interrupt is taken between two instructions.              *)
(***************************************************************************)
Goto(pc) == cpu' = [cpu EXCEPT !.pc = pc, !.shadow = FALSE]

Sti(pc) == cpu' = [cpu EXCEPT !.pc = pc, !.shadow = TRUE, !.iflag = TRUE]

(* Mutant: interrupts may come between sti and hlt.                        *)
Bug_Interruptible == cpu.iflag

Interruptible == cpu.iflag /\ ~cpu.shadow

(* Through the interrupt gate and irq_common_stub to irq_handler; a HLT is *)
(* over when its interrupt returns.                                        *)
Interrupt ==
  /\ Interruptible
  /\ pic.irr /\ ~pic.masked /\ ~pic.isr
  /\ pic' = [pic EXCEPT !.irr = FALSE, !.isr = TRUE]
  /\ cpu' = [pc |-> "irq_handler", iflag |-> FALSE, shadow |-> FALSE,
             ret |-> IF cpu.pc = "halted" THEN "cli" ELSE cpu.pc]
  /\ UNCHANGED <<user, dev, port, kbd, getc>>

(***************************************************************************)
(* keyboard.c, the handler.                                                *)
(***************************************************************************)
(* Mutant: the test for a full buffer is off by one.                       *)
Bug_kbd_buffer_push(k, c) ==
  [k EXCEPT !.buffer[k.write_pos] = c,
            !.write_pos = (k.write_pos + 1) % KBD_BUF_SIZE]

kbd_buffer_push(k, c) ==
  LET next == (k.write_pos + 1) % KBD_BUF_SIZE IN
  IF next = k.read_pos THEN k
  ELSE [k EXCEPT !.buffer[k.write_pos] = c, !.write_pos = next]

(* The character a byte stands for, given the modifiers so far.            *)
CharOf(k, b) ==
  IF b.code = "ext" \/ b.brk \/ k.extended THEN NoChar
  ELSE scancode_to_ascii(k, b.code)

(* A prefix is remembered; a break code clears a shift and the prefix; an  *)
(* extended make code is dropped; a modifier is recorded; what is left and *)
(* printable goes into the buffer.                                         *)
keyboard_irq_handler(k, b) ==
  LET plain == ~b.brk /\ ~k.extended
      shift(now, code) == IF b.code # code THEN now
                          ELSE IF b.brk THEN FALSE ELSE now \/ plain
      c == CharOf(k, b)
      m == [k EXCEPT
              !.extended    = FALSE,
              !.left_shift  = shift(@, "lshift"),
              !.right_shift = shift(@, "rshift"),
              !.caps_lock   = @ # (b.code = "caps" /\ plain)]
  IN  IF b.code = "ext" THEN [k EXCEPT !.extended = TRUE]
      ELSE IF c = NoChar THEN m ELSE kbd_buffer_push(m, c)

(* irq_handler calls the registered handler, which reads port 0x60 ...     *)
irq_handler ==
  /\ cpu.pc = "irq_handler"
  /\ IF kbd.registered
     THEN /\ kbd' = keyboard_irq_handler(kbd, port.byte)
          /\ port' = [port EXCEPT !.full = FALSE]
     ELSE UNCHANGED <<kbd, port>>
  /\ Goto("pic_send_eoi")
  /\ UNCHANGED <<user, dev, pic, getc>>

(* Mutant: the end-of-interrupt is forgotten.                              *)
Bug_pic_send_eoi ==
  /\ cpu.pc = "pic_send_eoi"
  /\ Goto("iret")
  /\ UNCHANGED <<user, dev, port, pic, kbd, getc>>

(* ... then acknowledges the interrupt ...                                 *)
pic_send_eoi ==
  /\ cpu.pc = "pic_send_eoi"
  /\ pic' = [pic EXCEPT !.isr = FALSE]
  /\ Goto("iret")
  /\ UNCHANGED <<user, dev, port, kbd, getc>>

(* ... and irq_common_stub returns, restoring the flags.                   *)
iret ==
  /\ cpu.pc = "iret"
  /\ cpu' = [pc |-> cpu.ret, iflag |-> TRUE, shadow |-> FALSE, ret |-> "none"]
  /\ UNCHANGED <<user, dev, port, pic, kbd, getc>>

(***************************************************************************)
(* kernel_main.                                                            *)
(***************************************************************************)
Reset(k) == [k EXCEPT !.read_pos = 0, !.write_pos = 0, !.left_shift = FALSE,
                      !.right_shift = FALSE, !.caps_lock = FALSE,
                      !.extended = FALSE, !.registered = TRUE]

KeyboardInit ==
  /\ user = [down |-> {}, caps |-> FALSE, events |-> 0]
  /\ dev = << >>
  /\ port = [full |-> FALSE, byte |-> Ext]
  /\ pic = [irr |-> FALSE, isr |-> FALSE, masked |-> FALSE]
  /\ cpu = [pc |-> "pic_init", iflag |-> FALSE, shadow |-> FALSE, ret |-> "none"]
  /\ kbd = [buffer |-> [s \in Slots |-> NoChar], read_pos |-> 0, write_pos |-> 0,
            left_shift |-> FALSE, right_shift |-> FALSE, caps_lock |-> FALSE,
            extended |-> FALSE, registered |-> FALSE]
  /\ getc = [c |-> NoChar, slot |-> -1]

(* ICW1 resets the edge detector: a request latched before is forgotten.   *)
(* All lines are masked at the end.                                        *)
pic_init ==
  /\ cpu.pc = "pic_init"
  /\ pic' = [irr |-> FALSE, isr |-> FALSE, masked |-> TRUE]
  /\ Goto("keyboard_init")
  /\ UNCHANGED <<user, dev, port, kbd, getc>>

keyboard_init ==
  /\ cpu.pc = "keyboard_init"
  /\ kbd' = Reset(kbd)
  /\ pic' = [pic EXCEPT !.masked = FALSE]
  /\ Goto("sti")
  /\ UNCHANGED <<user, dev, port, getc>>

kernel_main_sti ==
  /\ cpu.pc = "sti"
  /\ Sti("cli")
  /\ UNCHANGED <<user, dev, port, pic, kbd, getc>>

(***************************************************************************)
(* keyboard_getchar.                                                       *)
(***************************************************************************)
getchar_cli ==
  /\ cpu.pc = "cli"
  /\ cpu' = [cpu EXCEPT !.pc = "check", !.iflag = FALSE, !.shadow = FALSE]
  /\ UNCHANGED <<user, dev, port, pic, kbd, getc>>

keyboard_has_key == kbd.read_pos # kbd.write_pos

(* Mutant: the index is not wrapped.                                       *)
Bug_getchar_take ==
  /\ cpu.pc = "check"
  /\ keyboard_has_key
  /\ getc' = [c |-> kbd.buffer[kbd.read_pos], slot |-> -1]
  /\ kbd' = [kbd EXCEPT !.read_pos = @ + 1]
  /\ Goto("take_sti")
  /\ UNCHANGED <<user, dev, port, pic>>

(* The buffer is not volatile and the asm statements do not clobber        *)
(* memory, so the compiler may load the character here or any time after   *)
(* the sti, up to the return.                                              *)
getchar_take ==
  /\ cpu.pc = "check"
  /\ keyboard_has_key
  /\ \/ getc' = [c |-> kbd.buffer[kbd.read_pos], slot |-> -1]
     \/ getc' = [c |-> NoChar, slot |-> kbd.read_pos]
  /\ kbd' = [kbd EXCEPT !.read_pos = (@ + 1) % KBD_BUF_SIZE]
  /\ Goto("take_sti")
  /\ UNCHANGED <<user, dev, port, pic>>

getchar_take_sti ==
  /\ cpu.pc = "take_sti"
  /\ Sti("leave")
  /\ UNCHANGED <<user, dev, port, pic, kbd, getc>>

(* The instruction after the sti, which still runs in its shadow; from     *)
(* here on the handler may run, as often as it likes, before a late load.  *)
getchar_leave ==
  /\ cpu.pc = "leave"
  /\ Goto("return")
  /\ UNCHANGED <<user, dev, port, pic, kbd, getc>>

CharRead == IF getc.slot = -1 THEN getc.c ELSE kbd.buffer[getc.slot]

(* The shell consumes CharRead and calls again.                            *)
getchar_return ==
  /\ cpu.pc = "return"
  /\ getc' = [c |-> NoChar, slot |-> -1]
  /\ Goto("cli")
  /\ UNCHANGED <<user, dev, port, pic, kbd>>

getchar_empty_sti ==
  /\ cpu.pc = "check"
  /\ ~keyboard_has_key
  /\ Sti("hlt")
  /\ UNCHANGED <<user, dev, port, pic, kbd, getc>>

getchar_hlt ==
  /\ cpu.pc = "hlt"
  /\ Goto("halted")
  /\ UNCHANGED <<user, dev, port, pic, kbd, getc>>

CpuStep ==
  \/ irq_handler
  \/ pic_send_eoi
  \/ iret
  \/ pic_init
  \/ keyboard_init
  \/ kernel_main_sti
  \/ getchar_cli
  \/ getchar_take
  \/ getchar_take_sti
  \/ getchar_leave
  \/ getchar_return
  \/ getchar_empty_sti
  \/ getchar_hlt

Next ==
  \/ \E key \in Keys : PressKey(key) \/ ReleaseKey(key)
  \/ DeviceRaise
  \/ Interrupt
  \/ CpuStep

Spec == KeyboardInit /\ [][Next]_vars

(* The processor runs, takes the interrupts it is offered, and the         *)
(* controller passes bytes on.  Nothing makes the user type.               *)
FairSpec ==
  Spec /\ WF_vars(CpuStep) /\ WF_vars(Interrupt) /\ WF_vars(DeviceRaise)

(***************************************************************************)
(* Properties.                                                             *)
(***************************************************************************)
Pcs == {"pic_init", "keyboard_init", "sti", "cli", "check", "take_sti", "leave",
        "return", "hlt", "halted", "irq_handler", "pic_send_eoi", "iret"}

(* Types: the ring buffer's indices stay inside the buffer, the program    *)
(* counter and the flags inside their ranges.                              *)
KeyboardTypeOK ==
  /\ user.down \subseteq Keys
  /\ pic \in [irr : BOOLEAN, isr : BOOLEAN, masked : BOOLEAN]
  /\ cpu \in [pc : Pcs, iflag : BOOLEAN, shadow : BOOLEAN, ret : Pcs \cup {"none"}]
  /\ kbd \in [buffer : [Slots -> Chars \cup {NoChar}], read_pos : Slots,
              write_pos : Slots, left_shift : BOOLEAN, right_shift : BOOLEAN,
              caps_lock : BOOLEAN, extended : BOOLEAN, registered : BOOLEAN]
  /\ getc \in [c : Chars \cup {NoChar}, slot : Slots \cup {-1}]

(* No lost wake-up: the processor never sleeps in keyboard_getchar while a *)
(* character waits in the buffer, whenever the interrupt came between the  *)
(* check, the sti and the hlt.                                             *)
NoSleepWithInput == cpu.pc = "halted" => ~keyboard_has_key

(* The handler appends the character the user meant when the key went      *)
(* down, with the shifts and Caps Lock of that moment, however many bytes  *)
(* were queued in between; every other byte appends nothing.  A full       *)
(* buffer drops the character.                                             *)
DecodesWhatWasTyped ==
  [][cpu.pc = "irq_handler" /\ cpu'.pc = "pic_send_eoi" =>
       LET want == port.byte.want
           full == (kbd.write_pos + 1) % KBD_BUF_SIZE = kbd.read_pos
       IN  IF want = NoChar \/ full
           THEN kbd'.write_pos = kbd.write_pos
           ELSE /\ kbd'.write_pos = (kbd.write_pos + 1) % KBD_BUF_SIZE
                /\ kbd'.buffer[kbd.write_pos] = want]_vars

Waiting == (kbd.write_pos - kbd.read_pos + KBD_BUF_SIZE) % KBD_BUF_SIZE

(* What the buffer holds, the oldest character first, and what is in the   *)
(* hands of keyboard_getchar.                                              *)
Contents == [i \in 1 .. Waiting |->
               kbd.buffer[(kbd.read_pos + i - 1) % KBD_BUF_SIZE]]
InHand == IF getc.c = NoChar /\ getc.slot = -1 THEN << >> ELSE <<CharRead>>

Queue == INSTANCE CharQueue WITH Capacity <- KBD_BUF_SIZE - 1,
                                 q <- Contents, hand <- InHand

(* The ring buffer, filled by the handler between any two instructions of  *)
(* keyboard_getchar and read before the sti or after it, with any number   *)
(* of interrupts before the late read, is a queue of KBD_BUF_SIZE - 1      *)
(* characters: none is lost once accepted, doubled, reordered or           *)
(* overwritten before the shell has it.                                    *)
ImplementsCharQueue == Queue!QSpec

(* All input is consumed: again and again, no byte waits in the keyboard   *)
(* or the controller and no character in the buffer.  The interrupt line   *)
(* never sticks and the sleeping processor is always woken.                *)
InputConsumed == []<>(dev = << >> /\ ~port.full /\ ~keyboard_has_key)
=============================================================================
