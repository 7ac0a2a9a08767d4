----------------------------- MODULE Exceptions -----------------------------
(***************************************************************************)
(* From the processor's exception or interrupt to the report on the screen *)
(* or the return: the GDT and the IDT (gdt.c, idt.c, irq.c), the entry     *)
(* stubs (isr_stubs.S, irq_stubs.S), irq_handler, exception_handler        *)
(* (isr.c) and page_fault_handler (page_fault.c), which prints through     *)
(* printf.  kernel_main runs gdt_init, idt_init, irq_init, and then any    *)
(* calls of the libraries; an exception may come anywhere, a hardware      *)
(* interrupt between two steps once they are enabled.                      *)
(*                                                                         *)
(* The stack is a sequence of words, its top first, and esp its length.    *)
(* eflags is its IF bit.  eip is a name of the place, as a number.         *)
(***************************************************************************)
EXTENDS Libc, Descriptors, FiniteSets

CONSTANTS
  MainRegs,         \* the registers the interrupted kernel code works with
  HandlerEip,       \* a place in a driver's handler
  Vectors,          \* the exceptions the processor raises
  ErrCodes,         \* vector -> the error codes it gives
  Phys,             \* faulting addresses, and their frames (0: not mapped)
  Lines,            \* the lines that may interrupt: the unmasked, and the spurious 7
  Formats,          \* printf calls, as lists of directives
  SegmentRequests   \* [base, limit, flag] for the descriptor encoders

General == {"eax", "ecx", "edx", "ebx", "ebp", "esi", "edi"}
Segments == {"ds", "es", "fs", "gs"}
Registers == General \cup Segments \cup {"cs", "eip", "eflags"}

ASSUME ExceptionConstants ==
  /\ MainRegs \in [Registers -> 0 .. WORD - 1] /\ HandlerEip \in 0 .. WORD - 1
  /\ Vectors \subseteq 0 .. 31 /\ Lines \subseteq 0 .. 15
  /\ ErrCodes \in [Vectors -> SUBSET (0 .. WORD - 1)]
  /\ SegmentRequests \subseteq [base : SUBSET (0 .. 31), limit : SUBSET (0 .. 31),
                                flag : SUBSET (0 .. 15)]

VARIABLES
  cpu,     \* what runs, the stub entered, the line served, registers, stack
  gdt,     \* gdt_entries is the table the processor uses
  idt,     \* the vectors whose gates are installed and loaded
  todo,    \* the printf calls page_fault_handler has still to make
  call,    \* the library call of the kernel code, and its result
  event    \* the last exception or interrupt as the processor saw it (history)

excVars == <<cpu, gdt, idt, todo, call, event, pf>>

NoCall == [kind |-> "none"]
NoEvent == [vector |-> -1]

Bits(n) == {b \in 0 .. 9 : (n \div 2^b) % 2 = 1}

(***************************************************************************)
(* Tables.  Stub s is isr_stub_s up to 31, irq_stub_(s - 32) above.        *)
(***************************************************************************)
StubAddress(s) == {20, 30, 31} \cup Shl(Bits(s), 4)

GateFlags == {1, 2, 3, 7}   \* 0x8E

(* Mutant: the high half is not shifted down.                              *)
Bug_HighHalf(addr) == Field(addr, 0, 15)

HighHalf(addr) == Field(addr, 16, 31)

idt_set_descriptor(addr, flags) ==
  [isr_low |-> Field(addr, 0, 15), kernel_cs |-> 8, attributes |-> flags,
   isr_high |-> HighHalf(addr)]

(* Vector v gets entry v of isr_stub_table, or v - 32 of irq_stub_table.   *)
Gate == [v \in 0 .. 47 |-> idt_set_descriptor(StubAddress(v), GateFlags)]

(***************************************************************************)
(* The processor.                                                          *)
(***************************************************************************)
Loads(code, data) == KernelCode(GdtTable[code \div 8]) /\ KernelData(GdtTable[data \div 8])

(* The stubs a gate leads to: one, or the gate does not work.              *)
Entered ==
  [v \in 0 .. 47 |->
     {s \in 0 .. 47 :
        /\ 7 \in Gate[v].attributes /\ Loads(Gate[v].kernel_cs, 16)
        /\ StubAddress(s) = Gate[v].isr_low \cup Shl(Gate[v].isr_high, 16)}]

PushesError == {8, 10, 11, 12, 13, 14, 17, 30}

(* An event for which no gate works ends in a triple fault.  What was      *)
(* printed before it is of no further interest.                            *)
Deliver(v, err, cr2) ==
  /\ event' = [vector |-> v, err |-> err, cr2 |-> cr2, at |-> cpu.pc,
               regs |-> cpu.regs, stack |-> cpu.stack]
  /\ cpu' = IF ~gdt \/ v \notin idt \/ Entered[v] = {} THEN [cpu EXCEPT !.pc = "reset"]
            ELSE [cpu EXCEPT
                    !.pc = "stub",
                    !.stub = CHOOSE s \in Entered[v] : TRUE,
                    !.regs.cs = Gate[v].kernel_cs,
                    !.regs.eflags = IF 0 \in Gate[v].attributes THEN @ ELSE 0,
                    !.stack = (IF v \in PushesError THEN <<err>> ELSE <<>>)
                                \o <<cpu.regs.eip, cpu.regs.cs, cpu.regs.eflags>> \o @]
  /\ UNCHANGED <<gdt, idt, todo>>

(* An exception in kernel code or a driver's handler.  It never returns,   *)
(* so one in the middle of a library call is no different.  A page fault's *)
(* error code says whether the page was there.                             *)
Exception(v, err, cr2) ==
  /\ cpu.pc \in {"gdt_init", "idt_init", "irq_init", "run", "irq_handler"}
  /\ call = NoCall
  /\ v = 14 => ((0 \in Bits(err)) <=> (Phys[cr2] # 0))
  /\ v # 14 => cr2 = 0
  /\ Deliver(v, err, cr2)
  /\ UNCHANGED <<call, pf>>

Interrupt(line) ==
  /\ cpu.pc \in {"run", "irq_handler"} /\ cpu.regs.eflags = 1
  /\ call = NoCall \/ call.kind = "printf"
  /\ Deliver(32 + line, 0, 0)
  /\ UNCHANGED <<call, pf>>

(***************************************************************************)
(* The stubs.                                                              *)
(***************************************************************************)
(* Mutant: vector 14 has the stub without an error code.                   *)
Bug_ErrStubs == {8, 10, 11, 12, 13, 17, 30}

ErrStubs == {8, 10, 11, 12, 13, 14, 17, 30}

(* Mutant: the interrupt stubs push the vector, not the line.              *)
Bug_stub_pushes(s) == IF s \in ErrStubs THEN <<s>> ELSE <<s, 0>>

(* The number, above the error code or a 0 in its place.                   *)
stub_pushes(s) ==
  IF s \in ErrStubs THEN <<s>>
  ELSE <<IF s < 32 THEN s ELSE s - 32, 0>>

entry_stub ==
  /\ cpu.pc = "stub"
  /\ cpu' = [cpu EXCEPT !.pc = "common_stub", !.stack = stub_pushes(cpu.stub) \o @]
  /\ UNCHANGED <<gdt, idt, todo, call, event, pf>>

(* What isr_common_stub and irq_common_stub save, from the top.            *)
Saved == <<"gs", "fs", "es", "ds", "edi", "esi", "ebp", "esp", "ebx", "edx", "ecx", "eax">>

common_stub ==
  /\ cpu.pc = "common_stub"
  /\ cpu' = [cpu EXCEPT
       !.pc = "handler",
       !.stack = [k \in DOMAIN Saved |->
                    IF Saved[k] = "esp" THEN Len(@) ELSE cpu.regs[Saved[k]]] \o @,
       !.regs = [n \in DOMAIN @ |->
                   IF n \in Segments \cup {"eax"} THEN 16 ELSE @[n]]]
  /\ UNCHANGED <<gdt, idt, todo, call, event, pf>>

(* registers_t, laid over the stack.                                       *)
registers_t == Saved \o <<"int_no", "err_code", "eip", "cs", "eflags">>

regs(n) == cpu.stack[CHOOSE k \in DOMAIN registers_t : registers_t[k] = n]

(* Mutant: one word too few is dropped before iret.                        *)
Bug_Codes == 1

Codes == 2   \* int_no and err_code

(* popa does not load esp.                                                 *)
common_stub_return ==
  /\ cpu.pc = "common_stub_return"
  /\ cpu' = [cpu EXCEPT
       !.pc = "iret",
       !.regs = [n \in DOMAIN @ |->
                   IF n \in General \cup Segments THEN regs(n) ELSE @[n]],
       !.stack = SubSeq(@, Len(Saved) + Codes + 1, Len(@))]
  /\ UNCHANGED <<gdt, idt, todo, call, event, pf>>

iret ==
  /\ cpu.pc = "iret"
  /\ cpu' = [cpu EXCEPT
       !.pc = "run",
       !.regs = [@ EXCEPT !.eip = cpu.stack[1], !.cs = cpu.stack[2],
                          !.eflags = cpu.stack[3]],
       !.stack = SubSeq(@, 4, Len(@))]
  /\ event' = NoEvent
  /\ UNCHANGED <<gdt, idt, todo, call, pf>>

(***************************************************************************)
(* Handlers.                                                               *)
(***************************************************************************)
(* Runs the line's handler, if one is registered, and acknowledges (what   *)
(* they do is in Keyboard); a C function keeps ebx, ebp, esi and edi only. *)
irq_handler ==
  /\ cpu.pc = "handler" /\ cpu.stub >= 32
  /\ cpu' = [cpu EXCEPT !.pc = "irq_handler", !.line = regs("int_no"),
                        !.regs = [@ EXCEPT !.eax = 0, !.ecx = 0, !.edx = 0,
                                           !.eip = HandlerEip]]
  /\ UNCHANGED <<gdt, idt, todo, call, event, pf>>

irq_handler_return ==
  /\ cpu.pc = "irq_handler"
  /\ cpu' = [cpu EXCEPT !.pc = "common_stub_return"]
  /\ UNCHANGED <<gdt, idt, todo, call, event, pf>>

exception_messages ==
  <<"Division By Zero", "Debug", "Non Maskable Interrupt", "Breakpoint",
    "Into Detected Overflow", "Out of Bounds", "Invalid Opcode", "No Coprocessor",
    "Double Fault", "Coprocessor Segment Overrun", "Bad TSS", "Segment Not Present",
    "Stack Fault", "General Protection Fault", "Page Fault", "Unknown Interrupt",
    "Coprocessor Fault", "Alignment Check", "Machine Check",
    "SIMD Floating-Point Exception", "Virtualization Exception">>
  \o [k \in 1 .. 9 |-> "Reserved"] \o <<"Security Exception", "Reserved">>

exception_handler ==
  /\ cpu.pc = "handler" /\ cpu.stub < 32 /\ regs("int_no") # 14
  /\ pf' = [pf EXCEPT !.out = @ \o <<"EXCEPTION! ">> \o
               IF regs("int_no") < 32 THEN <<exception_messages[regs("int_no") + 1]>>
               ELSE <<>>]
  /\ cpu' = [cpu EXCEPT !.pc = "halted"]
  /\ UNCHANGED <<gdt, idt, todo, call, event>>

Text(t) == [kind |-> "text", arg |-> [n |-> 0, s |-> <<t>>]]
Number(c, n) == [kind |-> c, arg |-> [n |-> n, s |-> <<>>]]

(* The words printed for an error code, each by a call of its own.         *)
page_fault_print_error_code(err) ==
  LET on(b, word) == IF b \in Bits(err) THEN << <<Text(word)>> >> ELSE <<>>
      either(b, yes, no) == << <<Text(IF b \in Bits(err) THEN yes ELSE no)>> >>
  IN  << <<Text("cause:")>> >>
        \o either(0, "protection-violation", "not-present")
        \o either(1, "write", "read")
        \o either(2, "user-mode", "supervisor")
        \o on(3, "reserved-bit-set")
        \o on(4, "instruction-fetch")
        \o << <<Text("err=0x"), Number("x", err), Text(")")>> >>

(* The calls of page_fault_handler, given the address read from CR2.       *)
PageFaultReport(cr2) ==
  << <<Text("Page Fault (#"), Number("u", 14), Text(")")>>,
     <<Text("CR2 (fault addr): "), Number("p", cr2), Text("NL")>> >>
  \o page_fault_print_error_code(regs("err_code"))
  \o << <<Text("EIP: "), Number("p", regs("eip")),
          Text("CS: 0x"), Number("x", regs("cs")), Text("NL")>>,
        <<Text("EAX: "), Number("p", regs("eax")), Text("EBX: "), Number("p", regs("ebx")),
          Text("ECX: "), Number("p", regs("ecx")), Text("EDX: "), Number("p", regs("edx")),
          Text("NL")>>,
        IF Phys[cr2] # 0 THEN <<Text("mapped -> phys "), Number("p", Phys[cr2]), Text("NL")>>
        ELSE <<Text("not mapped in page tables")>> >>

(* event.cr2 is the CR2 register: only the next page fault changes it.     *)
page_fault_handler ==
  /\ cpu.pc = "handler" /\ cpu.stub < 32 /\ regs("int_no") = 14
  /\ todo' = PageFaultReport(event.cr2)
  /\ cpu' = [cpu EXCEPT !.pc = "page_fault_handler"]
  /\ UNCHANGED <<gdt, idt, call, event, pf>>

page_fault_print ==
  /\ cpu.pc = "page_fault_handler" /\ todo # <<>> /\ pf.pc # "run"
  /\ pf' = PfCall(FormatOf(Head(todo)), ArgsOf(Head(todo)), pf.out)
  /\ todo' = Tail(todo)
  /\ UNCHANGED <<cpu, gdt, idt, call, event>>

page_fault_halt ==
  /\ cpu.pc = "page_fault_handler" /\ todo = <<>> /\ pf.pc # "run"
  /\ cpu' = [cpu EXCEPT !.pc = "halted"]
  /\ UNCHANGED <<gdt, idt, todo, call, event, pf>>

(* printf runs for whoever called it.                                      *)
RunPrintf ==
  /\ cpu.pc \in {"run", "page_fault_handler"}
  /\ printf_step
  /\ UNCHANGED <<cpu, gdt, idt, todo, call, event>>

(***************************************************************************)
(* kernel_main.  The boot loader's segments are flat too.                  *)
(***************************************************************************)
ExcInit ==
  /\ cpu = [pc |-> "gdt_init", stub |-> 0, line |-> 0, stack |-> <<>>,
            regs |-> [MainRegs EXCEPT !.eflags = 0]]
  /\ gdt = FALSE /\ idt = {} /\ todo = <<>>
  /\ call = NoCall /\ event = NoEvent /\ pf = PfIdle

(* gdt_flush reloads every segment register from the new table.            *)
gdt_init ==
  /\ cpu.pc = "gdt_init"
  /\ gdt' = TRUE
  /\ cpu' = [cpu EXCEPT
       !.pc = IF Loads(8, 16) THEN "idt_init" ELSE "reset",
       !.regs = [n \in DOMAIN @ |->
                   CASE n \in Segments -> 16 [] n = "cs" -> 8 [] OTHER -> @[n]]]
  /\ UNCHANGED <<idt, todo, call, event, pf>>

idt_init ==
  /\ cpu.pc = "idt_init"
  /\ idt' = 0 .. 31
  /\ cpu' = [cpu EXCEPT !.pc = "irq_init"]
  /\ UNCHANGED <<gdt, todo, call, event, pf>>

irq_init ==
  /\ cpu.pc = "irq_init"
  /\ idt' = idt \cup (32 .. 47)
  /\ cpu' = [cpu EXCEPT !.pc = "run"]
  /\ UNCHANGED <<gdt, todo, call, event, pf>>

sti ==
  /\ cpu.pc = "run" /\ cpu.regs.eflags = 0 /\ call = NoCall
  /\ cpu' = [cpu EXCEPT !.regs.eflags = 1]
  /\ UNCHANGED <<gdt, idt, todo, call, event, pf>>

(* The kernel's code calls its libraries; only printf takes several steps. *)
Ready == cpu.pc = "run" /\ call = NoCall

CallPrintf(ds) ==
  /\ Ready
  /\ call' = [kind |-> "printf", ds |-> ds]
  /\ pf' = PfCall(FormatOf(ds), ArgsOf(ds), <<>>)
  /\ UNCHANGED <<cpu, gdt, idt, todo, event>>

CallSegment(r) ==
  /\ Ready
  /\ call' = [kind |-> "segment", asked |-> r,
              created |-> create_descriptor(r.base, r.limit, r.flag),
              encoded |-> encodeGdtEntry(NullEntry, r.base, r.limit, r.flag)]
  /\ UNCHANGED <<cpu, gdt, idt, todo, event, pf>>

Return ==
  /\ cpu.pc = "run" /\ call # NoCall /\ pf.pc # "run"
  /\ call' = NoCall /\ pf' = PfIdle
  /\ UNCHANGED <<cpu, gdt, idt, todo, event>>

KernelStep ==
  \/ gdt_init \/ idt_init \/ irq_init
  \/ entry_stub \/ common_stub \/ common_stub_return \/ iret
  \/ irq_handler \/ irq_handler_return
  \/ exception_handler \/ page_fault_handler \/ page_fault_print \/ page_fault_halt
  \/ RunPrintf \/ Return

ExcNext ==
  \/ \E v \in Vectors : \E err \in ErrCodes[v], cr2 \in DOMAIN Phys : Exception(v, err, cr2)
  \/ \E line \in Lines : Interrupt(line)
  \/ KernelStep
  \/ sti
  \/ \E ds \in Formats : CallPrintf(ds)
  \/ \E r \in SegmentRequests : CallSegment(r)

(* The processor runs the code it is in.  Nothing makes events happen.     *)
ExcSpec == ExcInit /\ [][ExcNext]_excVars /\ WF_excVars(KernelStep)

(***************************************************************************)
(* Properties.                                                             *)
(***************************************************************************)
Reported == {pf.out[k] : k \in DOMAIN pf.out}

(* The label is printed, and the text after it is exactly this.            *)
Says(label, text) ==
  \E k \in DOMAIN pf.out :
    /\ pf.out[k] = label
    /\ SubSeq(pf.out, k + 1, k + Len(text)) = text
    /\ k + Len(text) < Len(pf.out)
    /\ \A d \in 0 .. 15 : pf.out[k + Len(text) + 1] # DigitChar(d)

SaysPointer(label, n) == Says(label, <<"0", "x">> \o Numerals[16][n])

CauseWords(err) ==
  {IF 0 \in Bits(err) THEN "protection-violation" ELSE "not-present",
   IF 1 \in Bits(err) THEN "write" ELSE "read",
   IF 2 \in Bits(err) THEN "user-mode" ELSE "supervisor"}
  \cup (IF 3 \in Bits(err) THEN {"reserved-bit-set"} ELSE {})
  \cup (IF 4 \in Bits(err) THEN {"instruction-fetch"} ELSE {})

(* registers_t, as the handler of an exception or an interrupt finds it,   *)
(* tells what the processor saw, for every vector and whatever was on the  *)
(* stack: stubs, pushes and the structure in isr.h agree word by word.     *)
FrameTellsEvent ==
  cpu.pc = "handler" =>
    /\ \A n \in Registers : regs(n) = event.regs[n]
    /\ regs("int_no") = IF event.vector < 32 THEN event.vector ELSE event.vector - 32
    /\ regs("err_code") = IF event.vector \in PushesError THEN event.err ELSE 0

(* When the machine halts after an exception, the screen tells what the    *)
(* processor saw: the exception's name, or for a page fault the address,   *)
(* the error code in digits and in words, and the registers of the faulty  *)
(* code, wherever it was and whatever the stack held below.                *)
ReportTellsFault ==
  cpu.pc = "halted" =>
    IF event.vector # 14
    THEN pf.out = <<"EXCEPTION! ", exception_messages[event.vector + 1]>>
    ELSE /\ SaysPointer("CR2 (fault addr): ", event.cr2)
         /\ Says("err=0x", Numerals[16][event.err])
         /\ Reported \cap (CauseWords(0) \cup CauseWords(31)) = CauseWords(event.err)
         /\ SaysPointer("EIP: ", event.regs.eip)
         /\ Says("CS: 0x", Numerals[16][event.regs.cs])
         /\ SaysPointer("EAX: ", event.regs.eax) /\ SaysPointer("EBX: ", event.regs.ebx)
         /\ SaysPointer("ECX: ", event.regs.ecx) /\ SaysPointer("EDX: ", event.regs.edx)
         /\ ("not mapped in page tables" \in Reported) <=> (Phys[event.cr2] = 0)

(* Every exception after idt_init ends in a halt with its report, and      *)
(* every interrupt returns (or meets an exception); the tables never send  *)
(* the processor astray, which would reset the machine.                    *)
EventsAnswered ==
  (event.vector # -1 /\ event.at \notin {"gdt_init", "idt_init"})
    ~> (cpu.pc = "halted" \/ event.vector = -1)

(* A hardware interrupt is served on its own line and leaves no trace in   *)
(* the code it interrupted: registers, flags, stack.                       *)
InterruptTransparent ==
  [][cpu.pc = "iret" =>
       /\ cpu.line = event.vector - 32
       /\ cpu'.regs = event.regs
       /\ cpu'.stack = event.stack]_excVars

PrintfDone == call.kind = "printf" /\ pf.pc = "done"

(* printf prints what its format asks for, digit by digit, also for 0,     *)
(* INT_MIN and a % at the end, whatever interrupts come in between, and    *)
(* returns how much it printed (%d, %x and %p count as one character).  It *)
(* gives up only on more than INT_MAX characters, after a beginning.       *)
PrintfText ==
  PrintfDone =>
    LET ds == call.ds
        text == ExpectedText(ds)
        numeric == {k \in DOMAIN ds : ds[k].kind \in {"d", "x", "p"}}
        uncounted == SumFunctionOnSet([k \in numeric |-> Len(Expected(ds[k])) - 1], numeric)
    IN  IF pf.ret = -1
        THEN /\ Len(text) - uncounted > INT_MAX
             /\ pf.out = SubSeq(text, 1, Len(pf.out))
        ELSE pf.out = text /\ pf.ret = Len(text) - uncounted

(* The processor reads back from a descriptor the base, the limit and the  *)
(* flags asked for, for a base below 16 MiB, whichever of the two encoders *)
(* of gdt.c made it; the second one takes limits of 20 bits.               *)
SegmentsDecode ==
  (call.kind = "segment" /\ call.asked.base \subseteq 0 .. 23) =>
    \A e \in {call.created} \cup
             (IF call.asked.limit \subseteq 0 .. 19 THEN {call.encoded} ELSE {}) :
      /\ SegBase(e) = call.asked.base
      /\ SegLimit(e) = call.asked.limit \cap (0 .. 19)
      /\ SegFlags(e) = call.asked.flag \cap ((0 .. 7) \cup (12 .. 15))
=============================================================================
