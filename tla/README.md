# simplyOs in TLA+

simplyOs is a 32-bit x86 kernel that GRUB loads at 1 MiB and that runs in the
higher half: it builds a frame allocator from GRUB's memory map, manages its page
tables, offers `kmalloc`/`kfree`, and then serves a shell that reads a PS/2
keyboard through interrupts. There is one processor, no user mode and no second
thread; concurrency comes from the keyboard interrupt, the devices behind it, and
a processor that caches translations on its own.

This directory models the parts whose correctness is hard to see from a test on
one machine: the path of the memory map from the boot loader to the frame
allocator, the memory managers over every memory map and every order of calls,
exceptions from the processor's frame to the report on the screen, and the keyboard
path over every interleaving of interrupts.

## Inventory

| component | state | operations | what makes it correct |
|---|---|---|---|
| frame allocator, `mm/pmm.c` | bitmap, frame count, used count | `pmm_init`, `pmm_alloc_frame`, `pmm_free_frame`, counters | a frame has one owner, never the kernel's own memory; the counter is the bitmap's; what is handed out is RAM |
| paging, `mm/paging.c` | page directory and tables in RAM, reached through the recursive slot 1023; the TLB | `paging_init`, `paging_map_page`, `paging_unmap_page`, `paging_get_physical` | a call changes the page it names and no other; tables are private; no stale translation of a page it was called for |
| heap, `mm/kheap.c` | doubly linked list of blocks in its own memory, `kheap_end`, `kheap_first` | `kheap_init`, `kmalloc`, `kfree`, `kheap_extend` | blocks tile the heap; live blocks are disjoint, large enough and backed by frames; calls return |
| keyboard, `drivers/keyboard.c` | ring buffer, modifier flags | `keyboard_irq_handler`, `keyboard_init`, `keyboard_getchar` | characters are those typed, in order, once; the sleeping shell is woken |
| interrupts, `interrupts/pic.c`, `irq.c`, `irq_stubs.S` | handler table; the 8259's request, service and mask bits | `pic_init`, `pic_unmask`, `pic_send_eoi`, `irq_register`, `irq_handler` | every interrupt is acknowledged, the line never sticks |
| multiboot, `mm/multiboot.c` | copied memory map | `multiboot_early_init`, getters | reads the fields the boot loader wrote, inside the identity map, and stops |
| terminal, `tty.c` | row, column, colour, VGA buffer | `terminal_putchar` and wrappers | the cursor stays on the screen |
| shell, `shell/shell.c` | line, its length | `shell_run`, commands | the line and the echo agree and stay in bounds |
| boot code, `boot.S` | boot page tables | paging on, `multiboot_early_init`, identity map off | the map is copied while it can be read |
| GDT, IDT, `gdt.c`, `idt.c` | tables written once | `gdt_init`, `idt_init`, `idt_set_descriptor`, two descriptor encoders | the processor reads them as meant |
| exceptions, `isr_stubs.S`, `isr.c`, `page_fault.c` | the frame on the stack | stubs, `exception_handler`, `page_fault_handler` | the report tells what the processor saw |
| `kernel.c` | none | `kernel_main`, three self-tests | the tests give back what they take, the boot reaches the shell |
| libc | none | `printf`, `mem*`, `strlen` | prints what the format asks for, C semantics |

They interact by direct calls: `kernel_main` runs the initialisers in order with
interrupts off (`gdt_init`, `idt_init`, `irq_init`, `pic_init`, `pmm_init`, `paging_init`, `kheap_init`,
`keyboard_init`), then `sti` and the shell. The heap calls paging and the frame
allocator; paging calls the frame allocator for page tables; the frame allocator
reads the multiboot getters. The interrupt handler and the shell share the
keyboard's ring buffer, and nothing else: no interrupt handler allocates memory,
so the memory managers run undisturbed.

What is hard here: the interrupt between any two instructions of
`keyboard_getchar`; the frame an exception leaves, with or without an error code,
in the kernel or above another frame; a parser that follows sizes and pointers read
from memory; the controller's edge and the 8259's latch, which forget; the
TLB; extensions of the heap that fail half way; memory maps no developer has seen;
32-bit arithmetic on 64-bit addresses and on sizes. PROJECT.json lists these
hazards with the line where each one bites.

## Modules

| module | models |
|---|---|
| `Pmm` | `pmm.c`, with the machine's sizes as constants |
| `MCPmm` | a small machine with a ROM below 4 GiB |
| `PmmProofs` | the theorems about `Pmm` |
| `VirtualPages` | page-table geometry and the boot table of `boot.S` |
| `AddressSpace` | abstract: what paging promises its callers |
| `Paging` | `paging.c` over RAM, with the processor's walk and TLB |
| `MCPaging` | a small machine for it |
| `PagingProofs` | the theorems about `Paging`, its refinement of `AddressSpace` among them |
| `KHeap` | `kheap.c`, on `AddressSpace` and `Pmm` |
| `MCKHeap` | a small heap |
| `KHeapProofs` | the theorems about `KHeap` |
| `Multiboot` | `multiboot.c` and its call in `boot.S`, on `Pmm` |
| `MCMultiboot` | families of boot loaders and of memory maps |
| `MultibootProofs` | the theorems about `Multiboot`, down to the frames handed out |
| `KernelMain` | `kernel_main` and its self-tests, on `KHeap` |
| `MCKernelMain` | small machines for it |
| `KernelMainProofs` | the theorems about `KernelMain`: the self-tests, and the heap's properties in `kernel_main`'s order of calls |
| `Libc` | `printf`, and what it should print |
| `Descriptors` | `gdt.c` and the processor's reading of it |
| `Exceptions` | stubs, handlers and reports, on `Libc` and `Descriptors` |
| `MCExceptions` | 6-bit words, formats, segments and faults |
| `ExceptionsProofs` | the theorems about `Exceptions` and `Descriptors` |
| `CharQueue` | abstract: a bounded queue of characters |
| `Keyboard` | `keyboard.c`, `irq.c`, `irq_stubs.S`, `pic.c`, the user and the devices |
| `KeyboardProofs` | the theorems about `Keyboard`, its refinement of `CharQueue` among them |
| `Tty` | `tty.c`: the terminal's statics, buffer and cursor as one record |
| `Shell` | `shell.c` on `Tty`, fed with the characters `CharQueue` delivers |
| `MCShell` | a small screen and one-letter commands |
| `ShellProofs` | the theorems about `Shell` and `Tty` |

### Pmm

`pmm` is the record of the three statics, its bitmap the set of the frames whose
bit is 1. Each function of the file is an operator from such a record to a new
one, so paging and the heap chain them. The state machine runs `pmm_init` with one
step per iteration of its two loops, then a client allocates and frees.
`U32` and `U64` are where `uintptr_t` and `uint64_t` wrap; the casts of
`region_start_frame`, `region_end_frame` and of the size of the bitmap are `% U32`.
`pmm_reserve_frames` and `pmm_free_frames_range` are `pmm_set_used` on a set of
frames. `owners` is a history variable: how often a frame is handed out now.

### Paging, VirtualPages, AddressSpace

A virtual address is its page number. `mem` gives the content of every frame read
as a table; frames that are not tables hold `Garbage`, a constant, since RAM is not
zero at boot and clients write what they like. `page_table_virt` goes through the
recursive slot and through the TLB, as the pointer of the code does. The TLB
(external) fills and drops entries when it likes, also of pages nobody accesses, and
`invlpg` drops one.

So a call is cut where the processor can see the difference: the store of the
directory entry (`paging_map_page`), the clearing of the new table
(`paging_clear_table`), the store of the page's entry (`paging_store_entry`, which
`paging_unmap_page` uses as well) and the `invlpg` (`paging_return`). `call` says
where it is. Between the first two the directory points to a table that still holds
old words, and the processor may cache them. The clearing is one step although
`memset` is a loop: a fill reads one word of the table, before or after that word was
cleared. `edited` (history) is the set of pages whose entry some call has written.

`AddressSpace` keeps only the map from pages to frames and the set of directory
entries that own a table. `Paging` is shown to implement it under the mapping
`Maps`, which walks the tables and lets a call take effect in its first step, after
which it cannot fail. The client follows the rules of the comments: it maps frames it was given, and returns
a frame only when no page maps it. Flags other than PRESENT are left out, since
every caller passes WRITE and nothing runs in ring 3.

### KHeap

`heap` maps the address of each block to its header. A `kmalloc` runs in steps
with `call` as its stack frame: one per block scanned, one per page mapped, because
each may fail and nothing undoes what came before. `kfree` is one step. Sizes are
`% U32`. `space`, `tables` and `held` come from `AddressSpace`, so the property
`HeapKeepsPagingRules` says the heap is a correct client of what `Paging` was shown
to provide. A write to an unmapped header ends in the page fault handler: `call.pc`
is then `"halted"`. `live` is a history variable: the pointers handed out with the
sizes asked for.

### Multiboot

`loader` is a boot loader's memory: `Word` reads it by the layout of the Multiboot
structure, whose fields have fixed offsets, and gives `loader.other` for every word
the loader did not write. `multiboot_early_init` runs up to its loop in one step,
then one step per entry; `multiboot` is what `Pmm` reads through the getters. An
access past the identity map resets the machine, since no handler is installed yet;
an access in its last page reads the VGA buffer. After `enter_kernel` the steps are
those of `Pmm`, so `HandedOutIsLoaderRam` relates the loader's memory to the frames
a client gets.

### KernelMain

The machine of `KHeap` behind `kernel_main`: every call of the self-tests is a step,
since each may find no memory, and the shell's callers come after. `report` is what
the tests print. The comparison of what was written and read back through a mapped
page is left to `Paging`, whose refinement shows that it succeeds. The path "map
failed" of `paging_self_test` is not reached with the current order of tests: a
machine with one free frame has lost it to `pmm_self_test`.

### Libc, Descriptors, Exceptions

A machine word in `Descriptors` is the set of its one bits, so shifts and masks keep
their widths; the processor's decoding is written from its manual, not from the
encoder. `printf` runs one iteration of its loop per step over a format that is a
sequence of characters; a piece of text whose spelling does not matter is one
character. What it should print is defined from the list of directives the format
was made of, and a numeral as the digits whose value is the number.

In `Exceptions` the stack is a sequence of words. The processor pushes its frame,
the stub its two words, the common stub the registers; `registers_t` is laid over
the result, and `page_fault_handler` makes its `printf` calls from it. `event`
(history) is what the processor saw. An event without a working gate resets the
machine; that is how a wrong GDT, a wrong gate or a missing table shows. An
exception may come at any step of `kernel_main` and in a driver's handler; a
hardware interrupt (line 1, and the spurious 7 of the 8259) between any two steps
once `sti` was executed, in the middle of `printf` too.

### Keyboard, CharQueue

`keyboard_getchar` is cut into its instructions (`cli`, the check and the take,
`sti`, `hlt`), the interrupt into its entry, the handler, the end-of-interrupt and
`iret`. `cpu.shadow` is the one instruction after `sti` in which no interrupt is
taken. The buffer's load may be done before or after the `sti`: the array is not
volatile and the asm statements have no memory clobber, so a compiler may do
either. A late load need not be the instruction after the `sti`: `getchar_leave` is
the one that still runs in the shadow, and any number of interrupts may come before
`getchar_return` reads the slot. The user, the PS/2 controller and the 8259 are external: a byte waits in
port 0x60 until it is read, the rising edge is latched by the 8259 even while
masked, and ICW1 clears the latch. A byte carries the character the user meant
(`want`, history), so `DecodesWhatWasTyped` relates the typing to the buffer over
any number of queued bytes. The ASCII tables keep one letter, one sign and keys
without a character; these are the classes `scancode_to_ascii` tells apart.

### Tty, Shell

The text buffer keeps the code's linear index, so a column past the margin lands
where it does on the machine: in the next row, then past the screen, then past the
mapped page (`fault`). A step of `Shell` is one iteration of the inner loop of
`shell_run`, with the whole command and the next prompt on Enter. `shell_line` is
the array, read as a C string; `typed` (history) is what the user believes to have
entered. What a command prints is a constant text: only its length and its line
ends matter to the terminal. Colours are left out.

## Runs

| run | properties | what it shows |
|---|---|---|
| `multiboot_to_pmm` | `BootTypeOK`, `CopiesWholeMap`, `HandedOutIsLoaderRam`, `EarlyInitEnds`, `PmmTypeOK`, `FreeCountIsAllocatable`, `ExclusiveOwnership`, `KernelNeverHandedOut`, `HandedOutIsRam`, `BitmapFollowsOwners` | for loaders with any flags, placement and surrounding memory the parser ends within its storage; with every field announced the whole map arrives and only its RAM is handed out; for every map of one or two entries (overlapping, unaligned, empty, above 4 GiB, any type) the allocator's counter is exact, frames have one owner, the kernel is safe; for page-aligned maps below 4 GiB frames handed out are declared RAM |
| `paging_clients` | `EditedPagesCoherent`, `TablesPrivate`, `FramesAccounted`, `ImplementsAddressSpace` | with a processor that reads the tables also in the middle of a call: refinement of `AddressSpace`, no stale translation of a page that was ever mapped or unmapped, private tables, no lost frame |
| `kernel_main` | `KHeapTypeOK`, `ListTilesHeap`, `LiveBlocksFit`, `HeapPagesBacked`, `HeapPagesStable`, `NullMeansNoFit`, `KmallocReturns`, `HeapKeepsPagingRules`, `TestsReleaseFrames`, `TestsOkWithEnoughMemory`, `HeapHandedOverClean` | self-tests give back their frames and report what is true, the boot never gets stuck; then the heap's list, its backing pages, first-fit's answers, termination, and the heap as a client of paging |
| `exception_reports` | `FrameTellsEvent`, `ReportTellsFault`, `PrintfText`, `SegmentsDecode`, `InterruptTransparent`, `EventsAnswered` | stubs, pushes and `registers_t` agree, so a handler finds what the processor saw; every exception after `idt_init` ends in a true report, interrupts leave no trace, `printf` prints and counts right, the processor reads descriptors as meant |
| `keyboard_typing` | `KeyboardTypeOK`, `NoSleepWithInput`, `DecodesWhatWasTyped`, `ImplementsCharQueue`, `InputConsumed` | no lost wake-up, right characters, the ring buffer as a queue although the slot just freed may be read late, all input consumed |
| `shell_editing` | `ShellTypeOK`, `ExecutesWhatWasTyped`, `CursorShowsPosition`, `EchoUntilErasedAtMargin` | without tabs: the line executed is the line typed, the cursor stays on the screen, and the screen shows the line through wraps and scrolling until a character is erased in column 0 |

Runs that find a disagreement with what the repository says of itself
(PROJECT.json, "findings"):

| run | properties | what happens |
|---|---|---|
| `pmm_rom_at_4gib` | `SizedByHighestEnd` | a region that ends exactly at 4 GiB truncates the size to one frame |
| `multiboot_no_mods` | `CopiesAnyMap` | with a flag before the map clear, the parser misses the map |
| `kheap_partial_extend` | `KheapEndUnmapped` | a failed extension leaves pages mapped past `kheap_end` |
| `keyboard_early_key` | `InputConsumed` | a key before `pic_init` blocks the keyboard for ever |
| `shell_tab_at_margin` | `CursorShowsPosition` | a tab between columns 73 and 79 moves the column off the screen for good |
| `shell_line_max` | `LongestLineIsTaken` | a line takes `SHELL_LINE_MAX - 1` characters, one less than the comment on the constant says |

What the passing runs leave out on purpose, because the code does not do it:

- `HandedOutIsRam` is asked of page-aligned maps that end below 4 GiB. An unaligned
  usable region frees a frame it shares with its neighbour, and RAM above 4 GiB is
  truncated onto low frames and frees reserved ones there (`region_start_frame`).
- `CopiesWholeMap` and `HandedOutIsLoaderRam` are asked of loaders that announce
  every field before the map (the finding `multiboot_no_mods` is the other case),
  whose map lies below the last page of the identity map and does not overlap the
  information structure, and, for the second, of a map of whole pages below 4 GiB.
- `EditedPagesCoherent` and `TablesPrivate` say nothing of what the processor has
  cached for a page no call was ever made for: that may be an old word of a table's
  frame, and may even name a page table, because the directory points to the new
  table (`paging.c:74`) before it is cleared (`:78`) and only the page mapped is
  invalidated (`:85`). `TlbCoherent`, which asks it of every page, fails in six steps
  after `paging_init`: a frame is taken, a call enters the table, the processor fills
  its TLB, the call makes its three other steps. The kernel does not access pages it has
  not mapped, and the call that maps such a page invalidates it.
- `keyboard_typing` assumes a user who does not type before `pic_init`, a keyboard
  without shift codes around extended keys (with `FakeShifts = TRUE` in its cfg
  `DecodesWhatWasTyped` fails: E0 AA clears the real shift) and whose Caps Lock does
  not repeat while it is held (`Repeating`): every make code toggles `caps_lock`.
- `kernel_main` keeps to sizes that do not wrap: for a size near 2^32,
  `size + sizeof(kheap_block_t)` wraps, `LiveBlocksFit` fails, and one just below
  wraps in the page count (`Sizes = {3, 286}` and `{282}` in the cfg show it).
- `SegmentsDecode` is asked of bases below 16 MiB: `create_descriptor` shifts the
  whole base into the low half, so bits 24 to 31 reach the access byte. The kernel
  uses base 0.
- `printf`'s result counts `%d`, `%x` and `%p` as one character, as `PrintfText`
  says, and does not check them or `%u` against `INT_MAX`.
- `pic_unmask` of a line above 7 does not unmask the cascade on line 2; the kernel
  unmasks line 1 only.

### Bounds

- Paging: tables of 6 entries, 16 frames, three client pages under two directory
  entries, and machines with no memory map or with 0 to 4 free frames, so each
  allocation can be the one that fails. At the index of each
  client page `Garbage` looks like a present entry: of the boot table, of a frame that
  becomes a page table, of the directory.
- Multiboot and Pmm: a "4 GiB" address space of 256 bytes with 16-byte pages and an
  identity map of 192, in which the structure has its real layout; room for 3 entries
  and maps of up to 4. All 128 combinations of flags, with surrounding words that stop
  the walk, make it stand still, go back or leave the map. Two arbitrary entries are
  enough for an overlap in either order. The bitmap has 8 frames, less than
  "4 GiB", so its capacity and the truncation to 32 bits are both met. The kernel covers
  frames 1 to 3 and ends inside a page. The theorems remove the bounds.
- KernelMain and KHeap: at most 4 pages of 8 bytes, all but the first under another directory
  entry, growth by 2 pages, headers of 4 bytes, and sizes that are zero, below the
  minimum block, exact, larger than a page and larger than the heap. The machines
  go from too small for `kheap_init` to more than the limit needs.
- Exceptions: words of 6 bits hold every page fault error code and the selectors;
  all registers differ. 21 vectors, 32 error codes for page faults, a mapped and an
  unmapped address. Formats are all pairs of 20 directives, with 0, the ends of the
  ranges and texts around `INT_MAX` = 31. Segments have their real width. Deadlock
  is not checked, because an exception halts the kernel on purpose.
- Keyboard: a buffer of 3 slots and at most `MaxEvents` = 4 key events, with five
  keys: a shift, Caps Lock, a letter, a sign and an extended key. Four presses
  overfill the buffer. Deadlock is not checked there, because the user may stop
  typing; `InputConsumed` covers what must not stop.

- Shell: 3 rows of 4 columns in a page of 14 cells, a prompt of one column and
  lines of up to 4 characters, so a full line wraps, and two commands scroll the
  screen. Deadlock is not checked, because `pfault` halts the kernel on purpose.

### Fairness

`KernelSpec` is weakly fair on the steps of `kernel_main` and of a call in
progress: nothing else runs on the processor and interrupt handlers return.
`BootSpec` and `ExcSpec` are weakly fair on the processor's next step for the same
reason; no event and no call need come. `FairSpec` of `Keyboard` is
weakly fair on the processor's instructions, on taking an interrupt that is
offered and on the controller passing a byte on; nothing makes the user type.

## Proofs

Eight modules hold theorems. Each states, for every value of its component's
constants, the inductive invariant, the invariants and action properties that the
runs check on a small instance, and the refinements.

| module | inductive invariant | theorems with a run's property |
|---|---|---|
| `PmmProofs` | `PmmInv`, `RamInv` | `PmmTypes`, `PmmFreeCount`, `PmmExclusive`, `PmmKernelSafe`, `PmmBitmapFollows`, `PmmHandsOutRam` |
| `MultibootProofs` | `BootInv` | `BootTypes`, `BootCopiesMap`, `BootHandsOutLoaderRam` |
| `PagingProofs` | `PagingInv` | `PagingEditedCoherent`, `PagingTablesPrivate`, `PagingFramesAccounted`, `PagingIsAddressSpace` |
| `KHeapProofs` | `HeapPagesInv`, `HeapListInv` | `HeapBacked`, `HeapStable`, `HeapIsClient`, `HeapTiled`, `HeapLiveFits`, `HeapTyped`, `HeapNullNoFit` |
| `KernelMainProofs` | `KernelInv`, with `HeapListInv` | `SelfTestsRelease`, `SelfTestsReport`, `HeapIsHandedOver`, `KernelHeapBacked`, `KernelHeapStable`, `KernelIsClient`, `KernelHeapTiled`, `KernelLiveFits`, `KernelHeapTyped`, `KernelNullNoFit` |
| `ExceptionsProofs` | `ExcInv`, `SegmentInv` | `HandlersFrame`, `InterruptsTransparent`, `SegmentsDecoded` |
| `KeyboardProofs` | `KbdInv`, `DecodeInv` | `KeyboardTypes`, `KeyboardNoLostWakeup`, `KeyboardIsQueue`, `KeyboardDecodes` |
| `ShellProofs` | `TypedInv`, `ScreenInv` | `ShellTypes`, `ShellExecutes`, `ShellCursor`, `ShellEcho` |

**Frame allocator.** For every page size, bitmap capacity (a multiple of 8 that
fits below 2^32), position of the kernel and memory map of any length. None of the
properties is inductive alone. `ExclusiveOwnership` needs that owned frames are
marked (`OwnedMarked`), so that the search of `pmm_alloc_frame` skips them;
`KernelNeverHandedOut` needs that reserved frames are marked once initialisation is
over and that nobody owns them, so that no free can clear them (`ReservedMarked`);
`FreeCountIsAllocatable` needs that the counter equals the number of bits below
`frame_count` throughout (`UsedCountExact`), also before the machine is ready,
where `memset` has set bits past the last frame. The counting rests on
`SetUsedExact`: on any set of frames `pmm_set_used` moves the counter by the number
of bits that really change. `RamInv` adds what the loop over the regions knows: a
bit is clear only where a region already visited is usable, so `HandedOutIsRam`
follows once the loop ends.

**Multiboot.** For every loader of `Loaders`, which is any set of memories.
`StorageInv` bounds the storage whatever memory the walk strays into. `WalkInv`
says, for a map that was announced and can be read, that the walk stands exactly at
the entry after those copied; it needs the arithmetic of `Word`, which finds the
entry and the field from an address by division. `KernelInv` carries `PmmInv` and
`RamInv` over `enter_kernel`, so the frames handed out are traced to the words the
loader wrote.

**Paging.** For every geometry and every content of RAM, with the TLB free to fill
and drop entries between any two writes of a call. Coherence and `TablesPrivate`
depend on each other: a store through the recursive window changes the intended
table only if the window is coherent (`WindowCoherent`), and the window and the
client's pages stay coherent only if the table written is no other page's
(`NewTables`, `NewTablesDiffer`, `OwnedKnown`). `CallInv` carries a call from one
write to the next; it says that no page ever written lies under a table that is not
yet cleared, so the processor cannot have fetched an old word for such a page, and
clearing the table takes nothing away from one. `EditedMaps` says that what is cached of a page
written before is right, or is the page the call has still to invalidate, and names a
frame of the client's. `ClientMaps` says the same of the tables, but for those not
yet cleared. `PagingTypesHold` states the types alone, which the invariant contains.
`PagingIsAddressSpace` shows each step to be a step of `AddressSpace` or a stutter
under `Maps`.

**Heap.** `HeapPagesInv` follows the pages: what `kheap_extend` has mapped beyond
`kheap_end` so far is backed as well, so a half-done extension can be abandoned or
finished. It holds for sizes that wrap too. `HeapListInv` needs `SmallRequests`
(no request wraps when header, alignment and a page are added; without it the
property is false, as said above). Its list part is a local condition on each block
and its neighbours, which `Absorb`, `kheap_split` and `Append_block` are each shown
to keep; `LiveInv` ties pointers to used blocks, `NeedInv` what the call in progress
asks for, and `ScanInv` says that the scan has passed no block that fits, which is
what makes NULL an honest answer. `HeapIsClient` and `PagingIsAddressSpace` compose:
what is proved of paging holds under the heap.

**kernel_main.** For every machine, the number of frames `pmm_init` found included.
The theorems of `KHeapProofs` are about a heap that is followed by any calls; here
the self-tests run first, with frames, a page and a page table of their own.
`KernelInv` adds three things to `HeapPagesInv`. `Accounts` says that every owned
frame is held by a test or the heap or is a page table, so the frames still free can
be counted from the constant set of frames the machine has (`Pool`). `Control`,
`TestInv` and `PassedInv` say what each test holds at each call, which gives
`SelfTestsRelease`. `HeapInv` follows the first extension of the heap page by page:
while it runs, the pages and tables taken so far are part of `Need`, so it gets
through exactly on a machine that is `Rich`, and after it the blocks of the heap test
stand at known addresses (`PtrA`, `PtrB`), both requests fit without another extension,
and `kfree` merges them back into one. That gives both directions of
`SelfTestsReport` and `HeapIsHandedOver`. The tests' sizes and the place of the
test page matter: `KernelMainPages` says that the test page is under another directory
entry than the heap (0xC1000000 and 0xC2000000) and that each and both of the test
blocks (64 and 128 bytes) fit in the first extension. The theorems on the block list
need `SmallRequests`, as in `KHeapProofs`.

**Exceptions and descriptors.** For any registers, stack, vectors, lines and error
codes. `TrapInv`, the core of `ExcInv`, says at every point of a trap which words
stand over the stack of the interrupted code: the processor's frame, the error code
or the 0 of the stub, the number, the saved registers. From it follow what a handler
finds in `registers_t` (`HandlersFrame`), and that the way back restores registers,
flags and stack (`InterruptsTransparent`). `TablesInv` says that a table is loaded
before an event can need it, which with the bits of each gate gives `GatesWork`: after
`idt_init` no event resets the machine. `SegmentsDecoded` goes through both
encoders of `gdt.c` bit by bit, for every base below 16 MiB, every limit and flags.
`ExceptionsNamed` is the part of `ReportTellsFault` in which no digits are printed.

**Keyboard.** For every buffer size and every set of keys, with interrupts between
any two instructions. `ControlInv` knows where interrupts are off and where the
`sti` shadow reaches, `LineInv` that a request stands for an unread byte, `HandInv`
that the slot `keyboard_getchar` has still to read is the one before `read_pos`,
which the handler cannot fill however often it runs first. From these follow `NoSleepWithInput` and the
refinement of `CharQueue`. `KeyboardDecodes` assumes `PlainKeyboard` (no fake
shifts, no repeating Caps Lock); `DecodeInv` says that the driver's modifiers, moved
over all bytes under way, arrive at the user's.

**Shell and terminal.** For every screen, line length, set of characters and
texts. `TypedInv` holds whatever is typed: the array holds what was typed, closed
by a NUL. The screen needs `PlainTexts`: no tab is typed and the kernel's texts hold
neither tab nor carriage return, as those of `shell.c` do not; with tabs the
property fails (run `shell_tab_at_margin`). `ScreenInv` says that the cursor is
where row and column say, that nothing stands after it, and that the prompt and the
line stand before it. `terminal_write` is a recursion over its text; `WriteKeeps`
and `PromptShown` are proved by induction on the length, for texts of any length,
through `NatInductionOnSet`, whose parameter is a set.

Assumptions on constants are those of the component modules: `PmmSizes`,
`PmmSymbols` (the linker script puts every symbol in the higher half and the
kernel's end above its start), `PmmInputs` (the types of the memory map),
`MultibootSizes`, `PagingSizes`, `BootTables`, `AnyGarbage` (a frame read as a
table holds frames of the machine or absent entries), `KHeapSizes`, `KeyboardSizes`,
`TtySizes`, `ShellSizes` (prompt and longest line fit on the screen but one row),
`ShellTexts`, `KernelMainPages` (above), `ExceptionConstants` (types of the
registers, vectors 0 to 31, lines 0 to 15, 32-bit descriptor requests).

Only model-checked: `PrintfText`, and `ReportTellsFault` for page faults. Both are
about the digits of numbers of any length, which `printf` makes in a loop; showing what
they spell is an induction over data, which the prover cannot do. Also the
liveness properties (`KmallocReturns`, `EarlyInitEnds`, `EventsAnswered`,
`InputConsumed`), which are beyond the prover, and the runs that find a disagreement.

## Not modelled

PROJECT.json gives the reason for each part. Left out are `strlen` and
`puts` (one loop or call without state), `memmove`, `memcpy`, `memcmp`, `abort`,
`setGdt` and `pic_mask` (no caller), the lines of the slave 8259 (masked for good), the code of
`boot.S` before paging is on (straight-line code on one processor), colours, and the
build, which is not part of the running system.

## Plan

1. (done) `Pmm` and its proofs, `AddressSpace`, `Paging`, `KHeap`, `Keyboard`,
   `Tty` and `Shell`.
2. (done) `Multiboot` before `Pmm`, `KernelMain` around the memory managers,
   `Libc`, `Descriptors` and `Exceptions`.
3. (done) Proofs: `Multiboot`, `Paging` and its refinement of `AddressSpace`, the
   heap, the keyboard and its refinement of `CharQueue`, the shell and the terminal.
4. (done) Proofs: `kernel_main` with its self-tests and the heap in its order of
   calls; traps, gates and descriptors.
