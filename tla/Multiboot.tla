----------------------------- MODULE Multiboot -----------------------------
(***************************************************************************)
(* From the boot loader to the frame allocator: boot.S calls               *)
(* multiboot_early_init (kernel/mm/multiboot.c) while the first 4 MiB are  *)
(* still identity-mapped, drops that map and enters kernel_main, where     *)
(* pmm_init reads what was collected.                                      *)
(*                                                                         *)
(* loader is what the boot loader left in memory, by the layout of the     *)
(* Multiboot information structure, whose fields have fixed offsets.       *)
(* Word reads that memory; every word the loader did not write is          *)
(* loader.other.  The walk over the memory map is one step per entry.      *)
(* Nothing handles a page fault this early: it resets the machine.         *)
(***************************************************************************)
EXTENDS Pmm

CONSTANTS
  MAX_MMAP_ENTRIES,            \* room in mmap_storage (64)
  IDENTITY_MAP_LIMIT,          \* 4 MiB
  MULTIBOOT_BOOTLOADER_MAGIC,
  Loaders                      \* what boot loaders may leave behind

ASSUME MultibootSizes ==
  /\ MAX_MMAP_ENTRIES \in Nat \ {0}
  /\ PMM_PAGE_SIZE >= 4
  /\ IDENTITY_MAP_LIMIT \in PMM_PAGE_SIZE .. U32
  /\ \A l \in Loaders :
       /\ {l.info, l.mmap_addr, l.entry_size, l.flags, l.mem_upper, l.other}
            \subseteq 0 .. U32 - 1
       /\ l.entry_size >= 20
       /\ l.mmap \in Seq([addr : 0 .. U64 - 1, len : 0 .. U64 - 1, type : 0 .. U32 - 1])

VARIABLES
  loader,  \* the boot loader's registers and memory
  boot     \* progress of boot.S and the locals of multiboot_early_init

bootVars == <<loader, boot, pmmVars>>

(***************************************************************************)
(* The loader's memory.                                                    *)
(***************************************************************************)
Bit(word, k) == (word \div 2 ^ k) % 2 = 1

EntryBytes(l) == l.entry_size + 4

(* The page tables of boot.S map the last page to the VGA text buffer.     *)
InVgaPage(a) == a >= IDENTITY_MAP_LIMIT - PMM_PAGE_SIZE

Word(l, a) ==
  LET k     == (a - l.mmap_addr) \div EntryBytes(l) + 1
      field == ((a - l.mmap_addr) % EntryBytes(l)) \div 4 + 1
      e     == l.mmap[k]
  IN  IF InVgaPage(a) THEN l.other ELSE
      CASE a = l.info      -> l.flags
        [] a = l.info + 8  -> l.mem_upper
        [] a = l.info + 44 -> Len(l.mmap) * EntryBytes(l)
        [] a = l.info + 48 -> l.mmap_addr
        [] k \in DOMAIN l.mmap /\ field <= 6 ->
             <<l.entry_size, e.addr % U32, e.addr \div U32,
               e.len % U32, e.len \div U32, e.type>>[field]
        [] OTHER -> l.other

(***************************************************************************)
(* multiboot.c.                                                            *)
(***************************************************************************)
multiboot_ptr_in_identity_map(phys) == phys # 0 /\ phys < IDENTITY_MAP_LIMIT

FlagBit == [memory |-> 0, bootdev |-> 1, cmdline |-> 2, mods |-> 3,
            aout_syms |-> 4, elf_shdr |-> 5, mmap |-> 6]

(* The size of a field of the structure, which is there if its flag is.    *)
Field(flags, f, bytes) == IF Bit(flags, FlagBit[f]) THEN bytes ELSE 0

(* Mutant: an ELF section table is not accounted for.                      *)
Bug_fields_offset(flags) ==
  4 + Field(flags, "memory", 8) + Field(flags, "bootdev", 4) + Field(flags, "cmdline", 4)
    + Field(flags, "mods", 8) + Field(flags, "aout_syms", 16)

multiboot_mmap_fields_offset(flags) ==
  4 + Field(flags, "memory", 8) + Field(flags, "bootdev", 4) + Field(flags, "cmdline", 4)
    + Field(flags, "mods", 8) + Field(flags, "aout_syms", 16) + Field(flags, "elf_shdr", 16)

(* The statics before and after an unsuccessful multiboot_early_init.      *)
NoMap(mem_upper_kb) ==
  [valid |-> FALSE, mem_upper_kb |-> mem_upper_kb, mmap |-> <<>>]

BootInit ==
  /\ multiboot = NoMap(0)
  /\ PmmStatics
  /\ loader \in Loaders
  /\ boot = [pc |-> "start", mmap_addr |-> 0, mmap_length |-> 0, offset |-> 0]

Faults(last_word) == last_word >= IDENTITY_MAP_LIMIT

(* multiboot_early_init up to its loop: the structure is read only if the  *)
(* magic and its address are right, the map only if its flag is set.       *)
multiboot_early_init ==
  /\ boot.pc = "start"
  /\ LET info   == loader.info
         flags  == Word(loader, info)
         at     == info + multiboot_mmap_fields_offset(flags)
         walk   == [pc |-> "walk", mmap_length |-> Word(loader, at),
                    mmap_addr |-> Word(loader, at + 4), offset |-> 0]
         usable == /\ loader.magic = MULTIBOOT_BOOTLOADER_MAGIC
                   /\ multiboot_ptr_in_identity_map(info)
         memory == usable /\ Bit(flags, FlagBit["memory"])
         mmap   == usable /\ Bit(flags, FlagBit["mmap"])
     IN  /\ multiboot' = NoMap(IF memory THEN Word(loader, info + 8) ELSE 0)
         /\ boot' = IF (memory /\ Faults(info + 8)) \/ (mmap /\ Faults(at + 4))
                    THEN [boot EXCEPT !.pc = "reset"]
                    ELSE IF mmap /\ multiboot_ptr_in_identity_map(walk.mmap_addr)
                    THEN walk
                    ELSE [boot EXCEPT !.pc = "return"]
  /\ UNCHANGED <<loader, pmm, init, owners>>

entry_phys == (boot.mmap_addr + boot.offset) % U32

(* Mutant: the storage's size is not checked.                              *)
Bug_MoreEntries == boot.offset < boot.mmap_length

MoreEntries ==
  boot.offset < boot.mmap_length /\ Len(multiboot.mmap) < MAX_MMAP_ENTRIES

EntryParses ==
  multiboot_ptr_in_identity_map(entry_phys) /\ Word(loader, entry_phys) >= 20

multiboot_parse_mmap_entry ==
  [addr |-> Word(loader, entry_phys + 4) + U32 * Word(loader, entry_phys + 8),
   len  |-> Word(loader, entry_phys + 12) + U32 * Word(loader, entry_phys + 16),
   type |-> Word(loader, entry_phys + 20)]

(* Mutant: the size field itself is not skipped.                           *)
Bug_NextOffset == (boot.offset + Word(loader, entry_phys)) % U32

NextOffset == (boot.offset + Word(loader, entry_phys) + 4) % U32

(* Mutant: the count of entries is not advanced.                           *)
Bug_Store(mmap, entry) == <<entry>>

Store(mmap, entry) == Append(mmap, entry)

(* One iteration of the loop.                                              *)
early_init_entry ==
  /\ boot.pc = "walk" /\ MoreEntries /\ EntryParses
  /\ IF Faults(entry_phys + 20)
     THEN boot' = [boot EXCEPT !.pc = "reset"] /\ UNCHANGED multiboot
     ELSE /\ multiboot' = [multiboot EXCEPT !.mmap =
                             Store(@, multiboot_parse_mmap_entry)]
          /\ boot' = [boot EXCEPT !.offset = NextOffset]
  /\ UNCHANGED <<loader, pmm, init, owners>>

early_init_return ==
  /\ boot.pc = "walk" /\ ~(MoreEntries /\ EntryParses)
  /\ multiboot' = [multiboot EXCEPT !.valid = multiboot.mmap # <<>>]
  /\ boot' = [boot EXCEPT !.pc = "return"]
  /\ UNCHANGED <<loader, pmm, init, owners>>

(* Back in boot.S: the identity map goes, kernel_main runs.                *)
enter_kernel ==
  /\ boot.pc = "return"
  /\ boot' = [boot EXCEPT !.pc = "kernel"]
  /\ UNCHANGED <<loader, pmmVars>>

KernelStep == boot.pc = "kernel" /\ PmmNext /\ UNCHANGED <<loader, boot>>

EarlyStep ==
  \/ multiboot_early_init
  \/ early_init_entry
  \/ early_init_return
  \/ enter_kernel

BootNext == EarlyStep \/ KernelStep

(* The processor runs the start-up code without interruption.              *)
BootSpec == BootInit /\ [][BootNext]_bootVars /\ WF_bootVars(EarlyStep)

(***************************************************************************)
(* Properties.                                                             *)
(***************************************************************************)
(* Types; whatever memory the walk strays into, what it collects fits      *)
(* mmap_storage and the structure is only valid with an entry in it.       *)
BootTypeOK ==
  /\ boot.pc \in {"start", "walk", "return", "kernel", "reset"}
  /\ boot.offset \in 0 .. U32 - 1
  /\ Len(multiboot.mmap) <= MAX_MMAP_ENTRIES
  /\ multiboot.valid => multiboot.mmap # <<>>

MapEnd == loader.mmap_addr + Len(loader.mmap) * EntryBytes(loader)

(* The loader announced a map and left it, with the structure, in the part *)
(* of the identity map that is memory, one beside the other.               *)
MapGiven ==
  /\ loader.magic = MULTIBOOT_BOOTLOADER_MAGIC
  /\ Bit(loader.flags, FlagBit["mmap"])
  /\ loader.info # 0 /\ ~InVgaPage(loader.info + 48)
  /\ loader.mmap_addr # 0
  /\ ~InVgaPage(MapEnd - 4)
  /\ loader.info + 52 <= loader.mmap_addr \/ MapEnd <= loader.info

(* It also announced every field that comes before the map.                *)
AllFieldsGiven ==
  /\ \A f \in {"memory", "bootdev", "cmdline", "mods"} : Bit(loader.flags, FlagBit[f])
  /\ Bit(loader.flags, FlagBit["aout_syms"]) # Bit(loader.flags, FlagBit["elf_shdr"])

(* The kernel starts with exactly the loader's map, up to the entries that *)
(* fit, and the machine was not reset.                                     *)
LoaderMapCopied ==
  /\ boot.pc # "reset"
  /\ boot.pc = "kernel" =>
       /\ multiboot.mmap = SubSeq(loader.mmap, 1, Min({Len(loader.mmap), MAX_MMAP_ENTRIES}))
       /\ multiboot.valid = (loader.mmap # <<>>)

(* boot.S says it copies the map of the boot loader: so it does, with      *)
(* entries of any size, when the loader announced every optional field     *)
(* before it, and mem_upper as well.                                       *)
CopiesWholeMap ==
  MapGiven /\ AllFieldsGiven =>
    /\ LoaderMapCopied
    /\ boot.pc = "kernel" => multiboot.mem_upper_kb = loader.mem_upper

(* The same for every loader that gives a map.                             *)
CopiesAnyMap == MapGiven => LoaderMapCopied

(* multiboot_early_init ends, also when the words it takes for sizes lead  *)
(* it around in circles.                                                   *)
EarlyInitEnds == <>(boot.pc \in {"kernel", "reset"})

(* From the loader to a client of the allocator: every frame handed out is *)
(* memory the loader called usable, for a page-aligned map below 4 GiB     *)
(* that fits mmap_storage and a mem_upper in whole pages.                  *)
HandedOutIsLoaderRam ==
  MapGiven /\ AllFieldsGiven /\ Len(loader.mmap) \in 1 .. MAX_MMAP_ENTRIES
    /\ PageAligned(loader.mmap) /\ WholePages(loader.mem_upper)
    /\ EndsBelow(loader.mmap, U32) =>
    \A f \in Frames : owners[f] # 0 =>
      f * PMM_PAGE_SIZE .. (f + 1) * PMM_PAGE_SIZE - 1
        \subseteq UsableRam(loader.mmap, loader.mem_upper)
=============================================================================
