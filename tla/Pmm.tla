-------------------------------- MODULE Pmm --------------------------------
(***************************************************************************)
(* The physical frame allocator of kernel/mm/pmm.c.                        *)
(*                                                                         *)
(* The allocator's statics are the record pmm.  Its bitmap (one bit per    *)
(* frame, 1 = used) is the set of the frames whose bit is 1.  The          *)
(* functions of the file are operators from an allocator record to an      *)
(* allocator record, so that a caller (paging, heap) can chain several of  *)
(* them in one step.  The state machine below runs pmm_init over every     *)
(* memory map of MultibootInputs, one iteration of its loops per step, and *)
(* then lets a client allocate frames and return them in any order.        *)
(*                                                                         *)
(* The machine's sizes are CONSTANTS: U32 and U64 stand for 2^32 and 2^64  *)
(* and are where uintptr_t and uint64_t wrap.                              *)
(***************************************************************************)
EXTENDS Integers, FiniteSets, Sequences, FiniteSetsExt

CONSTANTS
  PMM_PAGE_SIZE,          \* bytes per frame (4096)
  PMM_MAX_FRAMES,         \* frames the bitmap has room for (32768)
  KIB,                    \* the unit of mem_upper (1024)
  U32, U64,               \* 2^32 and 2^64
  KERNEL_VIRTUAL_BASE,    \* 0xC0000000
  KERNEL_PHYSICAL_START,  \* 1 MiB, where GRUB loads the kernel
  Symbol,                 \* linker symbols: name -> virtual address
  MultibootInputs         \* what multiboot.c may have collected

ASSUME PmmSizes ==
  /\ PMM_PAGE_SIZE \in Nat \ {0}
  /\ PMM_MAX_FRAMES \in Nat \ {0}
  /\ PMM_MAX_FRAMES % 8 = 0
  /\ KIB \in Nat \ {0}
  /\ U32 \in Nat \ {0}
  /\ U64 \in Nat \ {0} /\ U32 <= U64
  /\ PMM_MAX_FRAMES * PMM_PAGE_SIZE <= U32
  /\ KERNEL_VIRTUAL_BASE \in Nat
  /\ KERNEL_PHYSICAL_START \in 0 .. U32 - 1
  /\ KERNEL_PHYSICAL_START % PMM_PAGE_SIZE = 0

(* linker.ld places every symbol in the higher half, the image at 1 MiB.   *)
ASSUME PmmSymbols ==
  LET Symbols == {"_kernel_end", "boot_page_directory", "boot_page_table1",
                  "stack_bottom", "stack_top", "pmm_bitmap"}
  IN  /\ Symbol \in [Symbols -> Nat]
      /\ \A s \in Symbols : Symbol[s] >= KERNEL_VIRTUAL_BASE
      /\ Symbol["_kernel_end"] > KERNEL_VIRTUAL_BASE + KERNEL_PHYSICAL_START

MultibootStatics ==
  [valid : BOOLEAN, mem_upper_kb : Nat, mmap : Seq([addr : Nat, len : Nat, type : Nat])]

ASSUME PmmInputs == MultibootInputs \subseteq MultibootStatics

VARIABLES
  multiboot,  \* the statics of multiboot.c, read through its getters
  pmm,        \* pmm_bitmap, pmm_frame_count, pmm_used_count
  init,       \* progress of pmm_init: its step and its local variables
  owners      \* owners[f]: outstanding hand-outs of frame f (history)

pmmVars == <<multiboot, pmm, init, owners>>

Frames == 0 .. PMM_MAX_FRAMES - 1

(***************************************************************************)
(* The helpers of pmm.c.                                                   *)
(***************************************************************************)
addr_to_frame(addr) == addr \div PMM_PAGE_SIZE

(* Mutant: the counter follows the calls instead of the bits.              *)
Bug_set_used(p, frames, used) ==
  LET known == {f \in frames : f < p.frame_count} IN
  IF used
  THEN [p EXCEPT !.bitmap = @ \cup known, !.used_count = @ + Cardinality(known)]
  ELSE [p EXCEPT !.bitmap = @ \ known, !.used_count = @ - Cardinality(known)]

(* pmm_set_used(frame, used) called for every frame of a set; frames       *)
(* outside the bitmap's range are ignored, and the counter follows only    *)
(* the bits that really change.                                            *)
pmm_set_used(p, frames, used) ==
  LET known == {f \in frames : f < p.frame_count} IN
  IF used
  THEN [p EXCEPT !.bitmap = @ \cup known,
                 !.used_count = @ + Cardinality(known \ p.bitmap)]
  ELSE [p EXCEPT !.bitmap = @ \ known,
                 !.used_count = @ - Cardinality(known \cap p.bitmap)]

virt_to_phys(virt) == virt - KERNEL_VIRTUAL_BASE

region_start_frame(addr) == addr_to_frame(addr % U32)

region_end_frame(addr, len) ==
  LET end == (addr + len) % U64 IN
  IF end = 0 THEN 0 ELSE addr_to_frame((end - 1) % U32) + 1

RegionFrames(addr, len) ==
  region_start_frame(addr) .. region_end_frame(addr, len) - 1

(* Mutant: everything that is not marked reserved is usable.               *)
Bug_region_usable(type) == type # 2

pmm_region_usable(type) == type \in {1, 3}

(* Mutant: the end is rounded down, so a last partial page is missed.      *)
Bug_reserve_region(start, end) ==
  IF end <= start THEN {} ELSE addr_to_frame(start) .. addr_to_frame(end) - 1

(* The frames pmm_reserve_region marks used for the bytes [start, end).    *)
pmm_reserve_region(start, end) ==
  IF end <= start THEN {}
  ELSE addr_to_frame(start) .. addr_to_frame(end + PMM_PAGE_SIZE - 1)

pmm_mark_highest(region_end, highest) ==
  IF region_end > highest THEN region_end ELSE highest

(* Mutant: the bitmap's capacity is not enforced.                          *)
Bug_frame_count(highest) == addr_to_frame(highest % U32) + 1

FrameCount(highest) ==
  LET count == addr_to_frame(highest % U32) + 1
  IN  IF count > PMM_MAX_FRAMES THEN PMM_MAX_FRAMES ELSE count

(* The frames the last part of pmm_init reserves: frame 0, the kernel      *)
(* image, the boot page tables, the boot stack and the bitmap itself.      *)
ReservedFrames ==
  LET phys(s) == virt_to_phys(Symbol[s]) IN
  {0} \cup pmm_reserve_region(KERNEL_PHYSICAL_START, phys("_kernel_end"))
      \cup pmm_reserve_region(phys("boot_page_directory"),
                              phys("boot_page_table1") + PMM_PAGE_SIZE)
      \cup pmm_reserve_region(phys("stack_bottom"), phys("stack_top"))
      \cup pmm_reserve_region(phys("pmm_bitmap"),
                              phys("pmm_bitmap") + PMM_MAX_FRAMES \div 8)

(***************************************************************************)
(* The interface: each function returns what it returns and the new        *)
(* allocator.  Address 0 is the null pointer.                              *)
(***************************************************************************)
Allocatable(p) == {f \in 1 .. p.frame_count - 1 : f \notin p.bitmap}

(* Mutant: the frame found is not marked used.                             *)
Bug_alloc_frame(p) ==
  IF Allocatable(p) = {} THEN [addr |-> 0, pmm |-> p]
  ELSE [addr |-> (Min(Allocatable(p)) * PMM_PAGE_SIZE) % U32, pmm |-> p]

pmm_alloc_frame(p) ==
  IF Allocatable(p) = {} THEN [addr |-> 0, pmm |-> p]
  ELSE LET frame == Min(Allocatable(p))
       IN  [addr |-> (frame * PMM_PAGE_SIZE) % U32,
            pmm  |-> pmm_set_used(p, {frame}, TRUE)]

(* Mutant: an unaligned address frees the frame it points into.            *)
Bug_free_frame(p, addr) ==
  IF addr = 0 THEN p ELSE pmm_set_used(p, {addr_to_frame(addr)}, FALSE)

pmm_free_frame(p, addr) ==
  IF addr = 0 \/ addr % PMM_PAGE_SIZE # 0 THEN p
  ELSE pmm_set_used(p, {addr_to_frame(addr)}, FALSE)

pmm_free_frames(p) ==
  IF p.frame_count < p.used_count THEN 0 ELSE p.frame_count - p.used_count

(***************************************************************************)
(* The state machine.                                                      *)
(***************************************************************************)
PmmStatics ==
  /\ pmm = [bitmap |-> {}, frame_count |-> 0, used_count |-> 0]
  /\ init = [step |-> "highest", i |-> 1, highest |-> 0, freed_any |-> FALSE]
  /\ owners = [f \in Frames |-> 0]

PmmInit == multiboot \in MultibootInputs /\ PmmStatics

(* Without a memory map pmm_init returns with the zeroed statics.          *)
pmm_init_invalid ==
  /\ init.step = "highest"
  /\ ~multiboot.valid
  /\ init' = [init EXCEPT !.step = "ready"]
  /\ UNCHANGED <<multiboot, pmm, owners>>

pmm_init_highest ==
  /\ init.step = "highest"
  /\ multiboot.valid
  /\ init.i <= Len(multiboot.mmap)
  /\ LET entry == multiboot.mmap[init.i] IN
     init' = [init EXCEPT !.i = @ + 1, !.highest =
                pmm_mark_highest((entry.addr + entry.len) % U64, @)]
  /\ UNCHANGED <<multiboot, pmm, owners>>

(* After the first loop: mem_upper, then everything is marked used.  The   *)
(* memset fills whole bytes, so it may set bits past the last frame.       *)
pmm_init_size ==
  /\ init.step = "highest"
  /\ multiboot.valid
  /\ init.i > Len(multiboot.mmap)
  /\ LET highest == IF multiboot.mem_upper_kb = 0 THEN init.highest
                    ELSE pmm_mark_highest(KERNEL_PHYSICAL_START
                           + multiboot.mem_upper_kb * KIB, init.highest)
         count   == FrameCount(highest)
     IN  /\ pmm' = [bitmap |-> 0 .. 8 * ((count + 7) \div 8) - 1,
                    frame_count |-> count, used_count |-> count]
         /\ init' = [init EXCEPT !.step = "regions", !.i = 1,
                                 !.highest = highest]
  /\ UNCHANGED <<multiboot, owners>>

pmm_init_region ==
  /\ init.step = "regions"
  /\ init.i <= Len(multiboot.mmap)
  /\ LET entry  == multiboot.mmap[init.i]
         usable == pmm_region_usable(entry.type)
     IN  /\ pmm' = pmm_set_used(pmm, RegionFrames(entry.addr, entry.len), ~usable)
         /\ init' = [init EXCEPT !.i = @ + 1, !.freed_any = @ \/ usable]
  /\ UNCHANGED <<multiboot, owners>>

(* After the loop: the mem_upper fallback when no region was usable, then  *)
(* the reservations.                                                       *)
pmm_init_reserve ==
  /\ init.step = "regions"
  /\ init.i > Len(multiboot.mmap)
  /\ LET fallback == ~init.freed_any /\ multiboot.mem_upper_kb # 0
         freed == IF fallback
                  THEN pmm_set_used(pmm, RegionFrames(KERNEL_PHYSICAL_START,
                                      multiboot.mem_upper_kb * KIB), FALSE)
                  ELSE pmm
     IN  pmm' = pmm_set_used(freed, ReservedFrames, TRUE)
  /\ init' = [init EXCEPT !.step = "ready"]
  /\ UNCHANGED <<multiboot, owners>>

(* A client takes a frame; a null answer changes nothing.                  *)
ClientAlloc ==
  /\ init.step = "ready"
  /\ LET r == pmm_alloc_frame(pmm) IN
     /\ pmm' = r.pmm
     /\ owners' = IF r.addr = 0 THEN owners
                  ELSE [owners EXCEPT ![addr_to_frame(r.addr)] = @ + 1]
  /\ UNCHANGED <<multiboot, init>>

(* A client returns a frame it holds, or passes an address that the        *)
(* function must ignore: null, or one that is not page aligned.            *)
ClientFree(addr) ==
  /\ init.step = "ready"
  /\ addr % PMM_PAGE_SIZE = 0 /\ addr # 0 => owners[addr_to_frame(addr)] > 0
  /\ pmm' = pmm_free_frame(pmm, addr)
  /\ owners' = IF addr % PMM_PAGE_SIZE = 0 /\ addr # 0
               THEN [owners EXCEPT ![addr_to_frame(addr)] = @ - 1] ELSE owners
  /\ UNCHANGED <<multiboot, init>>

PmmNext ==
  \/ pmm_init_invalid
  \/ pmm_init_highest
  \/ pmm_init_size
  \/ pmm_init_region
  \/ pmm_init_reserve
  \/ ClientAlloc
  \/ \E addr \in 0 .. PMM_MAX_FRAMES * PMM_PAGE_SIZE - 1 : ClientFree(addr)

PmmSpec == PmmInit /\ [][PmmNext]_pmmVars

(***************************************************************************)
(* Properties.                                                             *)
(***************************************************************************)
(* Types: the statics stay inside the bitmap's capacity.                   *)
PmmTypeOK ==
  /\ multiboot \in MultibootStatics
  /\ pmm \in [bitmap : SUBSET Frames, frame_count : 0 .. PMM_MAX_FRAMES,
              used_count : 0 .. PMM_MAX_FRAMES]
  /\ init \in [step : {"highest", "regions", "ready"}, i : Nat \ {0},
               highest : Nat, freed_any : BOOLEAN]
  /\ owners \in [Frames -> Nat]

(* pmm_free_frames(), which the shell's "mem" prints, is exactly the       *)
(* number of pmm_alloc_frame calls that will still succeed: the counter    *)
(* kept by pmm_set_used follows the bitmap through overlapping regions,    *)
(* frames marked twice, and every allocation and free.                     *)
FreeCountIsAllocatable ==
  init.step = "ready" => pmm_free_frames(pmm) = Cardinality(Allocatable(pmm))

(* A frame is never handed out twice, and a frame somebody holds is        *)
(* marked used inside the range pmm_alloc_frame searches.                  *)
ExclusiveOwnership ==
  \A f \in Frames : owners[f] # 0 =>
    owners[f] = 1 /\ f \in pmm.bitmap /\ f < pmm.frame_count

(* No frame holding a byte of the kernel image (and so of the boot page    *)
(* tables, stack and bitmap inside it), nor frame 0, is ever handed out,   *)
(* whatever the memory map claims about those addresses.                   *)
KernelNeverHandedOut ==
  \A f \in Frames : owners[f] # 0 =>
    /\ f # 0
    /\ \/ (f + 1) * PMM_PAGE_SIZE <= KERNEL_PHYSICAL_START
       \/ f * PMM_PAGE_SIZE >= virt_to_phys(Symbol["_kernel_end"])

(* Once initialised, a bit changes exactly when the owner of that frame    *)
(* does: pmm_alloc_frame and pmm_free_frame touch no other frame, and an   *)
(* ignored address touches none.                                           *)
BitmapFollowsOwners ==
  [][init.step = "ready" =>
      \A f \in Frames : (f \in pmm.bitmap) # (f \in pmm'.bitmap)
                          <=> owners'[f] # owners[f]]_pmmVars

(* The bytes a map declares usable: its regions of type 1 and 3, or those  *)
(* above 1 MiB within mem_upper when it has none.                          *)
UsableRam(mmap, mem_upper_kb) ==
  LET usable == {k \in DOMAIN mmap : mmap[k].type \in {1, 3}}
  IN  IF usable # {}
      THEN UNION {mmap[k].addr .. mmap[k].addr + mmap[k].len - 1 : k \in usable}
      ELSE KERNEL_PHYSICAL_START ..
             KERNEL_PHYSICAL_START + mem_upper_kb * KIB - 1

PageAligned(mmap) ==
  \A k \in DOMAIN mmap : mmap[k].addr % PMM_PAGE_SIZE = 0
                         /\ mmap[k].len % PMM_PAGE_SIZE = 0

WholePages(mem_upper_kb) == (mem_upper_kb * KIB) % PMM_PAGE_SIZE = 0

EndsBelow(mmap, limit) == \A k \in DOMAIN mmap : mmap[k].addr + mmap[k].len < limit

(* With page-aligned regions below 4 GiB, and mem_upper in whole pages,    *)
(* every byte of a frame handed out lies in RAM the map declares usable:   *)
(* pmm_init frees nothing else, whatever the order of the regions and      *)
(* however they overlap.                                                   *)
HandedOutIsRam ==
  PageAligned(multiboot.mmap) /\ EndsBelow(multiboot.mmap, U32)
    /\ WholePages(multiboot.mem_upper_kb) =>
    \A f \in Frames : owners[f] # 0 =>
      f * PMM_PAGE_SIZE .. (f + 1) * PMM_PAGE_SIZE - 1
        \subseteq UsableRam(multiboot.mmap, multiboot.mem_upper_kb)

(* pmm_init sizes the allocator by the highest end of all regions, up to   *)
(* the bitmap's capacity: no region below that capacity is left out.       *)
SizedByHighestEnd ==
  init.step = "ready" /\ multiboot.valid =>
    \A k \in DOMAIN multiboot.mmap :
      LET end == multiboot.mmap[k].addr + multiboot.mmap[k].len
      IN  pmm.frame_count * PMM_PAGE_SIZE >=
            Min({end, PMM_MAX_FRAMES * PMM_PAGE_SIZE})
=============================================================================
