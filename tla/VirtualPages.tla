---------------------------- MODULE VirtualPages ----------------------------
(***************************************************************************)
(* The geometry of the i386 two-level page tables as kernel/mm/paging.c    *)
(* and boot.S use it, and what their callers map.  A virtual address is    *)
(* its page number: the offset in the page plays no part.                  *)
(***************************************************************************)
EXTENDS Pmm

CONSTANTS
  ENTRIES,      \* entries of a page directory or page table (1024)
  VGA_FRAME,    \* the frame of the text buffer, 0xB8000
  ClientPages   \* the virtual pages callers map: 0xC1000000, the heap

REC == ENTRIES - 1      \* RECURSIVE_PD_INDEX
KERNEL_PDE == KERNEL_VIRTUAL_BASE \div (ENTRIES * PMM_PAGE_SIZE)

pde_idx(v) == v \div ENTRIES
pte_idx(v) == v % ENTRIES

Index == 0 .. ENTRIES - 1
Pages == 0 .. ENTRIES * ENTRIES - 1
SpacePages == {v \in Pages : pde_idx(v) # REC}
NotMapped == -1         \* an entry whose PRESENT bit is clear

(* boot_page_table1 as boot.S fills it: the first frames of memory one to  *)
(* one, and the text buffer in the last entry.                             *)
BootTable == [i \in Index |-> IF i = ENTRIES - 1 THEN VGA_FRAME ELSE i]

ASSUME PagingSizes ==
  /\ ENTRIES \in Nat /\ ENTRIES > 2
  /\ ENTRIES - 1 <= PMM_MAX_FRAMES
  /\ VGA_FRAME \in Frames
  /\ KERNEL_PDE \in 1 .. REC - 1
  /\ ClientPages \subseteq {v \in SpacePages : pde_idx(v) # KERNEL_PDE}

PmmBoot ==
  \/ pmm_init_invalid
  \/ pmm_init_highest
  \/ pmm_init_size
  \/ pmm_init_region
  \/ pmm_init_reserve
=============================================================================
