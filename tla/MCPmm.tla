------------------------------- MODULE MCPmm -------------------------------
(***************************************************************************)
(* Small machines for Pmm: 4-byte pages, a 64-byte "4 GiB" physical        *)
(* address space, a bitmap of 8 frames, the kernel in frames 1 to 3.      *)
(***************************************************************************)
EXTENDS Pmm

MCSymbol ==
  [_kernel_end |-> 48 + 13, boot_page_directory |-> 48 + 4,
   boot_page_table1 |-> 48 + 8, stack_bottom |-> 48 + 5,
   stack_top |-> 48 + 7, pmm_bitmap |-> 48 + 10]

(* A machine with RAM below 1 MiB and above, a reserved hole, and a        *)
(* reserved region (the firmware ROM) that ends exactly at 4 GiB.          *)
RomMaps ==
  {[valid |-> TRUE, mem_upper_kb |-> 20,
    mmap |-> <<[addr |-> 0, len |-> 24, type |-> 1],
               [addr |-> 60, len |-> 4, type |-> 2]>>]}
=============================================================================
