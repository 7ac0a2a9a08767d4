------------------------------ MODULE MCPaging ------------------------------
(***************************************************************************)
(* A small machine for Paging: 8-byte pages, tables of 6 entries, a kernel *)
(* in frames 2 to 4 (directory, boot table, the rest), the text buffer in  *)
(* frame 1, and RAM that leaves a few frames from frame 6 on.              *)
(***************************************************************************)
EXTENDS Paging

MCSymbol ==
  [_kernel_end |-> 48 + 38, boot_page_directory |-> 48 + 16,
   boot_page_table1 |-> 48 + 24, stack_bottom |-> 48 + 32,
   stack_top |-> 48 + 36, pmm_bitmap |-> 48 + 36]

Ram(frames) ==
  [valid |-> TRUE, mem_upper_kb |-> 0,
   mmap |-> <<[addr |-> 0, len |-> 8, type |-> 1],
              [addr |-> 16, len |-> 8 * (frames - 2), type |-> 1]>>]

(* No frame, one, ... free after pmm_init.                                 *)
SmallMachines == {[valid |-> FALSE, mem_upper_kb |-> 0, mmap |-> <<>>]}
                   \cup {Ram(n) : n \in 6 .. 10}

(* Two pages under one directory entry, one under the next.                *)
MCClientPages == {16, 17, 18}

(* RAM that looks like entries: of the boot table, of a frame that will be *)
(* a page table, of the directory.                                         *)
MCGarbage == [i \in Index |-> CASE i = 0 -> PT1
                                 [] i = 4 -> 7
                                 [] i = 5 -> PD
                                 [] OTHER -> NotMapped]
=============================================================================
