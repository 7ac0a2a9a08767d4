------------------------------ MODULE MCKHeap ------------------------------
(***************************************************************************)
(* A small machine for KHeap: that of MCPaging, with a heap of at most 4   *)
(* pages, all but the first under the next directory entry, headers of 4   *)
(* bytes and an alignment of 2.                                            *)
(***************************************************************************)
EXTENDS KHeap

MCSymbol ==
  [_kernel_end |-> 48 + 38, boot_page_directory |-> 48 + 16,
   boot_page_table1 |-> 48 + 24, stack_bottom |-> 48 + 32,
   stack_top |-> 48 + 36, pmm_bitmap |-> 48 + 36]

Ram(frames) ==
  [valid |-> TRUE, mem_upper_kb |-> 0,
   mmap |-> <<[addr |-> 0, len |-> 8, type |-> 1],
              [addr |-> 16, len |-> 8 * (frames - 2), type |-> 1]>>]

(* From not enough for kheap_init to more than the largest heap needs.     *)
Machines == {Ram(n) : n \in {8, 9, 10, 11, 14}}

MCClientPages == 17 .. 20
=============================================================================
