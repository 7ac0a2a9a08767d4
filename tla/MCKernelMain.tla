---------------------------- MODULE MCKernelMain ----------------------------
(***************************************************************************)
(* The machine of MCKHeap with a test page under a directory entry of its  *)
(* own, and from no memory at all to more than the largest heap needs.     *)
(***************************************************************************)
EXTENDS KernelMain

MCSymbol ==
  [_kernel_end |-> 48 + 38, boot_page_directory |-> 48 + 16,
   boot_page_table1 |-> 48 + 24, stack_bottom |-> 48 + 32,
   stack_top |-> 48 + 36, pmm_bitmap |-> 48 + 36]

Ram(frames) ==
  [valid |-> TRUE, mem_upper_kb |-> 0,
   mmap |-> <<[addr |-> 0, len |-> 8, type |-> 1],
              [addr |-> 16, len |-> 8 * (frames - 2), type |-> 1]>>]

Machines ==
  {Ram(n) : n \in {6, 7, 8, 9, 10, 11, 12, 15}}
    \cup {[valid |-> FALSE, mem_upper_kb |-> 0, mmap |-> <<>>]}

MCClientPages == (17 .. 20) \cup {24}
=============================================================================
