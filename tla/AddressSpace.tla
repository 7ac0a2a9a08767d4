---------------------------- MODULE AddressSpace ----------------------------
(***************************************************************************)
(* What kernel/mm/paging.c promises its callers: a map from virtual pages  *)
(* to frames in which a call changes the page it was asked about and no    *)
(* other.  The one thing the caller still sees of the page tables is that  *)
(* the first page mapped under a directory entry costs a frame, and may    *)
(* fail for want of one.                                                   *)
(*                                                                         *)
(* The caller of the model is any kernel code that follows the rules the   *)
(* comments of paging.c state: it maps frames pmm_alloc_frame gave it, and *)
(* gives a frame back only when no page maps it any more.                  *)
(***************************************************************************)
EXTENDS VirtualPages

VARIABLES
  space,   \* page -> frame, or NotMapped
  tables,  \* the directory entries that have a page table
  held     \* frames pmm_alloc_frame gave the client and it did not return

asVars == <<pmmVars, space, tables, held>>

(* After boot.S: the identity map of entry 0 is gone before kernel_main.    *)
ASInit ==
  /\ PmmInit
  /\ space = [v \in SpacePages |-> IF pde_idx(v) = KERNEL_PDE
                                   THEN BootTable[pte_idx(v)] ELSE NotMapped]
  /\ tables = {KERNEL_PDE}
  /\ held = {}

ASBoot == PmmBoot /\ UNCHANGED <<space, tables, held>>

(* The client calls pmm_alloc_frame and pmm_free_frame.                    *)
TakeFrame ==
  /\ ClientAlloc
  /\ held' = held \cup {f \in Frames : owners'[f] > owners[f]}
  /\ UNCHANGED <<space, tables>>

GiveFrame(f) ==
  /\ \A v \in ClientPages : space[v] # f
  /\ ClientFree(f * PMM_PAGE_SIZE)
  /\ held' = held \ {f}
  /\ UNCHANGED <<space, tables>>

(* A failed call (no memory for the table, unaligned phys) is a stutter.   *)
ASMap(v, f) ==
  /\ init.step = "ready"
  /\ IF pde_idx(v) \in tables THEN UNCHANGED pmmVars
     ELSE Allocatable(pmm) # {} /\ ClientAlloc
  /\ space' = [space EXCEPT ![v] = f]
  /\ tables' = tables \cup {pde_idx(v)}
  /\ UNCHANGED held

ASUnmap(v) ==
  /\ init.step = "ready"
  /\ space' = [space EXCEPT ![v] = NotMapped]
  /\ UNCHANGED <<pmmVars, tables, held>>

ASNext ==
  \/ ASBoot
  \/ TakeFrame
  \/ \E f \in held : GiveFrame(f)
  \/ \E v \in ClientPages, f \in held : ASMap(v, f)
  \/ \E v \in ClientPages : ASUnmap(v)

ASSpec == ASInit /\ [][ASNext]_asVars
=============================================================================
