------------------------------- MODULE Paging -------------------------------
(***************************************************************************)
(* The page tables of kernel/mm/paging.c and the processor that reads      *)
(* them.                                                                   *)
(*                                                                         *)
(* mem gives every frame's content read as a table: an entry is the frame  *)
(* it points to, or NotMapped when its PRESENT bit is clear.  A frame that *)
(* is not a table holds Garbage: RAM is not zero at boot, and the client   *)
(* writes what it likes in the pages it maps.  The page tables are reached *)
(* as the code reaches them, through the recursive slot of the directory   *)
(* and the translation the processor has cached, if any.                   *)
(*                                                                         *)
(* The TLB caches present translations only, when it likes, also of pages  *)
(* nobody accesses, and drops them when it likes or on invlpg (external:   *)
(* Intel SDM vol. 3, 4.10).  So a call is cut where it writes an entry:    *)
(* between two of its writes the processor may read the tables.  Nothing   *)
(* else runs during a call, since no interrupt handler uses memory.        *)
(***************************************************************************)
EXTENDS VirtualPages

CONSTANT Garbage   \* RAM that is no table, read as one

VARIABLES
  mem,      \* the content of the frames
  tlb,      \* the translations the processor has cached
  held,     \* the frames the client was given
  call,     \* where paging.c is, the page it was called for, the new entry
  edited    \* the pages whose entry a call has written (history)

pagingVars == <<pmmVars, mem, tlb, held, call, edited>>

PD  == addr_to_frame(virt_to_phys(Symbol["boot_page_directory"]))
PT1 == addr_to_frame(virt_to_phys(Symbol["boot_page_table1"]))

(* boot.S lays the table after the directory, inside the pages it maps.    *)
ASSUME BootTables ==
  /\ Symbol["boot_page_table1"] = Symbol["boot_page_directory"] + PMM_PAGE_SIZE
  /\ PT1 < ENTRIES - 1

ASSUME AnyGarbage == Garbage \in [Index -> Frames \cup {NotMapped}]

EmptyTable == [i \in Index |-> NotMapped]

(***************************************************************************)
(* The processor.                                                          *)
(***************************************************************************)
Walk(m, v) ==
  LET table == m[PD][pde_idx(v)]
  IN  IF table = NotMapped THEN NotMapped ELSE m[table][pte_idx(v)]

(* The frame an access to page v reaches, NotMapped for a page fault.      *)
Access(m, v) == IF tlb[v] # NotMapped THEN tlb[v] ELSE Walk(m, v)

CpuPages == ClientPages \cup {REC * ENTRIES + pde_idx(v) : v \in ClientPages}

CpuFill(v) ==
  /\ Walk(mem, v) # NotMapped
  /\ tlb' = [tlb EXCEPT ![v] = Walk(mem, v)]
  /\ UNCHANGED <<pmmVars, mem, held, call, edited>>

CpuEvict(v) ==
  /\ tlb[v] # NotMapped
  /\ tlb' = [tlb EXCEPT ![v] = NotMapped]
  /\ UNCHANGED <<pmmVars, mem, held, call, edited>>

(* Mutant: forgets to invalidate.                                          *)
Bug_invlpg(t, v) == t

invlpg(t, v) == [t EXCEPT ![v] = NotMapped]

(***************************************************************************)
(* paging.c                                                                *)
(***************************************************************************)
Call(pc, v, entry) == [pc |-> pc, v |-> v, entry |-> entry]
NoCall == Call("idle", 0, NotMapped)
Idle == call.pc = "idle"

(* boot.S up to the call of kernel_main: one table, entered at the higher  *)
(* half; entry 0 has been cleared and cr3 reloaded.                        *)
PagingInit ==
  /\ PmmInit
  /\ mem = [f \in Frames |->
       CASE f = PD  -> [EmptyTable EXCEPT ![KERNEL_PDE] = PT1]
         [] f = PT1 -> BootTable
         [] OTHER   -> Garbage]
  /\ tlb = [v \in Pages |-> NotMapped]
  /\ held = {}
  /\ call = NoCall
  /\ edited = {}

PagingBoot == PmmBoot /\ UNCHANGED <<mem, tlb, held, call, edited>>

paging_init ==
  /\ init.step = "ready"
  /\ mem[PD][REC] = NotMapped
  /\ mem' = [mem EXCEPT ![PD][REC] = PD]
  /\ UNCHANGED <<pmmVars, tlb, held, call, edited>>

PagingReady == Idle /\ init.step = "ready" /\ mem[PD][REC] # NotMapped

(* The frame the pointer page_table_virt(pde) reaches.                     *)
page_table_virt(m, pde) == Access(m, REC * ENTRIES + pde)

(* Mutant: the new table is not cleared.                                   *)
Bug_memset_table(m, f) == m

memset_table(m, f) == [m EXCEPT ![f] = EmptyTable]

(* Mutant: a frame for the table is allocated on every call.               *)
Bug_has_table(pde) == FALSE

has_table(pde) == mem[PD][pde] # NotMapped

pte(phys) == addr_to_frame(phys)

(* Up to the store of the directory entry, if there is no table yet.       *)
paging_map_page(v, phys) ==
  /\ PagingReady
  /\ phys % PMM_PAGE_SIZE = 0
  /\ \/ /\ has_table(pde_idx(v))
        /\ call' = Call("store", v, pte(phys))
        /\ UNCHANGED <<pmmVars, mem>>
     \/ /\ ~has_table(pde_idx(v))
        /\ pmm_alloc_frame(pmm).addr # 0
        /\ ClientAlloc
        /\ mem' = [mem EXCEPT ![PD][pde_idx(v)] =
                                 addr_to_frame(pmm_alloc_frame(pmm).addr)]
        /\ call' = Call("memset", v, pte(phys))
  /\ UNCHANGED <<tlb, held, edited>>

(* The new table is cleared.  In one step: the processor reads each of its *)
(* words before or after its own store, and so before or after the step.   *)
paging_clear_table ==
  /\ call.pc = "memset"
  /\ mem' = memset_table(mem, page_table_virt(mem, pde_idx(call.v)))
  /\ call' = [call EXCEPT !.pc = "store"]
  /\ UNCHANGED <<pmmVars, tlb, held, edited>>

(* pt[pte_idx] is written ...                                              *)
paging_store_entry ==
  /\ call.pc = "store"
  /\ mem' = [mem EXCEPT ![page_table_virt(mem, pde_idx(call.v))][pte_idx(call.v)] =
                           call.entry]
  /\ call' = [call EXCEPT !.pc = "invlpg"]
  /\ UNCHANGED <<pmmVars, tlb, held, edited>>

(* ... the page invalidated, and the call returns.                         *)
paging_return ==
  /\ call.pc = "invlpg"
  /\ tlb' = invlpg(tlb, call.v)
  /\ edited' = edited \cup {call.v}
  /\ call' = NoCall
  /\ UNCHANGED <<pmmVars, mem, held>>

(* The call returns false and changes nothing.                             *)
paging_map_page_fails(v, phys) ==
  /\ PagingReady
  /\ \/ phys % PMM_PAGE_SIZE # 0
     \/ ~has_table(pde_idx(v)) /\ pmm_alloc_frame(pmm).addr = 0
  /\ UNCHANGED pagingVars

(* Without a table there is nothing to do.                                 *)
paging_unmap_page(v) ==
  /\ PagingReady
  /\ call' = IF has_table(pde_idx(v)) THEN Call("store", v, NotMapped) ELSE call
  /\ UNCHANGED <<pmmVars, mem, tlb, held, edited>>

(* The physical address, 0 when a PRESENT bit on the way is clear.         *)
paging_get_physical(v) ==
  IF ~has_table(pde_idx(v)) THEN 0
  ELSE LET entry == mem[page_table_virt(mem, pde_idx(v))][pte_idx(v)]
       IN  IF entry = NotMapped THEN 0 ELSE entry * PMM_PAGE_SIZE

(***************************************************************************)
(* The client, as in AddressSpace, which also stores to the pages it has   *)
(* mapped.  It learns from paging_get_physical which frame a page maps.    *)
(***************************************************************************)
TakeFrame ==
  /\ Idle
  /\ ClientAlloc
  /\ held' = held \cup {f \in Frames : owners'[f] > owners[f]}
  /\ UNCHANGED <<mem, tlb, call, edited>>

GiveFrame(f) ==
  /\ PagingReady
  /\ \A v \in ClientPages : paging_get_physical(v) # f * PMM_PAGE_SIZE
  /\ ClientFree(f * PMM_PAGE_SIZE)
  /\ held' = held \ {f}
  /\ UNCHANGED <<mem, tlb, call, edited>>

Store(v) ==
  /\ PagingReady
  /\ paging_get_physical(v) # 0
  /\ mem' = [mem EXCEPT ![Access(mem, v)] = Garbage]
  /\ UNCHANGED <<pmmVars, tlb, held, call, edited>>

PagingNext ==
  \/ PagingBoot
  \/ paging_init
  \/ TakeFrame
  \/ \E f \in held : GiveFrame(f)
  \/ \E v \in ClientPages, f \in held :
       \/ paging_map_page(v, f * PMM_PAGE_SIZE)
       \/ \E off \in {0, 1} : paging_map_page_fails(v, f * PMM_PAGE_SIZE + off)
  \/ \E v \in ClientPages : paging_unmap_page(v) \/ Store(v)
  \/ paging_clear_table \/ paging_store_entry \/ paging_return
  \/ \E v \in CpuPages : CpuFill(v) \/ CpuEvict(v)

PagingSpec == PagingInit /\ [][PagingNext]_pagingVars

(***************************************************************************)
(* Properties.                                                             *)
(***************************************************************************)
(* Types: an entry of a table is a frame of the machine or not present.    *)
PagingTypeOK ==
  /\ mem \in [Frames -> [Index -> Frames \cup {NotMapped}]]
  /\ tlb \in [Pages -> Frames \cup {NotMapped}]
  /\ held \subseteq Frames
  /\ edited \subseteq ClientPages
  /\ call \in [pc : {"idle", "memset", "store", "invlpg"}, v : ClientPages \cup {0},
               entry : Frames \cup {NotMapped}]

Coherent(v) == tlb[v] \in {NotMapped, Walk(mem, v)}

(* This does not hold: paging_map_page enters a new table in the directory *)
(* before memset clears it, and what the processor caches of it in between *)
(* stays, but for the page that is mapped.                                 *)
TlbCoherent == Idle => \A v \in CpuPages : Coherent(v)

(* But no sequence of maps, remaps and unmaps leaves behind a stale        *)
(* translation of a page whose entry a call has ever written, mapped or    *)
(* unmapped since, except while that very call has still to invalidate it; *)
(* nor one of the recursive window, through which the code itself works.   *)
EditedPagesCoherent ==
  \A v \in edited \cup (CpuPages \ ClientPages) :
    Coherent(v) \/ (call.pc = "invlpg" /\ v = call.v)

TableFrames == {mem[PD][pde] : pde \in Index} \ {NotMapped}

(* Nobody but paging.c reaches a page table: a page a call has written     *)
(* translates, by the tables or by the TLB, to no table, every other page  *)
(* is not mapped, no two directory entries share a table, and a table is   *)
(* never also in a client's hands.                                         *)
TablesPrivate ==
  /\ \A v \in edited : {Walk(mem, v), tlb[v]} \cap TableFrames = {}
  /\ Idle => \A v \in ClientPages \ edited : Walk(mem, v) = NotMapped
  /\ \A i, j \in Index : i # j /\ mem[PD][i] # NotMapped => mem[PD][i] # mem[PD][j]
  /\ held \cap TableFrames = {}

(* No frame is lost: every frame the allocator has handed out is held by   *)
(* the client or is a page table in use.                                   *)
FramesAccounted ==
  {f \in Frames : owners[f] # 0} = held \cup (TableFrames \ {PD, PT1})

(* What a page maps once the call in progress, if any, has returned: a     *)
(* call takes effect in its first step, after which it cannot fail.        *)
Uncleared(v) == call.pc = "memset" /\ pde_idx(v) = pde_idx(call.v)
Maps(v) ==
  IF ~Idle /\ v = call.v THEN call.entry
  ELSE IF Uncleared(v) THEN NotMapped ELSE Walk(mem, v)

AS == INSTANCE AddressSpace WITH
        space  <- [v \in SpacePages |-> Maps(v)],
        tables <- {pde \in Index \ {REC} : mem[PD][pde] # NotMapped}

(* paging_map_page and paging_unmap_page give their callers what           *)
(* AddressSpace promises, whatever the client stores in its pages and      *)
(* whatever the processor caches, before, after and in the middle of a     *)
(* call.                                                                   *)
ImplementsAddressSpace == AS!ASSpec
=============================================================================
