-------------------------- MODULE KernelMainProofs --------------------------
(***************************************************************************)
(* Theorems about kernel_main of KernelMain, for every machine: the heap   *)
(* keeps its promises although the self-tests share its frames and its     *)
(* address space, the tests give back what they take, and they report      *)
(* success exactly when the machine has the memory they need.              *)
(***************************************************************************)
EXTENDS KernelMain, KHeapProofs

(***************************************************************************)
(* The frames of the machine.  What pmm_init left free is from then on     *)
(* either free or owned, and no call changes that set.                     *)
(***************************************************************************)
Pool == Allocatable(pmm) \cup Owned

(* The pool is finite, and a frame of it is free or owned, not both.       *)
LEMMA PoolParts ==
  ASSUME PmmInv
  PROVE  /\ Pool \subseteq Frames /\ IsFiniteSet(Pool)
         /\ Owned \subseteq Frames /\ IsFiniteSet(Owned)
         /\ IsFiniteSet(Allocatable(pmm)) /\ Allocatable(pmm) \cap Owned = {}
         /\ FreeAtBoot = Cardinality(Pool)
<1>1. IsFiniteSet(Frames)
  BY IntervalCard, PmmSizes DEF Frames
<1>2. Owned \subseteq Frames
  BY DEF Owned
<1>3. Allocatable(pmm) \subseteq Frames
  BY PmmSizes DEF PmmInv, PmmTypeOK, Allocatable, Frames
<1>4. Allocatable(pmm) \cap Owned = {}
  BY DEF PmmInv, OwnedMarked, Allocatable, Owned
<1>5. Pool \subseteq Frames
  BY <1>2, <1>3 DEF Pool
<1>6. IsFiniteSet(Owned) /\ IsFiniteSet(Allocatable(pmm)) /\ IsFiniteSet(Pool)
  BY <1>1, <1>2, <1>3, <1>5, FS_Subset
<1>7. FreeAtBoot = Cardinality(Pool)
  <2>1. Cardinality(Pool) = Cardinality(Allocatable(pmm)) + Cardinality(Owned)
                              - Cardinality(Allocatable(pmm) \cap Owned)
    BY <1>6, FS_Union DEF Pool
  <2>2. Cardinality(Allocatable(pmm)) \in Nat /\ Cardinality(Owned) \in Nat
    BY <1>6, FS_CardinalityType
  <2>3. Cardinality(Allocatable(pmm) \cap Owned) = 0
    BY <1>4, FS_EmptySet
  <2> QED BY <2>1, <2>2, <2>3 DEF FreeAtBoot
<1> QED BY <1>2, <1>4, <1>5, <1>6, <1>7

(* The frame an allocation gives comes from the pool and stays in it.      *)
LEMMA PoolTake ==
  ASSUME PmmInv, ClientAlloc
  PROVE  /\ PmmInv' /\ Pool' = Pool
         /\ LET addr == pmm_alloc_frame(pmm).addr IN
            \/ addr = 0 /\ Pool = Owned /\ Owned' = Owned /\ owners' = owners
            \/ \E f \in Frames :
                 /\ addr = f * PMM_PAGE_SIZE /\ addr_to_frame(addr) = f /\ addr \in Nat \ {0}
                 /\ f \in Pool \ Owned /\ Owned' = Owned \cup {f}
                 /\ owners' = [owners EXCEPT ![f] = 1]
<1> DEFINE r == pmm_alloc_frame(pmm)
<1>1. pmm \in Allocators /\ UsedCountExact(pmm) /\ owners \in [Frames -> Nat] /\ PmmInv'
  BY AllocPreserves DEF PmmInv, PmmTypeOK, Allocators
<1>2. /\ pmm' = r.pmm
      /\ owners' = IF r.addr = 0 THEN owners
                   ELSE [owners EXCEPT ![addr_to_frame(r.addr)] = @ + 1]
  BY DEF ClientAlloc
<1>3. CASE Allocatable(pmm) = {}
  <2>1. r = [addr |-> 0, pmm |-> pmm]
    BY <1>3 DEF pmm_alloc_frame
  <2>2. r.addr = 0 /\ pmm' = pmm /\ owners' = owners
    BY <1>2, <2>1
  <2>3. Owned' = Owned /\ Pool' = Pool /\ Pool = Owned
    BY <1>3, <2>2 DEF Owned, Pool, Allocatable
  <2> QED BY <1>1, <2>2, <2>3
<1>4. CASE Allocatable(pmm) # {}
  <2>1. PICK f \in Allocatable(pmm) :
          /\ f \in Frames /\ r.addr = f * PMM_PAGE_SIZE /\ r.addr # 0
          /\ addr_to_frame(r.addr) = f
          /\ r.pmm.frame_count = pmm.frame_count
          /\ r.pmm.bitmap = pmm.bitmap \cup {f}
    BY <1>1, <1>4, AllocFrame
  <2>2. f \notin Owned /\ f \in Pool /\ owners[f] = 0
    BY <2>1, PoolParts DEF Pool, Owned
  <2>3. r.addr \in Nat \ {0}
    BY <2>1, PmmSizes DEF Frames
  <2> HIDE DEF r
  <2>4. owners' = [owners EXCEPT ![f] = 1]
    <3>1. owners' = [owners EXCEPT ![f] = owners[f] + 1]
      BY <1>2, <2>1
    <3> QED BY <2>2, <3>1
  <2>5. Owned' = Owned \cup {f}
    BY <1>1, <2>1, <2>4 DEF Owned
  <2>6. Allocatable(pmm') = Allocatable(pmm) \ {f}
    BY <1>2, <2>1 DEF Allocatable
  <2>7. Pool' = Pool
    BY <2>1, <2>5, <2>6 DEF Pool
  <2> QED BY <1>1, <2>1, <2>2, <2>3, <2>4, <2>5, <2>7 DEF r
<1> QED BY <1>3, <1>4

(* A frame given back goes back to the pool.                               *)
LEMMA PoolGive ==
  ASSUME PmmInv, NEW f \in Frames, owners[f] # 0, ClientFree(f * PMM_PAGE_SIZE)
  PROVE  PmmInv' /\ Pool' = Pool /\ Owned' = Owned \ {f}
<1> DEFINE a == f * PMM_PAGE_SIZE
<1>1. /\ f # 0 /\ owners[f] = 1 /\ a \in Nat /\ a # 0
      /\ a % PMM_PAGE_SIZE = 0 /\ addr_to_frame(a) = f
  BY OwnedAddress
<1>2. /\ PmmInv' /\ owners' = [owners EXCEPT ![f] = 0]
  BY FreeOwners
<1>3. pmm \in Allocators /\ UsedCountExact(pmm) /\ owners \in [Frames -> Nat]
      /\ f < pmm.frame_count
  BY DEF PmmInv, PmmTypeOK, Allocators, OwnedMarked
<1>4. pmm' = pmm_free_frame(pmm, a)
  BY DEF ClientFree
<1> HIDE DEF a
<1>5. pmm'.frame_count = pmm.frame_count /\ pmm'.bitmap = pmm.bitmap \ {f}
  BY <1>1, <1>3, <1>4, FreeFrame
<1>6. Owned' = Owned \ {f} /\ f \in Owned
  BY <1>2, <1>3 DEF Owned
<1>7. f \in 1 .. pmm.frame_count - 1
  BY <1>1, <1>3 DEF Frames, Allocators
<1>8. Allocatable(pmm') = Allocatable(pmm) \cup {f}
  BY <1>5, <1>7 DEF Allocatable
<1>9. Pool' = Pool
  BY <1>6, <1>8 DEF Pool
<1> QED BY <1>2, <1>6, <1>9

(* The pool and the owners depend on the allocator alone.                  *)
LEMMA PoolSame ==
  ASSUME UNCHANGED pmmVars PROVE Pool' = Pool /\ Owned' = Owned /\ init' = init
BY DEF pmmVars, Pool, Owned, Allocatable

(***************************************************************************)
(* The client's accounts: a frame that is owned is held by kernel_main or  *)
(* the heap, or is a page table.                                           *)
(***************************************************************************)
Accounts ==
  /\ KERNEL_PDE \in tables /\ IsFiniteSet(tables)
  /\ \A v \in ClientPages : space[v] # NotMapped => pde_idx(v) \in tables
  /\ Cardinality(Owned) = Cardinality(held) + Cardinality(tables \ {KERNEL_PDE})

(* The sets that are counted are finite.                                   *)
LEMMA CountedSets ==
  ASSUME SpaceInv
  PROVE  /\ held \subseteq Owned /\ IsFiniteSet(held) /\ IsFiniteSet(Owned)
         /\ Cardinality(held) \in Nat /\ Cardinality(Owned) \in Nat
<1>1. held \subseteq Owned
  BY DEF SpaceInv, HeldOwned, Owned
<1>2. IsFiniteSet(Owned)
  BY PoolParts DEF SpaceInv
<1> QED BY <1>1, <1>2, FS_Subset, FS_CardinalityType

(* pmm_alloc_frame: what kernel_main takes it holds.                       *)
LEMMA AccountsTake ==
  ASSUME SpaceInv, Accounts, TakeFrame
  PROVE  /\ SpaceInv' /\ Accounts' /\ Pool' = Pool
         /\ space' = space /\ tables' = tables /\ init.step = "ready" /\ init' = init
         /\ LET addr == pmm_alloc_frame(pmm).addr IN
            \/ addr = 0 /\ Pool = Owned /\ held' = held /\ Owned' = Owned
            \/ \E f \in Frames :
                 /\ addr = f * PMM_PAGE_SIZE /\ addr_to_frame(addr) = f /\ addr \in Nat \ {0}
                 /\ f \in Pool \ Owned /\ f \notin held /\ Unmapped(f)
                 /\ held' = held \cup {f} /\ Owned' = Owned \cup {f}
<1> DEFINE addr == pmm_alloc_frame(pmm).addr
<1>1. /\ ClientAlloc /\ space' = space /\ tables' = tables
      /\ held' = held \cup {f \in Frames : owners'[f] > owners[f]}
      /\ init.step = "ready" /\ init' = init
  BY DEF TakeFrame, ClientAlloc
<1>2. PmmInv /\ owners \in [Frames -> Nat] /\ held \subseteq Frames
  BY DEF SpaceInv, PmmInv, PmmTypeOK, HeldOwned
<1>3. SpaceInv'
  BY TakeKeeps
<1>4. /\ Pool' = Pool
      /\ \/ addr = 0 /\ Pool = Owned /\ Owned' = Owned /\ owners' = owners
         \/ \E f \in Frames :
              /\ addr = f * PMM_PAGE_SIZE /\ addr_to_frame(addr) = f /\ addr \in Nat \ {0}
              /\ f \in Pool \ Owned /\ Owned' = Owned \cup {f}
              /\ owners' = [owners EXCEPT ![f] = 1]
  BY <1>1, <1>2, PoolTake
<1> HIDE DEF addr
<1>5. CASE addr = 0 /\ Pool = Owned /\ Owned' = Owned /\ owners' = owners
  <2>1. held' = held
    BY <1>1, <1>2, <1>5
  <2>2. Accounts'
    BY <1>1, <1>5, <2>1 DEF Accounts
  <2> QED BY <1>1, <1>3, <1>4, <1>5, <2>1, <2>2 DEF addr
<1>6. ASSUME NEW f \in Frames,
             addr = f * PMM_PAGE_SIZE, addr_to_frame(addr) = f, addr \in Nat \ {0},
             f \in Pool \ Owned, Owned' = Owned \cup {f},
             owners' = [owners EXCEPT ![f] = 1]
      PROVE  f \notin held /\ Unmapped(f) /\ held' = held \cup {f} /\ Accounts'
  <2>1. f \notin held /\ owners[f] = 0
    BY <1>6, CountedSets DEF Owned
  <2>2. held' = held \cup {f}
    BY <1>1, <1>2, <1>6, <2>1
  <2>3. Unmapped(f)
    BY <2>1, ClientInSpace DEF SpaceInv, ClientMaps, Unmapped
  <2>4. /\ Cardinality(held') = Cardinality(held) + 1
        /\ Cardinality(Owned') = Cardinality(Owned) + 1
    BY <1>6, <2>1, <2>2, CountedSets, FS_AddElement
  <2>5. Cardinality(tables \ {KERNEL_PDE}) \in Nat
    BY FS_RemoveElement, FS_CardinalityType DEF Accounts
  <2>6. Cardinality(Owned') = Cardinality(held') + Cardinality(tables \ {KERNEL_PDE})
    BY <2>4, <2>5, CountedSets DEF Accounts
  <2> QED BY <1>1, <2>1, <2>2, <2>3, <2>6 DEF Accounts
<1>7. CASE \E f \in Frames :
              /\ addr = f * PMM_PAGE_SIZE /\ addr_to_frame(addr) = f /\ addr \in Nat \ {0}
              /\ f \in Pool \ Owned /\ Owned' = Owned \cup {f}
              /\ owners' = [owners EXCEPT ![f] = 1]
  <2>1. PICK f \in Frames :
              /\ addr = f * PMM_PAGE_SIZE /\ addr_to_frame(addr) = f /\ addr \in Nat \ {0}
              /\ f \in Pool \ Owned /\ Owned' = Owned \cup {f}
              /\ owners' = [owners EXCEPT ![f] = 1]
    BY <1>7
  <2>2. f \notin held /\ Unmapped(f) /\ held' = held \cup {f} /\ Accounts'
    BY <1>6, <2>1
  <2> QED BY <1>1, <1>3, <1>4, <2>1, <2>2 DEF addr
<1> QED BY <1>4, <1>5, <1>7

(* pmm_free_frame: what it gives back it holds no longer.                  *)
LEMMA AccountsGive ==
  ASSUME SpaceInv, Accounts, NEW f \in held, GiveFrame(f)
  PROVE  /\ SpaceInv' /\ Accounts' /\ Pool' = Pool
         /\ space' = space /\ tables' = tables /\ init.step = "ready" /\ init' = init
         /\ held' = held \ {f} /\ Owned' = Owned \ {f}
<1>1. /\ ClientFree(f * PMM_PAGE_SIZE) /\ space' = space /\ tables' = tables
      /\ init.step = "ready" /\ init' = init
  BY DEF GiveFrame, ClientFree
<1>2. PmmInv /\ f \in Frames /\ owners[f] # 0 /\ f \in Owned
  BY DEF SpaceInv, HeldOwned, Owned
<1>3. Pool' = Pool /\ Owned' = Owned \ {f}
  BY <1>1, <1>2, PoolGive
<1>4. SpaceInv' /\ held' = held \ {f}
  BY GiveKeeps
<1>5. /\ Cardinality(held') = Cardinality(held) - 1
      /\ Cardinality(Owned') = Cardinality(Owned) - 1
  BY <1>2, <1>3, <1>4, CountedSets, FS_RemoveElement
<1>6. Cardinality(tables \ {KERNEL_PDE}) \in Nat
  BY FS_RemoveElement, FS_CardinalityType DEF Accounts
<1>7. Cardinality(Owned') = Cardinality(held') + Cardinality(tables \ {KERNEL_PDE})
  BY <1>5, <1>6, CountedSets DEF Accounts
<1> QED BY <1>1, <1>3, <1>4, <1>7 DEF Accounts

(* Mapping a page takes a frame for a table that is not there yet.         *)
LEMMA AccountsMap ==
  ASSUME SpaceInv, Accounts, NEW v \in ClientPages, NEW f \in held, ASMap(v, f)
  PROVE  /\ SpaceInv' /\ Accounts' /\ Pool' = Pool /\ held' = held
         /\ init.step = "ready" /\ init' = init
         /\ \A w \in SpacePages : space'[w] = IF w = v THEN f ELSE space[w]
         /\ tables' = tables \cup {pde_idx(v)}
         /\ \/ pde_idx(v) \in tables /\ Owned' = Owned
            \/ /\ pde_idx(v) \notin tables
               /\ \E t \in Pool \ Owned : Owned' = Owned \cup {t}
<1>1. /\ tables' = tables \cup {pde_idx(v)} /\ init.step = "ready"
      /\ IF pde_idx(v) \in tables THEN UNCHANGED pmmVars
         ELSE Allocatable(pmm) # {} /\ ClientAlloc
  BY DEF ASMap
<1>2. /\ SpaceInv' /\ held' = held
      /\ \A w \in SpacePages : space'[w] = IF w = v THEN f ELSE space[w]
  BY MapKeeps
<1>3. \A w \in ClientPages : space'[w] # NotMapped => pde_idx(w) \in tables'
  BY <1>1, <1>2, ClientInSpace DEF Accounts
<1>4. PmmInv /\ pde_idx(v) # KERNEL_PDE
  BY PagingSizes DEF SpaceInv
<1>5. CASE pde_idx(v) \in tables
  <2>1. Pool' = Pool /\ Owned' = Owned /\ init' = init
    BY <1>1, <1>5, PoolSame
  <2>2. tables' = tables
    BY <1>1, <1>5
  <2> QED BY <1>1, <1>2, <1>3, <1>5, <2>1, <2>2 DEF Accounts
<1>6. CASE pde_idx(v) \notin tables
  <2>1. ClientAlloc /\ init' = init /\ Pool # Owned
    <3>1. Allocatable(pmm) # {} /\ ClientAlloc
      BY <1>1, <1>6
    <3> QED BY <1>4, <3>1, PoolParts DEF ClientAlloc, Pool
  <2>2. Pool' = Pool /\ \E t \in Pool \ Owned : Owned' = Owned \cup {t}
    BY <1>4, <2>1, PoolTake
  <2>3. PICK t \in Pool \ Owned : Owned' = Owned \cup {t}
    BY <2>2
  <2>4. Cardinality(Owned') = Cardinality(Owned) + 1
    BY <2>3, CountedSets, FS_AddElement
  <2>5. /\ tables' \ {KERNEL_PDE} = (tables \ {KERNEL_PDE}) \cup {pde_idx(v)}
        /\ pde_idx(v) \notin tables \ {KERNEL_PDE}
    BY <1>1, <1>4, <1>6
  <2>6. IsFiniteSet(tables \ {KERNEL_PDE}) /\ Cardinality(tables \ {KERNEL_PDE}) \in Nat
    BY FS_RemoveElement, FS_CardinalityType DEF Accounts
  <2>7. Cardinality(tables' \ {KERNEL_PDE}) = Cardinality(tables \ {KERNEL_PDE}) + 1
    BY <2>5, <2>6, FS_AddElement
  <2>8. IsFiniteSet(tables') /\ KERNEL_PDE \in tables'
    BY <1>1, FS_AddElement DEF Accounts
  <2>9. Cardinality(Owned') = Cardinality(held') + Cardinality(tables' \ {KERNEL_PDE})
    BY <1>2, <2>4, <2>6, <2>7, CountedSets DEF Accounts
  <2> QED BY <1>1, <1>2, <1>3, <1>6, <2>1, <2>2, <2>8, <2>9 DEF Accounts
<1> QED BY <1>5, <1>6

(* Unmapping a page leaves its frame held and its table in place.          *)
LEMMA AccountsUnmap ==
  ASSUME SpaceInv, Accounts, NEW v \in ClientPages, ASUnmap(v)
  PROVE  /\ SpaceInv' /\ Accounts' /\ Pool' = Pool /\ held' = held /\ Owned' = Owned
         /\ init.step = "ready" /\ init' = init /\ tables' = tables
         /\ \A w \in SpacePages : space'[w] = IF w = v THEN NotMapped ELSE space[w]
<1>1. /\ space' = [space EXCEPT ![v] = NotMapped] /\ init.step = "ready"
      /\ UNCHANGED pmmVars /\ tables' = tables /\ held' = held
  BY DEF ASUnmap
<1>2. Pool' = Pool /\ Owned' = Owned /\ init' = init
  BY <1>1, PoolSame
<1>3. space \in [SpacePages -> Entries] /\ v \in SpacePages /\ NotMapped \in Entries
  BY ClientInSpace DEF SpaceInv, Entries
<1>4. /\ space' \in [SpacePages -> Entries]
      /\ \A w \in SpacePages : space'[w] = IF w = v THEN NotMapped ELSE space[w]
  BY <1>1, <1>3
<1>5. PmmInv'
  BY <1>1 DEF SpaceInv, pmmVars, PmmInv, PmmTypeOK, EmptyBeforeSizing,
     UsedCountExact, Known, NoOwnerBeforeReady, ReservedMarked, OwnedMarked
<1>6. HeldOwned' /\ ClientMaps'
  BY <1>1, <1>4, ClientInSpace DEF SpaceInv, HeldOwned, ClientMaps, pmmVars
<1>7. Accounts'
  BY <1>1, <1>2, <1>4, ClientInSpace DEF Accounts
<1> QED BY <1>1, <1>2, <1>4, <1>5, <1>6, <1>7 DEF SpaceInv

(* pmm_init gives out nothing.                                             *)
LEMMA AccountsBoot ==
  ASSUME SpaceInv, Accounts, PmmBoot, UNCHANGED <<space, tables, held>>
  PROVE  SpaceInv' /\ Accounts' /\ Owned' = Owned /\ init.step # "ready"
<1>1. owners' = owners /\ init.step # "ready"
  BY DEF PmmBoot, pmm_init_invalid, pmm_init_highest, pmm_init_size,
         pmm_init_region, pmm_init_reserve
<1>2. Owned' = Owned
  BY <1>1 DEF Owned
<1> QED BY <1>1, <1>2, BootKeeps DEF Accounts

(* Nor does a step that leaves the address space and the allocator alone.  *)
LEMMA AccountsSame ==
  ASSUME Accounts, UNCHANGED asVars
  PROVE  /\ Accounts' /\ Pool' = Pool /\ Owned' = Owned /\ init' = init
         /\ held' = held /\ tables' = tables /\ space' = space
<1>1. held' = held /\ tables' = tables /\ space' = space /\ UNCHANGED pmmVars
  BY DEF asVars
<1>2. Pool' = Pool /\ Owned' = Owned /\ init' = init
  BY <1>1, PoolSame
<1> QED BY <1>1, <1>2 DEF Accounts

(***************************************************************************)
(* The invariant of kernel_main.  Up to kheap_init each stage of the tests *)
(* says which frames are held and what is mapped.                          *)
(***************************************************************************)
TestPcs == {"pmm_init", "pmm_a", "pmm_b", "pmm_free_a", "pmm_free_b", "paging",
            "paging_map", "paging_unmap", "paging_free", "kheap_init"}
HeapPcs == {"kheap_a", "kheap_b", "kheap_check", "kheap_free_a", "kheap_free_b"}

Control ==
  /\ main = [pc |-> main.pc, a |-> main.a, b |-> main.b]
  /\ main.pc \in TestPcs \cup HeapPcs \cup {"shell"}
  /\ main.pc \in TestPcs <=> call.pc = "boot"
  /\ main.pc # "pmm_init" => init.step = "ready"
  /\ report \in [{"pmm", "paging", "kheap"} -> {"none", "ok", "failed"}]

IsFrame(addr, f) ==
  addr = f * PMM_PAGE_SIZE /\ addr_to_frame(addr) = f /\ addr # NULL

TestTable == pde_idx(TestPage)
NoneMapped == \A v \in ClientPages : space[v] = NotMapped
NoTables == tables = {KERNEL_PDE} /\ Owned = held /\ NoneMapped

(* A machine with two frames passes pmm_self_test; a smaller one does not, *)
(* and its only frame, if it has one, stays held.                          *)
Two == \E f, g \in Pool : f # g
Tested == Two /\ report["pmm"] = "ok"
TooSmall == ~Two /\ report["pmm"] = "failed" /\ NoTables /\ held = Pool

TestInv ==
  /\ main.pc \in {"pmm_init", "pmm_a"} => NoTables /\ held = {}
  /\ main.pc = "pmm_b" =>
       /\ NoTables
       /\ \/ main.a = NULL /\ Pool = {}
          \/ \E f \in Frames : IsFrame(main.a, f) /\ held = {f}
  /\ main.pc = "pmm_free_a" =>
       /\ NoTables
       /\ \E f, g \in Frames :
            f # g /\ IsFrame(main.a, f) /\ IsFrame(main.b, g) /\ held = {f, g}
  /\ main.pc = "pmm_free_b" =>
       NoTables /\ Two /\ \E g \in Frames : IsFrame(main.b, g) /\ held = {g}
  /\ main.pc = "paging" => NoTables /\ (TooSmall \/ (Tested /\ held = {}))
  /\ main.pc = "paging_map" =>
       NoTables /\ Tested /\ \E f \in Frames : IsFrame(main.a, f) /\ held = {f}
  /\ main.pc = "paging_unmap" =>
       /\ Tested /\ tables = {KERNEL_PDE, TestTable}
       /\ \E f \in Frames :
            /\ IsFrame(main.a, f) /\ held = {f}
            /\ \A v \in ClientPages : space[v] = IF v = TestPage THEN f ELSE NotMapped
  /\ main.pc = "paging_free" =>
       /\ Tested /\ tables = {KERNEL_PDE, TestTable} /\ NoneMapped
       /\ \E f \in Frames : IsFrame(main.a, f) /\ held = {f}
  /\ main.pc = "kheap_init" =>
       \/ TooSmall
       \/ /\ Tested /\ report["paging"] = "ok" /\ NoneMapped
          /\ held = {} /\ tables = {KERNEL_PDE, TestTable}

(* What remains of the two tests once they are over.                       *)
PassedInv ==
  main.pc \notin TestPcs =>
    IF Two THEN Tested /\ report["paging"] = "ok" /\ TestTable \in tables
    ELSE report["pmm"] = "failed"

(***************************************************************************)
(* The heap's first extension needs GROW pages, with their tables; the     *)
(* test page has one more.  A machine that has those frames succeeds in    *)
(* kheap_init, and no other machine ever gets a heap before the shell.     *)
(***************************************************************************)
GROW == KHEAP_GROW_PAGES
FirstPage == page_of(KHEAP_START)
Initial == KHEAP_START + GROW * PMM_PAGE_SIZE

Backing(top) == {space[v] : v \in FirstPage .. top - 1}
TablesTo(top) == {pde_idx(v) : v \in FirstPage .. top - 1}

Need == 1 + GROW + Cardinality(TablesTo(FirstPage + GROW))
Rich == Cardinality(Pool) >= Need

(* The bytes kmalloc looks for.                                            *)
Room(size) ==
  LET needed == kheap_align((size + HEADER) % U32)
  IN  IF needed < KHEAP_MIN_BLOCK THEN KHEAP_MIN_BLOCK ELSE needed

RoomA == Room(TestSizeA)
RoomB == Room(TestSizeB)
PtrA == KHEAP_START + HEADER
PtrB == KHEAP_START + RoomA + HEADER

(* In the first extension every frame held is mapped, but for the one in   *)
(* hand, and every table belongs to a page that is.                        *)
FirstGrowth ==
  LET top == page_of(Top)
      hand == IF call.pc = "map" THEN {addr_to_frame(call.frame)} ELSE {}
  IN  /\ held = Backing(top) \cup hand
      /\ tables = {KERNEL_PDE, TestTable} \cup TablesTo(top)

GrowthInv ==
  /\ Working => call.needed <= GROW * PMM_PAGE_SIZE
  /\ call.pc \in {"extend", "page", "map"} => kheap.first = NULL
  /\ Growing => page_of(call.map_at) + call.pages = FirstPage + GROW
  /\ kheap.first # NULL =>
       Rich /\ kheap.end = Initial /\ held = Backing(FirstPage + GROW)
  /\ kheap.first = NULL /\ (main.pc # "kheap_a" \/ call.pc = "idle") => ~Rich

(* The block of the first pointer, and that of the second right after it.  *)
HasA == DOMAIN live = {PtrA} /\ heap[KHEAP_START].size = RoomA
HasBoth == DOMAIN live = {PtrA, PtrB}

StageInv ==
  /\ main.pc = "kheap_a" =>
       /\ DOMAIN live = {} /\ call.pc \in {"extend", "page", "map", "idle"}
       /\ call.pc # "idle" => call.op = "kheap_init" /\ (Two => FirstGrowth)
  /\ main.pc = "kheap_b" /\ kheap.first # NULL =>
       \/ /\ call.pc = "scan" /\ DOMAIN live = {}
          /\ call.cur = KHEAP_START /\ call.needed = RoomA
       \/ call.pc = "idle" /\ HasA
  /\ main.pc = "kheap_check" =>
       IF kheap.first = NULL THEN main.a = NULL
       ELSE /\ main.a = PtrA
            /\ \/ /\ call.pc = "scan" /\ HasA /\ call.needed = RoomB
                  /\ call.cur \in {KHEAP_START, KHEAP_START + RoomA}
               \/ call.pc = "idle" /\ HasBoth
  /\ main.pc \in {"kheap_free_a", "kheap_free_b"} =>
       /\ kheap.first # NULL /\ call.pc = "idle"
       /\ main.a = PtrA /\ main.b = PtrB
       /\ DOMAIN live = IF main.pc = "kheap_free_a" THEN {PtrA, PtrB} ELSE {PtrB}

HeapInv == main.pc \in HeapPcs => GrowthInv /\ StageInv

KernelInv ==
  /\ HeapPagesInv
  /\ main.pc # "shell" => HeapListInv
  /\ Accounts
  /\ Control
  /\ TestInv
  /\ PassedInv
  /\ HeapInv
  /\ main.pc = "shell" => (AllOk <=> Rich)

(***************************************************************************)
(* The tests before kheap_init.                                            *)
(***************************************************************************)
(* Before kheap_init the heap has no page yet.                             *)
LEMMA BeforeHeap ==
  ASSUME HeapPagesInv, HeapListInv, call.pc = "boot", UnchangedHeap, SpaceInv'
  PROVE  HeapPagesInv' /\ HeapListInv' /\ SameHeapPages
<1>1. heap' = heap /\ kheap' = kheap /\ call' = call /\ live' = live
  BY DEF UnchangedHeap
<1>2. kheap.end = KHEAP_START
  BY DEF HeapListInv, ScanInv, ListInv
<1>3. HeapListInv'
  BY <1>1, ListStutter
<1>4. CallType' /\ Extent' /\ GrowInv' /\ Top' = KHEAP_START
  BY <1>1, <1>2 DEF HeapPagesInv, CallType, Extent, GrowInv, Growing, Top
<1>5. page_of(KHEAP_START) \in Nat
  BY HeapSizes, PagesBelow
<1>6. Backed(Top)' /\ SameHeapPages
  BY <1>2, <1>4, <1>5 DEF Backed, SameHeapPages
<1> QED BY <1>3, <1>4, <1>6 DEF HeapPagesInv

(* What is left to show of a step from one stage of the tests to another.  *)
LEMMA StageStep ==
  ASSUME KernelInv, call.pc = "boot", UnchangedHeap, SpaceInv', Accounts',
         init' = init, init.step = "ready",
         main' = [pc |-> main'.pc, a |-> main'.a, b |-> main'.b],
         main'.pc \in TestPcs \ {"pmm_init"}, TestInv',
         report' \in [{"pmm", "paging", "kheap"} -> {"none", "ok", "failed"}]
  PROVE  KernelInv' /\ SameHeapPages
<1>1. main.pc # "shell" /\ HeapListInv /\ HeapPagesInv
  BY DEF KernelInv, Control, TestPcs
<1>2. HeapPagesInv' /\ HeapListInv' /\ SameHeapPages
  BY <1>1, BeforeHeap
<1>3. call'.pc = "boot"
  BY DEF UnchangedHeap
<1>4. Control'
  BY <1>3 DEF Control
<1>5. PassedInv' /\ HeapInv' /\ main'.pc # "shell"
  BY DEF PassedInv, HeapInv, TestPcs, HeapPcs
<1> QED BY <1>2, <1>4, <1>5 DEF KernelInv

(* What the invariant says at a stage of the tests.                        *)
LEMMA StageFacts ==
  ASSUME KernelInv, main.pc \in TestPcs
  PROVE  /\ call.pc = "boot" /\ HeapPagesInv /\ HeapListInv /\ SpaceInv /\ Accounts /\ TestInv
         /\ main = [pc |-> main.pc, a |-> main.a, b |-> main.b]
         /\ report \in [{"pmm", "paging", "kheap"} -> {"none", "ok", "failed"}]
         /\ main.pc # "pmm_init" => init.step = "ready"
BY DEF KernelInv, Control, TestPcs, HeapPagesInv

(* A frame in hand is a multiple of the page size, and no two frames have  *)
(* the same address.                                                       *)
LEMMA ReleaseGives ==
  ASSUME NEW a, NEW f \in Frames, IsFrame(a, f), Release(a)
  PROVE  GiveFrame(f)
BY DEF IsFrame, Release

(* pmm_self_test takes its first frame.                                    *)
LEMMA AllocAStage ==
  ASSUME KernelInv, pmm_test_alloc_a
  PROVE  KernelInv' /\ SameHeapPages /\ ASStep
<1> DEFINE addr == pmm_alloc_frame(pmm).addr
<1>1. /\ main.pc = "pmm_a" /\ TakeFrame /\ UnchangedHeap /\ report' = report
      /\ main' = [main EXCEPT !.pc = "pmm_b", !.a = addr]
  BY DEF pmm_test_alloc_a
<1>2. /\ call.pc = "boot" /\ SpaceInv /\ Accounts /\ NoTables /\ held = {}
      /\ main = [pc |-> main.pc, a |-> main.a, b |-> main.b]
      /\ report \in [{"pmm", "paging", "kheap"} -> {"none", "ok", "failed"}]
  BY <1>1, StageFacts DEF TestPcs, TestInv
<1>3. /\ SpaceInv' /\ Accounts' /\ Pool' = Pool
      /\ space' = space /\ tables' = tables /\ init.step = "ready" /\ init' = init
      /\ \/ addr = 0 /\ Pool = Owned /\ held' = held /\ Owned' = Owned
         \/ \E f \in Frames :
              /\ addr = f * PMM_PAGE_SIZE /\ addr_to_frame(addr) = f /\ addr \in Nat \ {0}
              /\ f \in Pool \ Owned /\ f \notin held /\ Unmapped(f)
              /\ held' = held \cup {f} /\ Owned' = Owned \cup {f}
  BY <1>1, <1>2, AccountsTake
<1> HIDE DEF addr
<1>4. main' = [pc |-> "pmm_b", a |-> addr, b |-> main.b]
  BY <1>1, <1>2
<1>5. NoTables'
  BY <1>2, <1>3 DEF NoTables, NoneMapped
<1>6. \/ main'.a = NULL /\ Pool' = {}
      \/ \E f \in Frames : IsFrame(main'.a, f) /\ held' = {f}
  BY <1>2, <1>3, <1>4 DEF NULL, IsFrame, NoTables
<1>7. TestInv'
  BY <1>4, <1>5, <1>6 DEF TestInv
<1> QED BY <1>1, <1>2, <1>3, <1>4, <1>7, StageStep DEF TestPcs, ASStep, ASNext

(* The second frame: without one the test fails, and keeps the first.      *)
LEMMA AllocBStage ==
  ASSUME KernelInv, pmm_test_alloc_b
  PROVE  KernelInv' /\ SameHeapPages /\ ASStep
<1> DEFINE addr == pmm_alloc_frame(pmm).addr
<1>1. /\ main.pc = "pmm_b" /\ TakeFrame /\ UnchangedHeap
      /\ IF main.a = NULL \/ addr = NULL \/ main.a = addr
         THEN Done("pmm", FALSE, "paging")
         ELSE main' = [main EXCEPT !.pc = "pmm_free_a", !.b = addr] /\ UNCHANGED report
  BY DEF pmm_test_alloc_b
<1>2. /\ call.pc = "boot" /\ SpaceInv /\ Accounts /\ NoTables
      /\ \/ main.a = NULL /\ Pool = {}
         \/ \E f \in Frames : IsFrame(main.a, f) /\ held = {f}
      /\ main = [pc |-> main.pc, a |-> main.a, b |-> main.b]
      /\ report \in [{"pmm", "paging", "kheap"} -> {"none", "ok", "failed"}]
  BY <1>1, StageFacts DEF TestPcs, TestInv
<1>3. /\ SpaceInv' /\ Accounts' /\ Pool' = Pool
      /\ space' = space /\ tables' = tables /\ init.step = "ready" /\ init' = init
      /\ \/ addr = 0 /\ Pool = Owned /\ held' = held /\ Owned' = Owned
         \/ \E f \in Frames :
              /\ addr = f * PMM_PAGE_SIZE /\ addr_to_frame(addr) = f /\ addr \in Nat \ {0}
              /\ f \in Pool \ Owned /\ f \notin held /\ Unmapped(f)
              /\ held' = held \cup {f} /\ Owned' = Owned \cup {f}
  BY <1>1, <1>2, AccountsTake
<1> HIDE DEF addr
<1>4. NoTables'
  BY <1>2, <1>3 DEF NoTables, NoneMapped
<1>5. held \subseteq Pool
  BY <1>2 DEF NoTables, Pool
<1>6. CASE addr = 0 /\ Pool = Owned /\ held' = held
  <2>1. /\ main' = [pc |-> "paging", a |-> NULL, b |-> NULL]
        /\ report' = [report EXCEPT !["pmm"] = "failed"]
    BY <1>1, <1>6 DEF Done, NULL
  <2>2. ~Two' /\ held' = Pool'
    BY <1>2, <1>3, <1>5, <1>6 DEF Two, NoTables
  <2>3. report'["pmm"] = "failed"
        /\ report' \in [{"pmm", "paging", "kheap"} -> {"none", "ok", "failed"}]
    BY <1>2, <2>1
  <2>4. TestInv'
    BY <1>4, <2>1, <2>2, <2>3 DEF TestInv, TooSmall
  <2> QED BY <1>1, <1>2, <1>3, <2>1, <2>3, <2>4, StageStep DEF TestPcs, ASStep, ASNext
<1>7. CASE addr # 0
  <2>1. PICK g \in Frames :
              /\ addr = g * PMM_PAGE_SIZE /\ addr_to_frame(addr) = g /\ addr \in Nat \ {0}
              /\ g \in Pool \ Owned /\ g \notin held /\ Unmapped(g)
              /\ held' = held \cup {g} /\ Owned' = Owned \cup {g}
    BY <1>3, <1>7
  <2>2. PICK f \in Frames : IsFrame(main.a, f) /\ held = {f}
    BY <1>2, <2>1
  <2>3. f # g /\ main.a # addr /\ main.a # NULL /\ held' = {f, g}
    BY <2>1, <2>2 DEF IsFrame
  <2>4. main' = [pc |-> "pmm_free_a", a |-> main.a, b |-> addr] /\ report' = report
    BY <1>1, <1>2, <1>7, <2>3 DEF NULL
  <2>5. \E x, y \in Frames :
          x # y /\ IsFrame(main'.a, x) /\ IsFrame(main'.b, y) /\ held' = {x, y}
    BY <2>1, <2>2, <2>3, <2>4 DEF IsFrame, NULL
  <2>6. TestInv'
    BY <1>4, <2>4, <2>5 DEF TestInv
  <2> QED BY <1>1, <1>2, <1>3, <2>4, <2>6, StageStep DEF TestPcs, ASStep, ASNext
<1> QED BY <1>3, <1>6, <1>7

(* The test gives the first frame back.                                    *)
LEMMA FreeAStage ==
  ASSUME KernelInv, pmm_test_free_a
  PROVE  KernelInv' /\ SameHeapPages /\ ASStep
<1>1. /\ main.pc = "pmm_free_a" /\ Release(main.a) /\ UnchangedHeap
      /\ main' = [main EXCEPT !.pc = "pmm_free_b"] /\ report' = report
  BY DEF pmm_test_free_a, Goto
<1>2. /\ call.pc = "boot" /\ SpaceInv /\ Accounts /\ NoTables
      /\ \E f, g \in Frames :
           f # g /\ IsFrame(main.a, f) /\ IsFrame(main.b, g) /\ held = {f, g}
      /\ main = [pc |-> main.pc, a |-> main.a, b |-> main.b]
      /\ report \in [{"pmm", "paging", "kheap"} -> {"none", "ok", "failed"}]
  BY <1>1, StageFacts DEF TestPcs, TestInv
<1>3. PICK f, g \in Frames :
        f # g /\ IsFrame(main.a, f) /\ IsFrame(main.b, g) /\ held = {f, g}
  BY <1>2
<1>4. GiveFrame(f) /\ f \in held
  BY <1>1, <1>3, ReleaseGives
<1>5. /\ SpaceInv' /\ Accounts' /\ Pool' = Pool
      /\ space' = space /\ tables' = tables /\ init.step = "ready" /\ init' = init
      /\ held' = held \ {f} /\ Owned' = Owned \ {f}
  BY <1>2, <1>4, AccountsGive
<1>6. main' = [pc |-> "pmm_free_b", a |-> main.a, b |-> main.b]
  BY <1>1, <1>2
<1>7. NoTables' /\ held' = {g}
  BY <1>2, <1>3, <1>5 DEF NoTables, NoneMapped
<1>8. Two'
  BY <1>2, <1>3, <1>5 DEF Two, NoTables, Pool
<1>9. TestInv'
  BY <1>3, <1>6, <1>7, <1>8 DEF TestInv
<1> QED BY <1>1, <1>2, <1>4, <1>5, <1>6, <1>9, StageStep DEF TestPcs, ASStep, ASNext

(* And the second.                                                         *)
LEMMA FreeBStage ==
  ASSUME KernelInv, pmm_test_free_b
  PROVE  KernelInv' /\ SameHeapPages /\ ASStep
<1>1. /\ main.pc = "pmm_free_b" /\ Release(main.b) /\ UnchangedHeap
      /\ main' = [pc |-> "paging", a |-> NULL, b |-> NULL]
      /\ report' = [report EXCEPT !["pmm"] = "ok"]
  BY DEF pmm_test_free_b, Done
<1>2. /\ call.pc = "boot" /\ SpaceInv /\ Accounts /\ NoTables /\ Two
      /\ \E g \in Frames : IsFrame(main.b, g) /\ held = {g}
      /\ report \in [{"pmm", "paging", "kheap"} -> {"none", "ok", "failed"}]
  BY <1>1, StageFacts DEF TestPcs, TestInv
<1>3. PICK g \in Frames : IsFrame(main.b, g) /\ held = {g}
  BY <1>2
<1>4. GiveFrame(g) /\ g \in held
  BY <1>1, <1>3, ReleaseGives
<1>5. /\ SpaceInv' /\ Accounts' /\ Pool' = Pool
      /\ space' = space /\ tables' = tables /\ init.step = "ready" /\ init' = init
      /\ held' = held \ {g} /\ Owned' = Owned \ {g}
  BY <1>2, <1>4, AccountsGive
<1>6. NoTables' /\ held' = {}
  BY <1>2, <1>3, <1>5 DEF NoTables, NoneMapped
<1>7. report'["pmm"] = "ok"
      /\ report' \in [{"pmm", "paging", "kheap"} -> {"none", "ok", "failed"}]
  BY <1>1, <1>2
<1>8. Tested'
  BY <1>2, <1>5, <1>7 DEF Tested, Two
<1>9. TestInv'
  BY <1>1, <1>6, <1>8 DEF TestInv
<1> QED BY <1>1, <1>2, <1>4, <1>5, <1>7, <1>9, StageStep DEF TestPcs, ASStep, ASNext

(* paging_self_test takes a frame; a machine too small has none left.      *)
LEMMA PagingAllocStage ==
  ASSUME KernelInv, paging_test_alloc
  PROVE  KernelInv' /\ SameHeapPages /\ ASStep
<1> DEFINE addr == pmm_alloc_frame(pmm).addr
<1>1. /\ main.pc = "paging" /\ TakeFrame /\ UnchangedHeap
      /\ IF addr = NULL THEN Done("paging", FALSE, "kheap_init")
         ELSE main' = [main EXCEPT !.pc = "paging_map", !.a = addr] /\ UNCHANGED report
  BY DEF paging_test_alloc
<1>2. /\ call.pc = "boot" /\ SpaceInv /\ Accounts /\ NoTables
      /\ TooSmall \/ (Tested /\ held = {})
      /\ main = [pc |-> main.pc, a |-> main.a, b |-> main.b]
      /\ report \in [{"pmm", "paging", "kheap"} -> {"none", "ok", "failed"}]
  BY <1>1, StageFacts DEF TestPcs, TestInv
<1>3. /\ SpaceInv' /\ Accounts' /\ Pool' = Pool
      /\ space' = space /\ tables' = tables /\ init.step = "ready" /\ init' = init
      /\ \/ addr = 0 /\ Pool = Owned /\ held' = held /\ Owned' = Owned
         \/ \E f \in Frames :
              /\ addr = f * PMM_PAGE_SIZE /\ addr_to_frame(addr) = f /\ addr \in Nat \ {0}
              /\ f \in Pool \ Owned /\ f \notin held /\ Unmapped(f)
              /\ held' = held \cup {f} /\ Owned' = Owned \cup {f}
  BY <1>1, <1>2, AccountsTake
<1> HIDE DEF addr
<1>4. NoTables' /\ Two' = Two
  BY <1>2, <1>3 DEF NoTables, NoneMapped, Two
<1>5. CASE TooSmall
  <2>1. addr = 0 /\ held' = held
    BY <1>3, <1>5 DEF TooSmall, NoTables
  <2>2. /\ main' = [pc |-> "kheap_init", a |-> NULL, b |-> NULL]
        /\ report' = [report EXCEPT !["paging"] = "failed"]
    BY <1>1, <2>1 DEF Done, NULL
  <2>3. /\ report'["pmm"] = report["pmm"]
        /\ report' \in [{"pmm", "paging", "kheap"} -> {"none", "ok", "failed"}]
    BY <1>2, <2>2
  <2>4. TooSmall'
    BY <1>3, <1>4, <1>5, <2>1, <2>3 DEF TooSmall
  <2>5. TestInv'
    BY <2>2, <2>4 DEF TestInv
  <2> QED BY <1>1, <1>2, <1>3, <2>2, <2>3, <2>5, StageStep DEF TestPcs, ASStep, ASNext
<1>6. CASE Tested /\ held = {}
  <2>1. Pool # Owned
    BY <1>2, <1>6 DEF Tested, Two, NoTables
  <2>2. PICK f \in Frames :
              /\ addr = f * PMM_PAGE_SIZE /\ addr_to_frame(addr) = f /\ addr \in Nat \ {0}
              /\ held' = held \cup {f}
    BY <1>3, <2>1
  <2>3. main' = [pc |-> "paging_map", a |-> addr, b |-> main.b] /\ report' = report
    BY <1>1, <1>2, <2>2 DEF NULL
  <2>4. IsFrame(main'.a, f) /\ held' = {f}
    BY <1>6, <2>2, <2>3 DEF IsFrame, NULL
  <2>5. Tested'
    BY <1>4, <1>6, <2>3 DEF Tested
  <2>6. TestInv'
    BY <1>4, <2>3, <2>4, <2>5 DEF TestInv
  <2> QED BY <1>1, <1>2, <1>3, <2>3, <2>6, StageStep DEF TestPcs, ASStep, ASNext
<1> QED BY <1>2, <1>5, <1>6

(* Mapping the test page makes its table: there is a frame left for it.    *)
LEMMA PagingMapStage ==
  ASSUME KernelInv, paging_test_map
  PROVE  KernelInv' /\ SameHeapPages /\ ASStep
<1>1. main.pc = "paging_map" /\ UnchangedHeap
  BY DEF paging_test_map
<1>2. /\ call.pc = "boot" /\ SpaceInv /\ Accounts /\ NoTables /\ Tested
      /\ \E f \in Frames : IsFrame(main.a, f) /\ held = {f}
      /\ main = [pc |-> main.pc, a |-> main.a, b |-> main.b]
      /\ report \in [{"pmm", "paging", "kheap"} -> {"none", "ok", "failed"}]
  BY <1>1, StageFacts DEF TestPcs, TestInv
<1>3. PICK f \in Frames : IsFrame(main.a, f) /\ held = {f}
  BY <1>2
<1>4. Allocatable(pmm) # {}
  BY <1>2, <1>3 DEF Tested, Two, NoTables, Pool
<1>5. /\ ASMap(TestPage, f) /\ f \in held
      /\ main' = [main EXCEPT !.pc = "paging_unmap"] /\ report' = report
  BY <1>3, <1>4 DEF paging_test_map, Goto, IsFrame
<1>6. TestPage \in ClientPages /\ TestPage \in SpacePages
  BY KernelMainPages, ClientInSpace
<1>7. /\ SpaceInv' /\ Accounts' /\ Pool' = Pool /\ held' = held
      /\ init.step = "ready" /\ init' = init
      /\ \A w \in SpacePages : space'[w] = IF w = TestPage THEN f ELSE space[w]
      /\ tables' = tables \cup {TestTable}
  BY <1>2, <1>5, <1>6, AccountsMap DEF TestTable
<1>8. main' = [pc |-> "paging_unmap", a |-> main.a, b |-> main.b]
  BY <1>2, <1>5
<1>9. \A v \in ClientPages : space'[v] = IF v = TestPage THEN f ELSE NotMapped
  BY <1>2, <1>7, ClientInSpace DEF NoTables, NoneMapped
<1>10. Tested' /\ tables' = {KERNEL_PDE, TestTable}
  BY <1>2, <1>5, <1>7 DEF Tested, Two, NoTables
<1>11. TestInv'
  BY <1>3, <1>7, <1>8, <1>9, <1>10 DEF TestInv, TestTable
<1> QED BY <1>1, <1>2, <1>5, <1>6, <1>7, <1>8, <1>11, StageStep DEF TestPcs, ASStep, ASNext

(* The test page reads back as the frame, and is unmapped.                 *)
LEMMA PagingUnmapStage ==
  ASSUME KernelInv, paging_test_unmap
  PROVE  KernelInv' /\ SameHeapPages /\ ASStep
<1>1. /\ main.pc = "paging_unmap" /\ UnchangedHeap /\ ASUnmap(TestPage) /\ report' = report
      /\ main' = [main EXCEPT !.pc = IF space[TestPage] = addr_to_frame(main.a)
                                     THEN "paging_free" ELSE "paging_bad"]
  BY DEF paging_test_unmap, Goto
<1>2. /\ call.pc = "boot" /\ SpaceInv /\ Accounts /\ Tested
      /\ tables = {KERNEL_PDE, TestTable}
      /\ \E f \in Frames :
           /\ IsFrame(main.a, f) /\ held = {f}
           /\ \A v \in ClientPages : space[v] = IF v = TestPage THEN f ELSE NotMapped
      /\ main = [pc |-> main.pc, a |-> main.a, b |-> main.b]
      /\ report \in [{"pmm", "paging", "kheap"} -> {"none", "ok", "failed"}]
  BY <1>1, StageFacts DEF TestPcs, TestInv
<1>3. PICK f \in Frames :
        /\ IsFrame(main.a, f) /\ held = {f}
        /\ \A v \in ClientPages : space[v] = IF v = TestPage THEN f ELSE NotMapped
  BY <1>2
<1>4. TestPage \in ClientPages
  BY KernelMainPages
<1>5. /\ SpaceInv' /\ Accounts' /\ Pool' = Pool /\ held' = held
      /\ init.step = "ready" /\ init' = init /\ tables' = tables
      /\ \A w \in SpacePages : space'[w] = IF w = TestPage THEN NotMapped ELSE space[w]
  BY <1>1, <1>2, <1>4, AccountsUnmap
<1>6. space[TestPage] = addr_to_frame(main.a)
  BY <1>3, <1>4 DEF IsFrame
<1>7. main' = [pc |-> "paging_free", a |-> main.a, b |-> main.b]
  BY <1>1, <1>2, <1>6
<1>8. NoneMapped'
  BY <1>3, <1>5, ClientInSpace DEF NoneMapped
<1>9. Tested' /\ tables' = {KERNEL_PDE, TestTable}
  BY <1>1, <1>2, <1>5 DEF Tested, Two
<1>10. TestInv'
  BY <1>3, <1>5, <1>7, <1>8, <1>9 DEF TestInv, TestTable
<1> QED BY <1>1, <1>2, <1>4, <1>5, <1>7, <1>10, StageStep DEF TestPcs, ASStep, ASNext

(* The frame goes back; the table of the test page stays.                  *)
LEMMA PagingFreeStage ==
  ASSUME KernelInv, paging_test_free
  PROVE  KernelInv' /\ SameHeapPages /\ ASStep
<1>1. main.pc = "paging_free"
  BY DEF paging_test_free, KernelInv, Control, TestPcs, HeapPcs
<1>2. /\ call.pc = "boot" /\ SpaceInv /\ Accounts /\ Tested /\ NoneMapped
      /\ tables = {KERNEL_PDE, TestTable}
      /\ \E f \in Frames : IsFrame(main.a, f) /\ held = {f}
      /\ report \in [{"pmm", "paging", "kheap"} -> {"none", "ok", "failed"}]
  BY <1>1, StageFacts DEF TestPcs, TestInv
<1>3. space[TestPage] = NotMapped
  BY <1>2, KernelMainPages DEF NoneMapped
<1>4. /\ Release(main.a) /\ UnchangedHeap
      /\ main' = [pc |-> "kheap_init", a |-> NULL, b |-> NULL]
      /\ report' = [report EXCEPT !["paging"] = "ok"]
  BY <1>1, <1>3 DEF paging_test_free, Done
<1>5. PICK f \in Frames : IsFrame(main.a, f) /\ held = {f}
  BY <1>2
<1>6. GiveFrame(f) /\ f \in held
  BY <1>4, <1>5, ReleaseGives
<1>7. /\ SpaceInv' /\ Accounts' /\ Pool' = Pool
      /\ space' = space /\ tables' = tables /\ init.step = "ready" /\ init' = init
      /\ held' = held \ {f} /\ Owned' = Owned \ {f}
  BY <1>2, <1>6, AccountsGive
<1>8. /\ report'["pmm"] = report["pmm"] /\ report'["paging"] = "ok"
      /\ report' \in [{"pmm", "paging", "kheap"} -> {"none", "ok", "failed"}]
  BY <1>2, <1>4
<1>9. NoneMapped' /\ held' = {} /\ tables' = {KERNEL_PDE, TestTable} /\ Tested'
  BY <1>2, <1>5, <1>7, <1>8 DEF NoneMapped, Tested, Two
<1>10. TestInv'
  BY <1>4, <1>8, <1>9 DEF TestInv, TestTable
<1> QED BY <1>2, <1>4, <1>6, <1>7, <1>8, <1>10, StageStep DEF TestPcs, ASStep, ASNext

(* pmm_init.                                                               *)
LEMMA BootStage ==
  ASSUME KernelInv, main_pmm_init
  PROVE  KernelInv' /\ SameHeapPages /\ ASStep
<1>1. /\ main.pc = "pmm_init" /\ PmmBoot /\ UnchangedHeap /\ report' = report
      /\ UNCHANGED <<space, tables, held>>
      /\ main' = [main EXCEPT !.pc = IF init'.step = "ready" THEN "pmm_a" ELSE "pmm_init"]
  BY DEF main_pmm_init, KHeapBoot, Goto, UnchangedHeap
<1>2. /\ call.pc = "boot" /\ SpaceInv /\ Accounts /\ NoTables /\ held = {}
      /\ HeapPagesInv /\ HeapListInv
      /\ main = [pc |-> main.pc, a |-> main.a, b |-> main.b]
      /\ report \in [{"pmm", "paging", "kheap"} -> {"none", "ok", "failed"}]
  BY <1>1, StageFacts DEF TestPcs, TestInv
<1>3. SpaceInv' /\ Accounts' /\ Owned' = Owned
  BY <1>1, <1>2, AccountsBoot
<1>4. HeapPagesInv' /\ HeapListInv' /\ SameHeapPages
  BY <1>1, <1>2, <1>3, BeforeHeap
<1>5. /\ main' = [pc |-> main'.pc, a |-> main'.a, b |-> main'.b]
      /\ main'.pc \in {"pmm_init", "pmm_a"}
      /\ main'.pc = "pmm_a" => init'.step = "ready"
  BY <1>1, <1>2
<1>6. Control'
  BY <1>1, <1>2, <1>5 DEF Control, UnchangedHeap, TestPcs
<1>7. NoTables' /\ held' = {}
  BY <1>1, <1>2, <1>3 DEF NoTables, NoneMapped
<1>8. TestInv' /\ PassedInv' /\ HeapInv' /\ main'.pc # "shell"
  BY <1>5, <1>7 DEF TestInv, PassedInv, HeapInv, TestPcs, HeapPcs
<1> QED BY <1>1, <1>3, <1>4, <1>6, <1>8 DEF KernelInv, ASStep, ASNext, ASBoot

(***************************************************************************)
(* Counting the frames of the first extension.                             *)
(***************************************************************************)
(* The initial heap is a whole number of pages within the heap's range.    *)
LEMMA InitialExtent ==
  /\ FirstPage \in Nat /\ GROW \in Nat \ {0}
  /\ GROW * P \in Nat \ {0} /\ GROW * P + P < U32
  /\ Initial = KHEAP_START + GROW * P /\ OnPage(Initial) /\ Initial <= HeapEnd
  /\ page_of(Initial) = FirstPage + GROW
  /\ \A a : OnPage(a) /\ page_of(a) = FirstPage + GROW => a = Initial
  /\ FirstPage .. FirstPage + GROW - 1 \subseteq ClientPages
<1>1. P \in Nat \ {0} /\ GROW \in Nat \ {0} /\ GROW * P <= KHEAP_MAX_BYTES
  BY KHeapSizes, PmmSizes DEF P, GROW
<1>2. GROW * P \in Nat \ {0} /\ (GROW * P) \div P = GROW /\ (GROW * P) % P = 0
  <2>1. GROW * P # 0
    BY <1>1
  <2> QED BY <1>1, <2>1, Multiple
<1> DEFINE g == GROW * P
<1>3. Initial = KHEAP_START + g
  BY DEF Initial, P
<1>4. g \in Nat \ {0} /\ g \div P = GROW /\ g % P = 0 /\ g <= KHEAP_MAX_BYTES
  BY <1>1, <1>2
<1> HIDE DEF g
<1>5. FirstPage \in Nat /\ KHEAP_START \in Nat /\ KHEAP_START % P = 0
      /\ FirstPage = KHEAP_START \div P
  BY HeapSizes, PagesBelow DEF FirstPage, OnPage, page_of, P
<1>6. Initial \in Nat /\ Initial % P = 0 /\ Initial \div P = FirstPage + GROW
  <2>1. /\ (KHEAP_START + g) % P = 0
        /\ (KHEAP_START + g) \div P = KHEAP_START \div P + g \div P
    <3>1. P \in Nat \ {0} /\ g \in Nat /\ g % P = 0 /\ KHEAP_START \in Nat /\ KHEAP_START % P = 0
      BY <1>1, <1>4, <1>5
    <3> QED BY <3>1, MultipleSum
  <2> QED BY <1>3, <1>4, <1>5, <2>1
<1>7. Initial <= HeapEnd /\ g + P < U32
  BY <1>1, <1>3, <1>4, HeapSizes DEF HeapEnd
<1>8. ASSUME NEW a, OnPage(a), page_of(a) = FirstPage + GROW PROVE a = Initial
  <2>1. a \in Nat /\ a % P = 0 /\ a \div P = FirstPage + GROW
    BY <1>8 DEF OnPage, page_of, P
  <2>2. a = (a \div P) * P /\ Initial = (Initial \div P) * P
    BY <1>1, <1>6, <2>1, NoRemainder
  <2> QED BY <1>6, <2>1, <2>2
<1>9. page_of(Initial) = FirstPage + GROW /\ OnPage(Initial)
  BY <1>6 DEF page_of, P, OnPage
<1>10. FirstPage .. FirstPage + GROW - 1 \subseteq ClientPages
  <2>1. page_of(KHEAP_START) .. page_of(Initial) - 1 \subseteq ClientPages
    BY <1>6, <1>7, <1>9, HeapPagesInSpace
  <2>2. FirstPage = page_of(KHEAP_START)
    BY DEF FirstPage
  <2>3. FirstPage + GROW - 1 = page_of(Initial) - 1
    BY <1>1, <1>5, <1>9
  <2> QED BY <2>1, <2>2, <2>3
<1> QED BY <1>1, <1>3, <1>4, <1>5, <1>7, <1>8, <1>9, <1>10 DEF g

(* Requests up to its size extend the heap by just that.                   *)
LEMMA GrowPages ==
  ASSUME NEW n \in Nat, n <= GROW * PMM_PAGE_SIZE
  PROVE  PageCount(n) = GROW
<1> DEFINE g == GROW * P
           m == g + P - 1
<1>1. P \in Nat \ {0} /\ U32 \in Nat \ {0} /\ GROW \in Nat
  BY HeapSizes, PmmSizes, InitialExtent
<1>2. g \in Nat /\ g + P < U32 /\ g = GROW * P
  BY InitialExtent
<1>3. PageCount(n) = (((IF n < g THEN g ELSE n) + P - 1) % U32) \div P
  BY DEF PageCount, P, GROW
<1>4. n <= g
  BY DEF P
<1>5. (GROW + 1) * P = g + P
  BY <1>1
<1> HIDE DEF g
<1>6. (IF n < g THEN g ELSE n) = g
  BY <1>2, <1>4
<1>7. m \in Nat /\ m % U32 = m
  BY <1>1, <1>2
<1>8. GROW * P <= m /\ m < (GROW + 1) * P
  BY <1>1, <1>2, <1>5
<1> HIDE DEF m
<1>9. m \div P \in Nat /\ GROW <= m \div P /\ m \div P <= GROW
  BY <1>1, <1>7, <1>8, DivUpper, DivLower, DivBounds
<1> QED BY <1>1, <1>3, <1>6, <1>7, <1>9 DEF m

(* The page tables of a range of the heap's pages are few.                 *)
LEMMA TablesCard ==
  ASSUME NEW top \in Nat
  PROVE  IsFiniteSet(TablesTo(top)) /\ Cardinality(TablesTo(top)) \in Nat
<1> DEFINE S == FirstPage .. top - 1
           F == [v \in S |-> pde_idx(v)]
<1>1. IsFiniteSet(S)
  BY InitialExtent, FS_Interval
<1>2. F \in Surjection(S, TablesTo(top))
  BY DEF Surjection, TablesTo
<1>3. IsFiniteSet(TablesTo(top))
  BY <1>1, <1>2, FS_Surjection
<1> QED BY <1>3, FS_CardinalityType

(* A longer range has at least the tables of a shorter one.                *)
LEMMA TablesGrow ==
  ASSUME NEW a \in Nat, NEW b \in Nat, a <= b
  PROVE  /\ TablesTo(a) \subseteq TablesTo(b)
         /\ Cardinality(TablesTo(a)) <= Cardinality(TablesTo(b))
<1>1. TablesTo(a) \subseteq TablesTo(b)
  BY InitialExtent DEF TablesTo
<1> QED BY <1>1, TablesCard, FS_Subset

(* The tables of the heap are neither the kernel's nor the test page's.    *)
LEMMA TablesApart ==
  ASSUME NEW top \in Nat, top <= page_of(HeapEnd)
  PROVE  KERNEL_PDE \notin TablesTo(top) /\ TestTable \notin TablesTo(top)
         /\ KERNEL_PDE # TestTable
<1>1. page_of(HeapEnd) \in Nat /\ FirstPage \in Nat
  BY HeapSizes, PagesBelow, InitialExtent
<1>2. FirstPage .. top - 1 \subseteq page_of(KHEAP_START) .. page_of(HeapEnd) - 1
  BY <1>1 DEF FirstPage
<1>3. \A v \in FirstPage .. top - 1 : pde_idx(v) # TestTable
  BY <1>2, KernelMainPages DEF TestTable, HeapEnd
<1>4. FirstPage .. top - 1 \subseteq ClientPages
  BY <1>2, KHeapSizes DEF HeapEnd
<1>5. \A v \in ClientPages : pde_idx(v) # KERNEL_PDE
  BY PagingSizes
<1> QED BY <1>3, <1>4, <1>5, KernelMainPages DEF TablesTo, TestTable

(* A range of pages is backed by at most as many frames.                   *)
LEMMA BackingCard ==
  ASSUME NEW top \in Nat, FirstPage <= top
  PROVE  IsFiniteSet(Backing(top)) /\ Cardinality(Backing(top)) \in Nat
         /\ Cardinality(Backing(top)) <= top - FirstPage
<1> DEFINE S == FirstPage .. top - 1
           F == [v \in S |-> space[v]]
<1>1. IsFiniteSet(S) /\ Cardinality(S) = top - FirstPage
  <2>1. IsFiniteSet(S) /\ Cardinality(S) = IF FirstPage > top - 1 THEN 0 ELSE (top - 1) - FirstPage + 1
    <3>1. FirstPage \in Int /\ top - 1 \in Int
      BY InitialExtent
    <3> QED BY <3>1, FS_Interval
  <2> QED BY <2>1, InitialExtent
<1>2. F \in Surjection(S, Backing(top))
  BY DEF Surjection, Backing
<1>3. IsFiniteSet(Backing(top)) /\ Cardinality(Backing(top)) <= Cardinality(S)
  BY <1>1, <1>2, FS_Surjection
<1> QED BY <1>1, <1>3, FS_CardinalityType

(* The heap's pages map distinct frames, so the heap holds one for each.   *)
LEMMA HeldCard ==
  ASSUME HeapPagesInv, NEW n \in Nat, FirstPage + n <= page_of(Top)
  PROVE  n <= Cardinality(held)
<1> DEFINE S == FirstPage .. FirstPage + n - 1
           F == [v \in S |-> space[v]]
<1>1. page_of(Top) \in Nat /\ FirstPage \in Nat
  BY TopAboveEnd, PagesBelow, InitialExtent
<1>2. S \subseteq FirstPage .. page_of(Top) - 1
  BY <1>1
<1>3. F \in Injection(S, held)
  <2>1. \A a, b \in S : space[a] \in held /\ (a # b => space[a] # space[b])
    BY <1>2 DEF HeapPagesInv, Backed, FirstPage
  <2>2. F \in [S -> held]
    BY <2>1
  <2>3. \A a, b \in S : F[a] = F[b] => a = b
    BY <2>1
  <2> HIDE DEF F, S
  <2> QED BY <2>2, <2>3 DEF Injection, IsInjective
<1>4. Cardinality(S) = n
  <2>1. Cardinality(S) = IF FirstPage > FirstPage + n - 1 THEN 0
                         ELSE (FirstPage + n - 1) - FirstPage + 1
    BY <1>1, FS_Interval
  <2> QED BY <1>1, <2>1
<1>5. IsFiniteSet(held)
  BY CountedSets DEF HeapPagesInv
<1>6. Cardinality(S) <= Cardinality(held)
  BY <1>3, <1>5, FS_Injection
<1> QED BY <1>4, <1>6

(* Machines with fewer than two frames.                                    *)
LEMMA FewFrames ==
  ASSUME PmmInv
  PROVE  /\ Cardinality(Pool) \in Nat /\ Need \in Nat /\ Need >= 2
         /\ ~Two => Cardinality(Pool) <= 1 /\ ~Rich
<1>1. IsFiniteSet(Pool) /\ Cardinality(Pool) \in Nat
  BY PoolParts, FS_CardinalityType
<1>2. Need \in Nat /\ Need >= 2
  BY InitialExtent, TablesCard DEF Need
<1>3. ASSUME ~Two PROVE Cardinality(Pool) <= 1
  <2>1. CASE Pool = {}
    BY <2>1, FS_EmptySet
  <2>2. ASSUME NEW f \in Pool PROVE Cardinality(Pool) = 1
    <3>1. Pool = {f}
      BY <1>3 DEF Two
    <3> QED BY <3>1, FS_Singleton
  <2> QED BY <2>1, <2>2
<1> QED BY <1>1, <1>2, <1>3 DEF Rich

(* Success: when the first pages are all mapped the machine had the memory.*)
LEMMA ExtendedRich ==
  ASSUME HeapPagesInv, Accounts, PassedInv, main.pc \notin TestPcs,
         FirstPage + GROW <= page_of(Top)
  PROVE  Rich /\ Two
<1> DEFINE top == FirstPage + GROW
           T == TablesTo(top)
           C == tables \ {KERNEL_PDE}
<1>1. /\ GROW \in Nat \ {0} /\ top \in Nat /\ page_of(Top) \in Nat /\ FirstPage \in Nat
      /\ FirstPage .. top - 1 \subseteq ClientPages /\ top <= page_of(HeapEnd)
  <2>1. page_of(Top) \in Nat /\ page_of(HeapEnd) \in Nat /\ page_of(Top) <= page_of(HeapEnd)
    BY TopAboveEnd, PagesBelow, HeapSizes
  <2> QED BY <2>1, InitialExtent
<1>2. GROW <= Cardinality(held)
  BY <1>1, HeldCard
<1>3. \A v \in FirstPage .. top - 1 : space[v] \in held
  BY <1>1 DEF HeapPagesInv, Backed, FirstPage
<1>4. T \subseteq C
  <2>1. \A v \in FirstPage .. top - 1 : space[v] # NotMapped
    BY <1>3, ClientInSpace DEF HeapPagesInv, SpaceInv, HeldOwned
  <2>2. T \subseteq tables
    BY <1>1, <2>1 DEF Accounts, TablesTo
  <2> QED BY <1>1, <2>2, TablesApart
<1>5. IsFiniteSet(C) /\ Cardinality(C) \in Nat
  BY FS_RemoveElement, FS_CardinalityType DEF Accounts
<1>6. IsFiniteSet(T) /\ Cardinality(T) \in Nat
  BY <1>1, TablesCard
<1>7. Cardinality(Owned) = Cardinality(held) + Cardinality(C)
      /\ Cardinality(held) \in Nat
  BY CountedSets DEF Accounts, HeapPagesInv
<1>8. Cardinality(Owned) <= Cardinality(Pool) /\ Cardinality(Pool) \in Nat
  <2>1. Owned \subseteq Pool /\ IsFiniteSet(Pool)
    BY PoolParts DEF HeapPagesInv, SpaceInv, Pool
  <2> QED BY <2>1, FS_Subset, FS_CardinalityType
<1>9. Two
  <2>1. FirstPage \in FirstPage .. top - 1
    BY <1>1
  <2>2. T # {}
    BY <2>1 DEF TablesTo
  <2>3. Cardinality(T) >= 1
    BY <1>6, <2>2, FS_EmptySet
  <2>4. Cardinality(T) <= Cardinality(C)
    BY <1>4, <1>5, FS_Subset
  <2>5. Cardinality(Pool) >= 2
    BY <1>1, <1>2, <1>5, <1>6, <1>7, <1>8, <2>3, <2>4
  <2> QED BY <1>8, <2>5, FewFrames DEF HeapPagesInv, SpaceInv
<1>10. TestTable \in C /\ TestTable \notin T
  BY <1>1, <1>9, TablesApart DEF PassedInv
<1>11. 1 + Cardinality(T) <= Cardinality(C)
  <2>1. Cardinality(T \cup {TestTable}) = Cardinality(T) + 1
    BY <1>6, <1>10, FS_AddElement
  <2>2. T \cup {TestTable} \subseteq C
    BY <1>4, <1>10
  <2>3. Cardinality(T \cup {TestTable}) <= Cardinality(C)
    BY <1>5, <2>2, FS_Subset
  <2> QED BY <1>5, <1>6, <2>1, <2>3
<1>12. Need = 1 + GROW + Cardinality(T)
  BY DEF Need
<1> HIDE DEF T, C, top
<1>13. Cardinality(Pool) >= Need
  BY <1>1, <1>2, <1>5, <1>6, <1>7, <1>8, <1>11, <1>12
<1> QED BY <1>9, <1>13 DEF Rich
(***************************************************************************)
(* The calls of the heap and the accounts.                                 *)
(***************************************************************************)
Accounted ==
  Accounts' /\ Pool' = Pool /\ init' = init /\ tables \subseteq tables'

(* kheap_extend asks for a frame: it gets one, or there is none.           *)
LEMMA FrameAccounts ==
  ASSUME HeapPagesInv, Accounts, kheap_extend_frame
  PROVE  /\ Accounted /\ space' = space /\ tables' = tables
         /\ call.pc = "page" /\ call.pages > 0
         /\ \/ call' = Idle /\ Pool = Owned
            \/ \E f \in Frames :
                 /\ call'.pc = "map" /\ addr_to_frame(call'.frame) = f
                 /\ call'.map_at = call.map_at /\ call'.pages = call.pages
                 /\ call'.op = call.op /\ call'.needed = call.needed
                 /\ held' = held \cup {f}
<1> DEFINE addr == pmm_alloc_frame(pmm).addr
<1>1. /\ call.pc = "page" /\ call.pages > 0 /\ TakeFrame
      /\ call' = IF addr = NULL THEN Idle
                 ELSE [call EXCEPT !.pc = "map", !.frame = addr]
  BY DEF kheap_extend_frame, kheap_extend_fails
<1>2. /\ Accounts' /\ Pool' = Pool
      /\ space' = space /\ tables' = tables /\ init' = init
      /\ \/ addr = 0 /\ Pool = Owned /\ held' = held /\ Owned' = Owned
         \/ \E f \in Frames :
              /\ addr = f * PMM_PAGE_SIZE /\ addr_to_frame(addr) = f /\ addr \in Nat \ {0}
              /\ f \in Pool \ Owned /\ f \notin held /\ Unmapped(f)
              /\ held' = held \cup {f} /\ Owned' = Owned \cup {f}
  BY <1>1, AccountsTake DEF HeapPagesInv
<1> HIDE DEF addr
<1>3. Accounted
  BY <1>2 DEF Accounted
<1>4. CASE addr = 0
  BY <1>1, <1>2, <1>3, <1>4 DEF NULL
<1>5. CASE addr # 0
  <2>1. PICK f \in Frames : addr_to_frame(addr) = f /\ held' = held \cup {f}
    BY <1>2, <1>5
  <2>2. call' = [call EXCEPT !.pc = "map", !.frame = addr]
    BY <1>1, <1>5 DEF NULL
  <2>3. /\ call'.pc = "map" /\ call'.map_at = call.map_at
        /\ call'.pages = call.pages /\ call'.frame = addr
        /\ call'.op = call.op /\ call'.needed = call.needed
    BY <2>2 DEF HeapPagesInv, CallType
  <2> QED BY <1>1, <1>2, <1>3, <2>1, <2>3
<1> QED BY <1>4, <1>5

(* It maps the frame at the next page, with a new table if need be.        *)
LEMMA MapAccounts ==
  ASSUME HeapPagesInv, Accounts, kheap_extend_map
  PROVE  /\ Accounted /\ held' = held /\ call.pc = "map"
         /\ page_of(call.map_at) \in ClientPages
         /\ tables' = tables \cup {pde_idx(page_of(call.map_at))}
         /\ \A w \in SpacePages :
              space'[w] = IF w = page_of(call.map_at) THEN addr_to_frame(call.frame)
                          ELSE space[w]
         /\ call'.pc = "page" /\ call'.pages = call.pages - 1
         /\ call'.map_at = call.map_at + P /\ page_of(call'.map_at) = page_of(call.map_at) + 1
         /\ call'.op = call.op /\ call'.needed = call.needed
<1> DEFINE f == addr_to_frame(call.frame)
           v == page_of(call.map_at)
<1>1. /\ call.pc = "map" /\ ASMap(v, f)
      /\ call' = [call EXCEPT !.pc = "page", !.map_at = call.map_at + PMM_PAGE_SIZE,
                              !.pages = call.pages - 1]
  BY DEF kheap_extend_map
<1>2. /\ f \in held /\ call.map_at \in Nat /\ call.map_at % P = 0 /\ call.map_at < HeapEnd
      /\ kheap.end <= call.map_at
  BY <1>1 DEF HeapPagesInv, GrowInv, Growing, FrameInHand, OnPage
<1>3. KHEAP_START <= kheap.end /\ kheap.end \in Nat
  BY DEF HeapPagesInv, Extent, OnPage
<1>4. v \in ClientPages
  BY <1>2, <1>3, HeapSizes, PageInHeap
<1>5. /\ call'.pc = "page" /\ call'.pages = call.pages - 1
      /\ call'.map_at = call.map_at + P
      /\ call'.op = call.op /\ call'.needed = call.needed
  BY <1>1 DEF HeapPagesInv, CallType, P
<1>6. page_of(call.map_at + P) = v + 1
  BY <1>2, NextPage
<1>7. page_of(call'.map_at) = v + 1
  BY <1>5, <1>6
<1> HIDE DEF f, v
<1>8. /\ Accounts' /\ Pool' = Pool /\ held' = held /\ init' = init
      /\ \A w \in SpacePages : space'[w] = IF w = v THEN f ELSE space[w]
      /\ tables' = tables \cup {pde_idx(v)}
  BY <1>1, <1>2, <1>4, AccountsMap DEF HeapPagesInv
<1>9. Accounted
  BY <1>8 DEF Accounted
<1> QED BY <1>1, <1>4, <1>5, <1>7, <1>8, <1>9 DEF f, v

(* Without memory for the table it gives the frame back.                   *)
LEMMA MapFailsAccounts ==
  ASSUME HeapPagesInv, Accounts, kheap_extend_map_fails
  PROVE  /\ Accounted /\ call.pc = "map" /\ call' = Idle
         /\ Pool = Owned /\ pde_idx(page_of(call.map_at)) \notin tables
<1> DEFINE f == addr_to_frame(call.frame)
<1>1. /\ call.pc = "map" /\ ClientFree(call.frame) /\ held' = held \ {f}
      /\ call' = Idle /\ space' = space /\ tables' = tables
      /\ pde_idx(page_of(call.map_at)) \notin tables /\ Allocatable(pmm) = {}
  BY DEF kheap_extend_map_fails, map_failed, kheap_extend_fails
<1>2. f \in held /\ Unmapped(f) /\ call.frame = f * PMM_PAGE_SIZE
  BY <1>1 DEF HeapPagesInv, GrowInv, Growing, FrameInHand
<1> HIDE DEF f
<1>3. GiveFrame(f)
  BY <1>1, <1>2 DEF GiveFrame, Unmapped
<1>4. Accounts' /\ Pool' = Pool /\ init' = init
  BY <1>2, <1>3, AccountsGive DEF HeapPagesInv
<1> QED BY <1>1, <1>4 DEF Accounted, Pool

(* No other step of a call touches the memory.                             *)
LEMMA CallAccounts ==
  ASSUME HeapPagesInv, Accounts, CallStep
  PROVE  Accounted
<1>1. ASSUME UNCHANGED asVars PROVE Accounted
  BY <1>1, AccountsSame DEF Accounted
<1>2. CASE kheap_init \/ kmalloc_found \/ kmalloc_scan \/ kheap_extend
  BY <1>1, <1>2 DEF kheap_init, kmalloc_found, kmalloc_scan, kheap_extend
<1>3. CASE kheap_extend_limit \/ kheap_extend_link
  BY <1>1, <1>3 DEF kheap_extend_limit, StopAtLimit, kheap_extend_link
<1>4. CASE kheap_extend_frame
  BY <1>4, FrameAccounts
<1>5. CASE kheap_extend_map
  BY <1>5, MapAccounts
<1>6. CASE kheap_extend_map_fails
  BY <1>6, MapFailsAccounts
<1> QED BY <1>2, <1>3, <1>4, <1>5, <1>6 DEF CallStep

(* Nor do kmalloc and kfree themselves.                                    *)
LEMMA QuietAccounts ==
  ASSUME Accounts, UNCHANGED asVars
  PROVE  Accounted /\ held' = held /\ space' = space /\ tables' = tables
BY AccountsSame DEF Accounted

(* What is left to show of a step between the stages of the heap's test.   *)
LEMMA HeapStep ==
  ASSUME KernelInv, main.pc \in HeapPcs, HeapPagesInv', HeapListInv', Accounted,
         call'.pc # "boot", report' = report,
         main' = [pc |-> main'.pc, a |-> main'.a, b |-> main'.b],
         main'.pc \in HeapPcs, GrowthInv', StageInv'
  PROVE  KernelInv'
<1>1. /\ main'.pc \notin TestPcs /\ main'.pc # "shell" /\ main'.pc # "pmm_init"
      /\ main.pc \notin TestPcs /\ main.pc # "pmm_init"
  BY DEF TestPcs, HeapPcs
<1>2. Control'
  BY <1>1 DEF KernelInv, Control, Accounted
<1>3. TestInv'
  BY <1>1 DEF TestInv, TestPcs
<1>4. Two' = Two
  BY DEF Accounted, Two
<1>5. PassedInv'
  BY <1>1, <1>4 DEF KernelInv, PassedInv, Tested, Accounted, TestTable
<1> QED BY <1>1, <1>2, <1>3, <1>5 DEF KernelInv, HeapInv, Accounted

(* What the invariant says of those stages.                                *)
LEMMA HeapFacts ==
  ASSUME KernelInv, main.pc \in HeapPcs
  PROVE  /\ HeapPagesInv /\ HeapListInv /\ Accounts /\ GrowthInv /\ StageInv
         /\ call.pc # "boot" /\ init.step = "ready"
         /\ main = [pc |-> main.pc, a |-> main.a, b |-> main.b]
         /\ report \in [{"pmm", "paging", "kheap"} -> {"none", "ok", "failed"}]
         /\ PassedInv /\ main.pc \notin TestPcs /\ kheap.end \in Nat
         /\ kheap.first \in {NULL, KHEAP_START}
         /\ kheap.first = NULL => DOMAIN heap = {} /\ DOMAIN live = {}
                                  /\ kheap.end = KHEAP_START
<1>1. main.pc \notin TestPcs /\ main.pc # "shell"
  BY DEF HeapPcs, TestPcs
<1>2. /\ HeapPagesInv /\ HeapListInv /\ Accounts /\ GrowthInv /\ StageInv
      /\ main = [pc |-> main.pc, a |-> main.a, b |-> main.b]
      /\ report \in [{"pmm", "paging", "kheap"} -> {"none", "ok", "failed"}]
      /\ call.pc # "boot" /\ init.step = "ready" /\ PassedInv
  BY <1>1 DEF KernelInv, HeapInv, Control, HeapPcs, TestPcs
<1>3. ListInv /\ LiveInv /\ kheap.end \in Nat
  BY <1>2, TopAboveEnd DEF HeapListInv
<1>4. kheap.first = NULL => DOMAIN heap = {} /\ DOMAIN live = {} /\ kheap.end = KHEAP_START
  BY <1>3 DEF ListInv, LiveInv
<1> QED BY <1>1, <1>2, <1>3, <1>4 DEF ListInv
(***************************************************************************)
(* The blocks of the heap's test.                                          *)
(***************************************************************************)
(* A request below the size of the first extension, rounded up.            *)
LEMMA RoomIs ==
  ASSUME NEW s \in Nat \ {0}, s + HEADER + KHEAP_ALIGN <= GROW * PMM_PAGE_SIZE
  PROVE  /\ Room(s) = kheap_align(s + HEADER)
         /\ Aligned(Room(s)) /\ Room(s) \in Nat /\ KHEAP_MIN_BLOCK <= Room(s)
         /\ s + HEADER <= Room(s) /\ Room(s) <= GROW * P
         /\ s + HEADER + KHEAP_ALIGN + PMM_PAGE_SIZE <= U32
<1> DEFINE g == GROW * P
           n == kheap_align(s + HEADER)
<1>1. g \in Nat /\ g + P < U32 /\ U32 \in Nat /\ P \in Nat
  BY InitialExtent, HeapSizes
<1>2. HEADER \in Nat \ {0} /\ KHEAP_ALIGN \in Nat \ {0} /\ KHEAP_MIN_BLOCK = HEADER + KHEAP_ALIGN
      /\ Aligned(HEADER)
  BY BlockSizes DEF KHEAP_MIN_BLOCK
<1>3. s + HEADER + KHEAP_ALIGN <= g
  BY DEF P
<1> HIDE DEF g
<1>4. /\ s + HEADER \in Nat /\ (s + HEADER) + KHEAP_ALIGN <= U32 /\ (s + HEADER) % U32 = s + HEADER
      /\ s + HEADER + KHEAP_ALIGN + P <= U32
  BY <1>1, <1>2, <1>3
<1>5. Aligned(n) /\ s + HEADER <= n /\ n < s + HEADER + KHEAP_ALIGN
  BY <1>4, AlignUp
<1>6. n \in Nat /\ n % KHEAP_ALIGN = 0 /\ HEADER % KHEAP_ALIGN = 0
  BY <1>2, <1>5 DEF Aligned
<1>7. Room(s) = IF n < KHEAP_MIN_BLOCK THEN KHEAP_MIN_BLOCK ELSE n
  BY <1>4 DEF Room
<1> HIDE DEF n
<1>8. HEADER < n
  BY <1>2, <1>5, <1>6
<1>9. HEADER + KHEAP_ALIGN <= n
  BY <1>2, <1>6, <1>8, MultipleGap
<1>10. Room(s) = n /\ n <= g
  BY <1>1, <1>2, <1>3, <1>5, <1>6, <1>7, <1>9
<1> QED BY <1>2, <1>4, <1>5, <1>6, <1>9, <1>10 DEF n, g, P

(* The first extension has room for both blocks of the test.               *)
LEMMA RoomFacts ==
  /\ TestSizeA \in Nat \ {0} /\ TestSizeB \in Nat \ {0}
  /\ Aligned(RoomA) /\ RoomA \in Nat /\ KHEAP_MIN_BLOCK <= RoomA /\ TestSizeA + HEADER <= RoomA
  /\ Aligned(RoomB) /\ RoomB \in Nat /\ KHEAP_MIN_BLOCK <= RoomB /\ TestSizeB + HEADER <= RoomB
  /\ RoomA <= GROW * P /\ RoomB <= GROW * P /\ RoomA + RoomB <= GROW * P
  /\ TestSizeA + HEADER + KHEAP_ALIGN + PMM_PAGE_SIZE <= U32
  /\ TestSizeB + HEADER + KHEAP_ALIGN + PMM_PAGE_SIZE <= U32
<1>1. /\ TestSizeA \in Nat \ {0} /\ TestSizeB \in Nat \ {0}
      /\ TestSizeA + HEADER + KHEAP_ALIGN <= GROW * PMM_PAGE_SIZE
      /\ TestSizeB + HEADER + KHEAP_ALIGN <= GROW * PMM_PAGE_SIZE
      /\ kheap_align(TestSizeA + HEADER) + kheap_align(TestSizeB + HEADER)
           <= GROW * PMM_PAGE_SIZE
  BY KernelMainPages DEF GROW
<1>2. /\ RoomA = kheap_align(TestSizeA + HEADER)
      /\ Aligned(RoomA) /\ RoomA \in Nat /\ KHEAP_MIN_BLOCK <= RoomA
      /\ TestSizeA + HEADER <= RoomA /\ RoomA <= GROW * P
      /\ TestSizeA + HEADER + KHEAP_ALIGN + PMM_PAGE_SIZE <= U32
  BY <1>1, RoomIs DEF RoomA
<1>3. /\ RoomB = kheap_align(TestSizeB + HEADER)
      /\ Aligned(RoomB) /\ RoomB \in Nat /\ KHEAP_MIN_BLOCK <= RoomB
      /\ TestSizeB + HEADER <= RoomB /\ RoomB <= GROW * P
      /\ TestSizeB + HEADER + KHEAP_ALIGN + PMM_PAGE_SIZE <= U32
  BY <1>1, RoomIs DEF RoomB
<1>4. RoomA + RoomB <= GROW * P
  BY <1>1, <1>2, <1>3 DEF P
<1> QED BY <1>1, <1>2, <1>3, <1>4

(* A list whose blocks are all free is one block.                          *)
LEMMA OneBlock ==
  ASSUME NEW h, NEW end \in Nat, Linked(h, end), Coalesced(h),
         \A b \in DOMAIN h : h[b].is_free
  PROVE  DOMAIN h = {KHEAP_START} /\ h[KHEAP_START].size = end - KHEAP_START
<1>1. KHEAP_START \in DOMAIN h
  BY DEF Linked
<1>2. h[KHEAP_START].next = NULL
  <2> SUFFICES ASSUME h[KHEAP_START].next # NULL PROVE FALSE
    OBVIOUS
  <2>1. h[KHEAP_START].next \in DOMAIN h
    BY <1>1, NextFacts
  <2> QED BY <1>1, <2>1 DEF Coalesced
<1>3. ASSUME NEW c \in DOMAIN h PROVE c = KHEAP_START
  <2>1. c <= KHEAP_START
    BY <1>1, <1>2, LastUnique
  <2>2. KHEAP_START <= c /\ c \in Nat
    BY BlockFacts DEF BlockOK
  <2> QED BY <2>1, <2>2, HeapSizes
<1>4. KHEAP_START + h[KHEAP_START].size = end /\ h[KHEAP_START].size \in Nat
  BY <1>1, <1>2, BlockFacts DEF BlockOK
<1>5. h[KHEAP_START].size = end - KHEAP_START
  BY <1>4, HeapSizes
<1>6. DOMAIN h = {KHEAP_START}
  BY <1>1, <1>3
<1> QED BY <1>5, <1>6

(* If only the first block is used, and it is not all of the heap, what    *)
(* follows it is one free block.                                           *)
LEMMA TwoBlocks ==
  ASSUME NEW h, NEW end \in Nat, Linked(h, end), Coalesced(h),
         \A b \in DOMAIN h : h[b].is_free <=> b # KHEAP_START,
         KHEAP_START + h[KHEAP_START].size # end
  PROVE  LET n == KHEAP_START + h[KHEAP_START].size
         IN  /\ h[KHEAP_START].next = n /\ n \in DOMAIN h /\ n # KHEAP_START
             /\ h[n].size = end - n
<1> DEFINE n == h[KHEAP_START].next
<1>1. KHEAP_START \in DOMAIN h /\ KHEAP_START \in Nat
  BY HeapSizes DEF Linked
<1>2. n # NULL
  BY <1>1, BlockFacts DEF BlockOK
<1>3. n = KHEAP_START + h[KHEAP_START].size /\ n \in DOMAIN h /\ KHEAP_START < n
  BY <1>1, <1>2, NextFacts
<1>4. h[n].next = NULL
  <2> SUFFICES ASSUME h[n].next # NULL PROVE FALSE
    OBVIOUS
  <2>1. h[n].next \in DOMAIN h /\ h[n].next # KHEAP_START
    BY <1>1, <1>3, NextFacts
  <2> QED BY <1>1, <1>3, <2>1 DEF Coalesced
<1>5. n + h[n].size = end /\ n \in Nat /\ h[n].size \in Nat
  BY <1>3, <1>4, BlockFacts DEF BlockOK
<1> HIDE DEF n
<1> QED BY <1>1, <1>3, <1>5 DEF n

(* The heap as the invariant of the list gives it.                         *)
LEMMA HeapList ==
  ASSUME HeapPagesInv, HeapListInv, kheap.first # NULL
  PROVE  /\ kheap.first = KHEAP_START /\ kheap.end \in Nat
         /\ Linked(heap, kheap.end) /\ Coalesced(heap) /\ KHEAP_START \in DOMAIN heap
         /\ \A b \in DOMAIN heap :
              /\ b \in Nat /\ heap[b].is_free \in BOOLEAN
              /\ heap[b].is_free <=> b + HEADER \notin DOMAIN live
<1>1. kheap.end \in Nat
  BY TopAboveEnd
<1>2. kheap.first = KHEAP_START /\ Linked(heap, kheap.end) /\ Coalesced(heap)
  BY DEF HeapListInv, ListInv
<1>3. \A b \in DOMAIN heap : b \in Nat /\ heap[b].is_free \in BOOLEAN
  BY <1>1, <1>2, BlockFacts
<1>4. ASSUME NEW b \in DOMAIN heap, b + HEADER \in DOMAIN live PROVE ~heap[b].is_free
  <2>1. (b + HEADER) - HEADER = b
    BY <1>3, BlockSizes
  <2>2. ~heap[(b + HEADER) - HEADER].is_free
    BY <1>4 DEF HeapListInv, LiveInv
  <2> QED BY <2>1, <2>2
<1>5. \A b \in DOMAIN heap : ~heap[b].is_free => b + HEADER \in DOMAIN live
  BY DEF HeapListInv, LiveInv
<1> QED BY <1>1, <1>2, <1>3, <1>4, <1>5 DEF Linked

(* With no pointer live the heap is one free block.                        *)
LEMMA HeapIsNew ==
  ASSUME HeapPagesInv, HeapListInv, kheap.first # NULL, DOMAIN live = {}
  PROVE  /\ DOMAIN heap = {KHEAP_START} /\ heap[KHEAP_START].is_free
         /\ heap[KHEAP_START].size = kheap.end - KHEAP_START
<1>1. \A b \in DOMAIN heap : heap[b].is_free
  BY HeapList
<1>2. DOMAIN heap = {KHEAP_START} /\ heap[KHEAP_START].size = kheap.end - KHEAP_START
  BY <1>1, HeapList, OneBlock
<1> QED BY <1>1, <1>2

(* With the first pointer alone live the rest of the heap is one free      *)
(* block, with room for the second.                                        *)
LEMMA HeapHasA ==
  ASSUME HeapPagesInv, HeapListInv, kheap.first # NULL, HasA, kheap.end = Initial
  PROVE  LET n == KHEAP_START + RoomA
         IN  /\ ~heap[KHEAP_START].is_free /\ heap[KHEAP_START].next = n
             /\ n \in DOMAIN heap /\ heap[n].is_free /\ heap[n].size \in Nat
             /\ heap[n].size >= RoomB
<1> DEFINE n == KHEAP_START + RoomA
           g == GROW * P
<1>1. /\ KHEAP_START \in Nat /\ HEADER \in Nat /\ RoomA \in Nat \ {0} /\ RoomB \in Nat \ {0}
      /\ RoomA + RoomB <= g /\ g \in Nat /\ Initial = KHEAP_START + g
  BY RoomFacts, HeapSizes, BlockSizes, InitialExtent
<1> HIDE DEF g
<1>2. \A b \in DOMAIN heap : heap[b].is_free <=> b # KHEAP_START
  BY <1>1, HeapList DEF HasA, PtrA
<1>3. heap[KHEAP_START].size = RoomA /\ n # kheap.end
  BY <1>1 DEF HasA
<1>4. /\ heap[KHEAP_START].next = n /\ n \in DOMAIN heap /\ n # KHEAP_START
      /\ heap[n].size = kheap.end - n
  BY <1>2, <1>3, HeapList, TwoBlocks
<1>5. heap[n].size \in Nat /\ heap[n].size >= RoomB
  BY <1>1, <1>4
<1>6. ~heap[KHEAP_START].is_free /\ heap[n].is_free
  BY <1>2, <1>4, HeapList
<1> QED BY <1>4, <1>5, <1>6
(***************************************************************************)
(* The first extension, in kheap_init or in the calls of the heap's test.  *)
(***************************************************************************)
(* While it runs the machine has given out no more than the pages mapped,  *)
(* the frame in hand and the tables of both.                               *)
LEMMA OwnedAtMost ==
  ASSUME HeapPagesInv, Accounts, FirstGrowth, NEW extra \in {0, 1},
         call.pc = "map" => extra = 1
  PROVE  /\ page_of(Top) \in Nat /\ FirstPage <= page_of(Top) /\ page_of(Top) <= page_of(HeapEnd)
         /\ Cardinality(Owned) \in Nat
         /\ Cardinality(Owned) <= (page_of(Top) - FirstPage) + extra + 1
                                    + Cardinality(TablesTo(page_of(Top)))
<1> DEFINE top == page_of(Top)
           hand == IF call.pc = "map" THEN {addr_to_frame(call.frame)} ELSE {}
           T == TablesTo(top)
           C == tables \ {KERNEL_PDE}
<1>1. top \in Nat /\ FirstPage \in Nat /\ FirstPage <= top /\ top <= page_of(HeapEnd)
  BY TopAboveEnd, PagesBelow, HeapSizes, InitialExtent DEF FirstPage, HeapPagesInv, Extent
<1>2. held = Backing(top) \cup hand /\ tables = {KERNEL_PDE, TestTable} \cup T
  BY DEF FirstGrowth
<1>3. /\ IsFiniteSet(Backing(top)) /\ Cardinality(Backing(top)) \in Nat
      /\ Cardinality(Backing(top)) <= top - FirstPage
  BY <1>1, BackingCard
<1>4. /\ Cardinality(held) \in Nat /\ Cardinality(Owned) \in Nat
      /\ Cardinality(Owned) = Cardinality(held) + Cardinality(C)
  BY CountedSets DEF Accounts, HeapPagesInv
<1>5. Cardinality(held) <= (top - FirstPage) + extra
  <2>1. CASE call.pc = "map"
    <3> DEFINE f == addr_to_frame(call.frame)
    <3>1. held = Backing(top) \cup {f}
      BY <1>2, <2>1
    <3>2. \/ Cardinality(Backing(top) \cup {f}) = Cardinality(Backing(top))
          \/ Cardinality(Backing(top) \cup {f}) = Cardinality(Backing(top)) + 1
      BY <1>3, FS_AddElement
    <3> HIDE DEF f
    <3> QED BY <1>1, <1>3, <2>1, <3>1, <3>2
  <2>2. CASE call.pc # "map"
    BY <1>1, <1>2, <1>3, <2>2
  <2> QED BY <2>1, <2>2
<1>6. Cardinality(C) \in Nat /\ Cardinality(C) = Cardinality(T) + 1 /\ Cardinality(T) \in Nat
  <2>1. C = T \cup {TestTable} /\ TestTable \notin T
    BY <1>1, <1>2, TablesApart
  <2>2. IsFiniteSet(T) /\ Cardinality(T) \in Nat
    BY <1>1, TablesCard
  <2>3. Cardinality(T \cup {TestTable}) = Cardinality(T) + 1
    BY <2>1, <2>2, FS_AddElement
  <2> QED BY <2>1, <2>2, <2>3
<1> HIDE DEF top, T, C
<1>7. Cardinality(Owned) <= (top - FirstPage) + extra + 1 + Cardinality(T)
  BY <1>1, <1>4, <1>5, <1>6
<1> QED BY <1>1, <1>4, <1>7 DEF top, T

(* So a machine with no frame left for the next page has too few.          *)
LEMMA NoFrameLeft ==
  ASSUME HeapPagesInv, Accounts, FirstGrowth, call.pc = "page", Pool = Owned,
         page_of(Top) < FirstPage + GROW
  PROVE  ~Rich
<1> DEFINE top == page_of(Top)
           full == FirstPage + GROW
<1>1. /\ top \in Nat /\ Cardinality(Owned) \in Nat
      /\ Cardinality(Owned) <= (top - FirstPage) + 0 + 1 + Cardinality(TablesTo(top))
  BY OwnedAtMost
<1>2. GROW \in Nat /\ FirstPage \in Nat /\ full \in Nat /\ top <= full
  BY <1>1, InitialExtent
<1>3. /\ Cardinality(TablesTo(top)) <= Cardinality(TablesTo(full))
      /\ Cardinality(TablesTo(top)) \in Nat /\ Cardinality(TablesTo(full)) \in Nat
  BY <1>1, <1>2, TablesGrow, TablesCard
<1>4. Need = 1 + GROW + Cardinality(TablesTo(full))
  BY DEF Need
<1>5. top < full /\ full = FirstPage + GROW
  OBVIOUS
<1> HIDE DEF top, full
<1>6. Cardinality(Owned) < Need
  BY <1>1, <1>2, <1>3, <1>4, <1>5
<1>7. Need \in Nat
  BY <1>2, <1>3, <1>4
<1> QED BY <1>1, <1>6, <1>7 DEF Rich

(* And so has one with no frame left for the next page's table.            *)
LEMMA NoTableLeft ==
  ASSUME HeapPagesInv, Accounts, FirstGrowth, call.pc = "map", Pool = Owned,
         page_of(Top) < FirstPage + GROW, pde_idx(page_of(Top)) \notin tables
  PROVE  ~Rich
<1> DEFINE top == page_of(Top)
           full == FirstPage + GROW
           T == TablesTo(top)
<1>1. /\ top \in Nat /\ FirstPage <= top /\ Cardinality(Owned) \in Nat
      /\ Cardinality(Owned) <= (top - FirstPage) + 1 + 1 + Cardinality(T)
  BY OwnedAtMost
<1>2. GROW \in Nat /\ FirstPage \in Nat /\ full \in Nat /\ top + 1 <= full /\ top + 1 \in Nat
  BY <1>1, InitialExtent
<1>3. pde_idx(top) \notin T
  BY DEF FirstGrowth
<1>4. T \cup {pde_idx(top)} = TablesTo(top + 1)
  <2>1. FirstPage .. (top + 1) - 1 = (FirstPage .. top - 1) \cup {top}
    BY <1>1, <1>2
  <2> HIDE DEF top
  <2> QED BY <2>1 DEF TablesTo
<1>5. Cardinality(TablesTo(top + 1)) = Cardinality(T) + 1 /\ Cardinality(T) \in Nat
  BY <1>1, <1>3, <1>4, TablesCard, FS_AddElement
<1>6. /\ Cardinality(TablesTo(top + 1)) <= Cardinality(TablesTo(full))
      /\ Cardinality(TablesTo(full)) \in Nat
  BY <1>2, TablesGrow, TablesCard
<1>7. Need = 1 + GROW + Cardinality(TablesTo(full))
  BY DEF Need
<1>8. full = FirstPage + GROW
  OBVIOUS
<1> HIDE DEF top, full, T
<1>9. Cardinality(Owned) < Need
  BY <1>1, <1>2, <1>5, <1>6, <1>7, <1>8
<1>10. Need \in Nat
  BY <1>2, <1>6, <1>7
<1> QED BY <1>1, <1>9, <1>10 DEF Rich

(* What is left to show of a step of a call.                               *)
LEMMA CallStage ==
  ASSUME KernelInv, main.pc \in HeapPcs, CallStep, UNCHANGED <<main, report>>,
         call'.pc # "boot", GrowthInv', StageInv'
  PROVE  KernelInv'
<1>1. HeapPagesInv' /\ HeapListInv' /\ Accounted
  BY HeapFacts, CallPages, CallList, CallAccounts
<1>2. /\ main' = [pc |-> main'.pc, a |-> main'.a, b |-> main'.b]
      /\ main'.pc \in HeapPcs
  BY HeapFacts
<1> QED BY <1>1, <1>2, HeapStep

(* The memory of the machine is the same.                                  *)
LEMMA SameMachine ==
  ASSUME Accounted PROVE (Rich' <=> Rich) /\ (Two' <=> Two)
BY DEF Accounted, Rich, Two, Need, TablesTo, FirstPage

(* A call that grows the heap, or fails to, leaves the stage as it is.     *)
LEMMA GrowingStage ==
  ASSUME KernelInv, main.pc \in HeapPcs, CallStep, UNCHANGED <<main, report>>,
         UNCHANGED <<heap, kheap, live>>, kheap.first = NULL,
         call'.pc \in {"extend", "page", "map", "idle"},
         call'.pc # "idle" =>
           /\ call'.op = call.op /\ call'.needed = call.needed /\ Working
           /\ Two /\ main.pc = "kheap_a" => FirstGrowth',
         call'.pc \in {"page", "map"} =>
           page_of(call'.map_at) + call'.pages = FirstPage + GROW,
         main.pc = "kheap_a" => call.pc # "idle",
         main.pc = "kheap_a" /\ call'.pc = "idle" => ~Rich
  PROVE  KernelInv'
<1>1. Accounted /\ (Rich' <=> Rich) /\ (Two' <=> Two)
  BY HeapFacts, CallAccounts, SameMachine
<1>2. main' = main /\ kheap' = kheap /\ live' = live /\ kheap'.first = NULL
  OBVIOUS
<1>3. GrowthInv /\ StageInv
  BY HeapFacts
<1>4. (call'.pc # "idle" => call'.needed <= GROW * PMM_PAGE_SIZE)
  BY <1>3 DEF GrowthInv
<1>5. GrowthInv'
  BY <1>1, <1>2, <1>3, <1>4 DEF GrowthInv, Working, Growing
<1>6. main.pc \notin {"kheap_free_a", "kheap_free_b"}
  BY <1>3 DEF StageInv
<1>7. StageInv'
  BY <1>1, <1>2, <1>3, <1>6 DEF StageInv
<1> QED BY <1>5, <1>7, CallStage
(* kheap_extend sets out to map the first pages.                           *)
LEMMA ExtendStage ==
  ASSUME KernelInv, main.pc \in HeapPcs, kheap_extend, UNCHANGED <<main, report>>
  PROVE  KernelInv'
<1>1. /\ call.pc = "extend" /\ UNCHANGED asVars /\ UNCHANGED <<heap, kheap, live>>
      /\ space' = space /\ held' = held /\ tables' = tables
  BY DEF kheap_extend, asVars
<1>2. kheap.first = NULL /\ kheap.end = KHEAP_START /\ call.needed <= GROW * PMM_PAGE_SIZE
  BY <1>1, HeapFacts DEF GrowthInv, Working
<1>3. ~(kheap.end - KHEAP_START >= KHEAP_MAX_BYTES)
  BY <1>2, HeapSizes
<1>4. call' = [call EXCEPT !.pc = "page", !.map_at = kheap.end, !.pages = PageCount(call.needed)]
  BY <1>3 DEF kheap_extend, ExtendFrom
<1>5. DOMAIN call = {"pc", "op", "size", "needed", "cur", "map_at", "pages", "frame"}
      /\ call.needed \in Nat
  BY HeapFacts DEF HeapPagesInv, CallType
<1>6. /\ call'.pc = "page" /\ call'.map_at = KHEAP_START /\ call'.pages = PageCount(call.needed)
      /\ call'.op = call.op /\ call'.needed = call.needed
  BY <1>2, <1>4, <1>5
<1>7. PageCount(call.needed) = GROW
  BY <1>2, <1>5, GrowPages
<1>8. Top = KHEAP_START /\ Top' = KHEAP_START
  BY <1>1, <1>2, <1>6 DEF Top, Growing
<1>9. FirstGrowth => FirstGrowth'
  BY <1>1, <1>6, <1>8 DEF FirstGrowth, Backing, TablesTo, TestTable
<1>10. main.pc = "kheap_a" /\ Two => FirstGrowth
  BY <1>1, HeapFacts DEF StageInv
<1>11. Working /\ CallStep
  BY <1>1 DEF Working, CallStep
<1> QED BY <1>1, <1>2, <1>6, <1>7, <1>9, <1>10, <1>11, GrowingStage DEF FirstPage

(* In the first extension there are pages to map below the limit.          *)
LEMMA BelowLimit ==
  ASSUME KernelInv, main.pc \in HeapPcs, Growing, call.pages > 0
  PROVE  /\ kheap.first = NULL /\ kheap.end = KHEAP_START
         /\ Top = call.map_at /\ page_of(Top) < FirstPage + GROW
         /\ call.map_at + P <= HeapEnd
<1>1. /\ kheap.first = NULL /\ kheap.end = KHEAP_START /\ Top = call.map_at
      /\ page_of(call.map_at) + call.pages = FirstPage + GROW /\ call.pages \in Nat
      /\ HeapPagesInv
  BY HeapFacts DEF GrowthInv, Growing, Top, HeapPagesInv, CallType
<1>2. /\ call.map_at \in Nat /\ OnPage(call.map_at) /\ call.map_at <= HeapEnd
      /\ page_of(call.map_at) \in Nat
  BY <1>1, TopAboveEnd, PagesBelow
<1>3. page_of(call.map_at) < FirstPage + GROW
  BY <1>1, <1>2, InitialExtent
<1>4. Initial \in Nat /\ Initial <= HeapEnd /\ OnPage(Initial) /\ page_of(Initial) = FirstPage + GROW
  BY InitialExtent DEF OnPage
<1>5. call.map_at < Initial
  <2> SUFFICES ASSUME Initial <= call.map_at PROVE FALSE
    BY <1>2, <1>4
  <2>1. page_of(Initial) <= page_of(call.map_at) /\ page_of(Initial) \in Nat
    BY <1>2, <1>4, PagesBelow
  <2> QED BY <1>2, <1>3, <1>4, <2>1
<1>6. call.map_at < HeapEnd /\ call.map_at % P = 0 /\ KHEAP_START <= call.map_at
  BY <1>1, <1>2, <1>4, <1>5, TopAboveEnd, HeapSizes DEF OnPage
<1>7. call.map_at + P <= HeapEnd
  BY <1>2, <1>6, PageInHeap
<1> QED BY <1>1, <1>3, <1>7

(* So the limit is not met.                                                *)
LEMMA LimitStage ==
  ASSUME KernelInv, main.pc \in HeapPcs
  PROVE  ~kheap_extend_limit
<1> SUFFICES ASSUME kheap_extend_limit PROVE FALSE
  OBVIOUS
<1>1. call.pc = "page" /\ call.pages > 0 /\ OverLimit
  BY DEF kheap_extend_limit
<1>2. call.map_at + P <= HeapEnd /\ call.map_at \in Nat
  BY <1>1, BelowLimit, HeapFacts DEF Growing, HeapPagesInv, CallType
<1> QED BY <1>1, <1>2, HeapSizes DEF OverLimit, P, HeapEnd

(* A frame is taken for the next page, or the machine has too few.         *)
LEMMA FrameStage ==
  ASSUME KernelInv, main.pc \in HeapPcs, kheap_extend_frame, UNCHANGED <<main, report>>
  PROVE  KernelInv'
<1>1. HeapPagesInv /\ Accounts /\ GrowthInv /\ StageInv
  BY HeapFacts
<1>2. /\ space' = space /\ tables' = tables /\ call.pc = "page" /\ call.pages > 0
      /\ \/ call' = Idle /\ Pool = Owned
         \/ \E f \in Frames :
              /\ call'.pc = "map" /\ addr_to_frame(call'.frame) = f
              /\ call'.map_at = call.map_at /\ call'.pages = call.pages
              /\ call'.op = call.op /\ call'.needed = call.needed
              /\ held' = held \cup {f}
  BY <1>1, FrameAccounts
<1>3. UNCHANGED <<heap, kheap, live>> /\ CallStep
  BY DEF kheap_extend_frame, CallStep
<1>4. /\ kheap.first = NULL /\ Working /\ page_of(Top) < FirstPage + GROW
      /\ page_of(call.map_at) + call.pages = FirstPage + GROW /\ Top = call.map_at
  BY <1>1, <1>2, BelowLimit DEF Growing, Working, GrowthInv
<1>5. main.pc = "kheap_a" /\ Two => FirstGrowth
  BY <1>1, <1>2 DEF StageInv
<1>6. CASE call' = Idle /\ Pool = Owned
  <2>1. main.pc = "kheap_a" => ~Rich
    <3>1. CASE Two
      BY <1>1, <1>2, <1>4, <1>5, <1>6, <3>1, NoFrameLeft
    <3>2. CASE ~Two
      BY <1>1, <3>2, FewFrames DEF HeapPagesInv, SpaceInv
    <3> QED BY <3>1, <3>2
  <2>2. call'.pc = "idle"
    BY <1>6 DEF Idle
  <2> QED BY <1>2, <1>3, <1>4, <2>1, <2>2, GrowingStage
<1>7. CASE call' # Idle \/ Pool # Owned
  <2>1. PICK f \in Frames :
              /\ call'.pc = "map" /\ addr_to_frame(call'.frame) = f
              /\ call'.map_at = call.map_at /\ call'.pages = call.pages
              /\ call'.op = call.op /\ call'.needed = call.needed
              /\ held' = held \cup {f}
    BY <1>2, <1>7
  <2>2. Top' = call.map_at
    BY <2>1 DEF Top, Growing
  <2>3. FirstGrowth => FirstGrowth'
    BY <1>2, <1>4, <2>1, <2>2 DEF FirstGrowth, Backing, TablesTo, TestTable
  <2> QED BY <1>2, <1>3, <1>4, <1>5, <2>1, <2>3, GrowingStage
<1> QED BY <1>6, <1>7

(* One more page mapped: its frame and its table join the others.          *)
LEMMA OneMorePage ==
  ASSUME NEW v \in Nat, FirstPage <= v, NEW f, space'[v] = f,
         \A w \in FirstPage .. v - 1 : space'[w] = space[w]
  PROVE  /\ Backing(v + 1)' = Backing(v) \cup {f}
         /\ TablesTo(v + 1) = TablesTo(v) \cup {pde_idx(v)}
<1>1. FirstPage .. (v + 1) - 1 = (FirstPage .. v - 1) \cup {v}
  BY InitialExtent
<1>2. Backing(v + 1)' = Backing(v) \cup {f}
  <2>1. Backing(v + 1)' = {space'[w] : w \in (FirstPage .. v - 1) \cup {v}}
    BY <1>1 DEF Backing
  <2> QED BY <2>1 DEF Backing
<1> QED BY <1>1, <1>2 DEF TablesTo

(* The page is mapped.                                                     *)
LEMMA MapStage ==
  ASSUME KernelInv, main.pc \in HeapPcs, kheap_extend_map, UNCHANGED <<main, report>>
  PROVE  KernelInv'
<1> DEFINE v == page_of(call.map_at)
           f == addr_to_frame(call.frame)
<1>1. HeapPagesInv /\ Accounts /\ GrowthInv /\ StageInv
  BY HeapFacts
<1>2. /\ held' = held /\ call.pc = "map" /\ v \in ClientPages
      /\ tables' = tables \cup {pde_idx(v)}
      /\ \A w \in SpacePages : space'[w] = IF w = v THEN f ELSE space[w]
      /\ call'.pc = "page" /\ call'.pages = call.pages - 1
      /\ page_of(call'.map_at) = v + 1
      /\ call'.op = call.op /\ call'.needed = call.needed
  BY <1>1, MapAccounts
<1>3. UNCHANGED <<heap, kheap, live>> /\ CallStep
  BY DEF kheap_extend_map, CallStep
<1>4. call.pages > 0 /\ call.pages \in Nat
  BY <1>1, <1>2 DEF HeapPagesInv, GrowInv, Growing, CallType
<1>5. /\ kheap.first = NULL /\ Working
      /\ v + call.pages = FirstPage + GROW /\ Top = call.map_at
  BY <1>1, <1>2, <1>4, BelowLimit DEF Growing, Working, GrowthInv
<1>6. v \in Nat /\ FirstPage \in Nat /\ FirstPage <= v
  BY <1>1, <1>5, TopAboveEnd, PagesBelow, HeapSizes, InitialExtent
     DEF HeapPagesInv, Extent, FirstPage
<1>7. page_of(Top') = v + 1
  BY <1>2 DEF Top, Growing
<1>8. main.pc = "kheap_a" /\ Two => FirstGrowth
  BY <1>1, <1>2 DEF StageInv
<1>9. FirstPage .. v - 1 \subseteq ClientPages
  BY <1>1, <1>5, TopAboveEnd, HeapPagesInSpace DEF FirstPage
<1>10. ASSUME FirstGrowth PROVE FirstGrowth'
  <2>1. PICK n \in Nat : n = v
    BY <1>6
  <2>2. held = Backing(n) \cup {f} /\ tables = {KERNEL_PDE, TestTable} \cup TablesTo(n)
    BY <1>2, <1>5, <1>10, <2>1 DEF FirstGrowth
  <2>3. space'[n] = f /\ \A w \in FirstPage .. n - 1 : space'[w] = space[w]
    BY <1>2, <1>6, <1>9, <2>1, ClientInSpace
  <2> HIDE DEF f, v
  <2>4. Backing(n + 1)' = Backing(n) \cup {f} /\ TablesTo(n + 1) = TablesTo(n) \cup {pde_idx(n)}
    BY <1>6, <2>1, <2>3, OneMorePage
  <2>5. held' = Backing(n + 1)' /\ tables' = {KERNEL_PDE, TestTable} \cup TablesTo(n + 1)
    BY <1>2, <2>1, <2>2, <2>4
  <2>6. call'.pc # "map" /\ page_of(Top') = n + 1
    BY <1>2, <1>7, <2>1
  <2> QED BY <2>5, <2>6 DEF FirstGrowth, Backing, TablesTo, TestTable
<1>11. page_of(call'.map_at) + call'.pages = FirstPage + GROW
  BY <1>2, <1>4, <1>5, <1>6
<1> HIDE DEF v, f
<1> QED BY <1>2, <1>3, <1>5, <1>8, <1>10, <1>11, GrowingStage

(* Or the machine has no memory for its table.                             *)
LEMMA MapFailsStage ==
  ASSUME KernelInv, main.pc \in HeapPcs, kheap_extend_map_fails, UNCHANGED <<main, report>>
  PROVE  KernelInv'
<1>1. HeapPagesInv /\ Accounts /\ GrowthInv /\ StageInv
  BY HeapFacts
<1>2. /\ call.pc = "map" /\ call' = Idle
      /\ Pool = Owned /\ pde_idx(page_of(call.map_at)) \notin tables
  BY <1>1, MapFailsAccounts
<1>3. UNCHANGED <<heap, kheap, live>> /\ CallStep
  BY DEF kheap_extend_map_fails, CallStep
<1>4. call.pages > 0
  BY <1>1, <1>2 DEF HeapPagesInv, GrowInv, Growing
<1>5. kheap.first = NULL /\ Top = call.map_at /\ page_of(Top) < FirstPage + GROW
  BY <1>2, <1>4, BelowLimit DEF Growing
<1>6. main.pc = "kheap_a" /\ Two => FirstGrowth
  BY <1>1, <1>2 DEF StageInv
<1>7. main.pc = "kheap_a" => ~Rich
  <2>1. CASE Two
    BY <1>1, <1>2, <1>5, <1>6, <2>1, NoTableLeft
  <2>2. CASE ~Two
    BY <1>1, <2>2, FewFrames DEF HeapPagesInv, SpaceInv
  <2> QED BY <2>1, <2>2
<1>8. call'.pc = "idle"
  BY <1>2 DEF Idle
<1> QED BY <1>2, <1>3, <1>5, <1>7, <1>8, GrowingStage
(* All first pages mapped: the machine had the memory, so this is          *)
(* kheap_init, and the heap has its first block.                           *)
LEMMA LinkStage ==
  ASSUME KernelInv, main.pc \in HeapPcs, kheap_extend_link, UNCHANGED <<main, report>>
  PROVE  KernelInv'
<1>1. /\ HeapPagesInv /\ HeapListInv /\ Accounts /\ GrowthInv /\ StageInv /\ PassedInv
      /\ main.pc \notin TestPcs
  BY HeapFacts
<1>2. /\ call.pc = "page" /\ call.pages = 0 /\ UNCHANGED asVars /\ live' = live
      /\ held' = held /\ space' = space
  BY DEF kheap_extend_link, asVars
<1>3. /\ kheap.first = NULL /\ page_of(call.map_at) + call.pages = FirstPage + GROW
      /\ Top = call.map_at
  BY <1>1, <1>2 DEF GrowthInv, Growing, Top
<1>4. Top \in Nat /\ OnPage(Top) /\ page_of(Top) \in Nat
  BY <1>1, TopAboveEnd, PagesBelow
<1>5. page_of(Top) = FirstPage + GROW
  BY <1>2, <1>3, <1>4
<1>6. call.map_at = Initial
  BY <1>3, <1>4, <1>5, InitialExtent
<1>7. Rich /\ Two
  BY <1>1, <1>4, <1>5, ExtendedRich
<1>8. main.pc = "kheap_a" /\ call.op = "kheap_init" /\ FirstGrowth /\ DOMAIN live = {}
  BY <1>1, <1>2, <1>3, <1>7 DEF GrowthInv, StageInv
<1>9. CallStep
  BY DEF CallStep
<1>10. call'.pc # "halted"
  BY <1>1, <1>9, CallList DEF HeapListInv, ScanInv
<1>11. call' = Idle /\ kheap'.end = Initial /\ kheap'.first # NULL
  <2>1. ~(space[page_of(kheap.end)] = NotMapped)
    <3> SUFFICES ASSUME space[page_of(kheap.end)] = NotMapped PROVE FALSE
      OBVIOUS
    <3>1. call' = [call EXCEPT !.pc = "halted"]
      BY DEF kheap_extend_link
    <3> QED BY <1>1, <1>10, <3>1 DEF HeapPagesInv, CallType
  <2>2. /\ kheap' = [end |-> call.map_at, first |-> kheap.end] /\ call' = Idle
    BY <1>3, <1>8, <2>1 DEF kheap_extend_link
  <2>3. kheap.end = KHEAP_START /\ KHEAP_START # NULL
    BY <1>3, HeapFacts, HeapSizes DEF NULL
  <2> QED BY <1>6, <2>2, <2>3
<1>12. held' = Backing(FirstPage + GROW)'
  BY <1>2, <1>5, <1>8 DEF FirstGrowth, Backing, FirstPage, GROW
<1>13. Rich' /\ main' = main /\ call'.pc = "idle" /\ live' = live
  BY <1>1, <1>2, <1>7, <1>11, QuietAccounts, SameMachine DEF Idle
<1>14. GrowthInv'
  BY <1>11, <1>12, <1>13 DEF GrowthInv, Working, Growing, Initial, FirstPage, GROW
<1>15. StageInv'
  BY <1>8, <1>13 DEF StageInv
<1> QED BY <1>9, <1>13, <1>14, <1>15, CallStage

(* kmalloc scans: on a machine without a heap there is nothing to scan;    *)
(* with a heap the first block fits the first request, and is passed over  *)
(* for the second.                                                         *)
LEMMA ScanStage ==
  ASSUME KernelInv, main.pc \in HeapPcs, kmalloc_scan, UNCHANGED <<main, report>>
  PROVE  KernelInv'
<1>1. HeapPagesInv /\ HeapListInv /\ Accounts /\ GrowthInv /\ StageInv
  BY HeapFacts
<1>2. /\ call.pc = "scan" /\ UNCHANGED asVars /\ UNCHANGED <<heap, kheap, live>>
      /\ held' = held /\ space' = space /\ CallStep
  BY DEF kmalloc_scan, asVars, CallStep
<1>3. /\ main.pc \in {"kheap_b", "kheap_check"}
  BY <1>1, <1>2 DEF StageInv, HeapPcs
<1>4. CASE kheap.first = NULL
  <2>1. call.cur = NULL
    BY <1>1, <1>2, <1>4, HeapFacts DEF HeapListInv, ScanInv
  <2>2. call' = [call EXCEPT !.pc = "extend"]
    BY <2>1 DEF kmalloc_scan
  <2>3. call'.pc = "extend" /\ call'.op = call.op /\ call'.needed = call.needed /\ Working
    BY <1>1, <1>2, <2>2 DEF HeapPagesInv, CallType, Working
  <2> QED BY <1>2, <1>3, <1>4, <2>3, GrowingStage
<1>5. CASE kheap.first # NULL
  <2>1. Rich /\ kheap.end = Initial /\ held = Backing(FirstPage + GROW)
    BY <1>1, <1>5 DEF GrowthInv
  <2>2. main.pc = "kheap_check" /\ main.a = PtrA /\ HasA /\ call.needed = RoomB
        /\ call.cur \in {KHEAP_START, KHEAP_START + RoomA}
    <3>1. ASSUME main.pc = "kheap_b" PROVE FALSE
      <4>1. DOMAIN live = {} /\ call.cur = KHEAP_START /\ call.needed = RoomA
        BY <1>1, <1>2, <1>5, <3>1 DEF StageInv
      <4>2. heap[KHEAP_START].is_free /\ heap[KHEAP_START].size = Initial - KHEAP_START
        BY <1>1, <1>5, <2>1, <4>1, HeapIsNew
      <4>3. heap[KHEAP_START].size >= RoomA
        <5> DEFINE g == GROW * P
        <5>1. g \in Nat /\ Initial = KHEAP_START + g /\ RoomA <= g /\ RoomA \in Nat
          BY InitialExtent, RoomFacts
        <5> HIDE DEF g
        <5> QED BY <4>2, <5>1, HeapSizes
      <4>4. KHEAP_START # NULL /\ Fits(KHEAP_START, RoomA)
        BY <4>2, <4>3, HeapSizes DEF Fits, NULL
      <4> QED BY <4>1, <4>4 DEF kmalloc_scan
    <3>2. main.pc = "kheap_check"
      BY <1>3, <3>1
    <3> QED BY <1>1, <1>2, <1>5, <3>2 DEF StageInv
  <2>3. LET n == KHEAP_START + RoomA
        IN  /\ ~heap[KHEAP_START].is_free /\ heap[KHEAP_START].next = n
            /\ n \in DOMAIN heap /\ heap[n].is_free /\ heap[n].size \in Nat
            /\ heap[n].size >= RoomB
    BY <1>1, <1>5, <2>1, <2>2, HeapHasA
  <2>4. KHEAP_START # NULL /\ KHEAP_START + RoomA # NULL
    BY HeapSizes, RoomFacts DEF NULL
  <2>5. call.cur = KHEAP_START
    BY <2>2, <2>3, <2>4 DEF kmalloc_scan, Fits
  <2>6. call' = [call EXCEPT !.cur = KHEAP_START + RoomA]
    BY <2>3, <2>4, <2>5 DEF kmalloc_scan
  <2>7. /\ call'.pc = "scan" /\ call'.cur = KHEAP_START + RoomA /\ call'.needed = call.needed
    BY <1>1, <1>2, <2>6 DEF HeapPagesInv, CallType
  <2>8. Rich' /\ main' = main /\ kheap' = kheap /\ heap' = heap /\ live' = live
    BY <1>1, <1>2, <2>1, QuietAccounts, SameMachine
  <2>9. held' = Backing(FirstPage + GROW)' /\ HasA'
    BY <1>2, <2>1, <2>2, <2>8 DEF Backing, FirstPage, GROW, HasA, PtrA, RoomA, Room
  <2>10. call.needed <= GROW * PMM_PAGE_SIZE
    BY <1>1, <1>2 DEF GrowthInv, Working
  <2>11. GrowthInv'
    BY <1>5, <2>1, <2>7, <2>8, <2>9, <2>10 DEF GrowthInv, Working, Growing, Initial, FirstPage, GROW
  <2>12. StageInv'
    BY <1>5, <2>2, <2>7, <2>8, <2>9 DEF StageInv, PtrA, RoomA, RoomB, Room
  <2> QED BY <1>2, <2>7, <2>11, <2>12, CallStage
<1> QED BY <1>4, <1>5

(* A block that is split keeps just the bytes asked for.                   *)
LEMMA SplitSize ==
  ASSUME NEW h, NEW end \in Nat, Linked(h, end), NEW b \in DOMAIN h, NEW needed \in Nat \ {0},
         ~(h[b].size < (needed + KHEAP_MIN_BLOCK) % U32)
  PROVE  kheap_split(h, b, needed)[b].size = needed
<1> DEFINE r == b + needed
           g == kheap_split(h, b, needed)
<1>1. g = [a \in DOMAIN h \cup {r} |->
             CASE a = r -> [size |-> h[b].size - needed, is_free |-> TRUE,
                            next |-> h[b].next, prev |-> b]
               [] a = b -> [h[b] EXCEPT !.size = needed, !.is_free = FALSE, !.next = r]
               [] a = h[b].next -> Relink(h[a], r)
               [] OTHER -> h[a]]
  BY DEF kheap_split
<1>2. b # r /\ h[b] \in Blocks /\ b # h[b].next
  BY BlockFacts, NextFacts DEF NULL
<1> HIDE DEF g, r
<1>3. g[b] = [h[b] EXCEPT !.size = needed, !.is_free = FALSE, !.next = r]
  BY <1>1, <1>2
<1> QED BY <1>2, <1>3 DEF Blocks, g

(* The test's blocks are the first of the heap and the one after it.       *)
LEMMA FoundStage ==
  ASSUME KernelInv, main.pc \in HeapPcs, kmalloc_found, UNCHANGED <<main, report>>
  PROVE  KernelInv'
<1>1. HeapPagesInv /\ HeapListInv /\ Accounts /\ GrowthInv /\ StageInv
  BY HeapFacts
<1>2. /\ call.pc = "scan" /\ call.cur # NULL /\ Fits(call.cur, call.needed)
      /\ UNCHANGED asVars /\ kheap' = kheap /\ call' = Idle
      /\ held' = held /\ space' = space /\ CallStep
      /\ heap' = kheap_split(heap, call.cur, call.needed)
      /\ DOMAIN live' = DOMAIN live \cup {call.cur + HEADER}
  BY DEF kmalloc_found, asVars, CallStep
<1>3. call.cur \in DOMAIN heap /\ kheap.first # NULL
  BY <1>1, <1>2, HeapFacts DEF HeapListInv, ScanInv
<1>4. main.pc \in {"kheap_b", "kheap_check"}
  BY <1>1, <1>2 DEF StageInv, HeapPcs
<1>5. Rich /\ kheap.end = Initial /\ held = Backing(FirstPage + GROW)
  BY <1>1, <1>3 DEF GrowthInv
<1>6. call'.pc = "idle" /\ Rich' /\ main' = main
  BY <1>1, <1>2, <1>5, QuietAccounts, SameMachine DEF Idle
<1>7. held' = Backing(FirstPage + GROW)'
  BY <1>2, <1>5 DEF Backing, FirstPage, GROW
<1>8. GrowthInv'
  BY <1>2, <1>3, <1>5, <1>6, <1>7 DEF GrowthInv, Working, Growing, Initial, FirstPage, GROW
<1>9. CASE main.pc = "kheap_b"
  <2>1. DOMAIN live = {} /\ call.cur = KHEAP_START /\ call.needed = RoomA
    BY <1>1, <1>2, <1>3, <1>9 DEF StageInv
  <2>2. DOMAIN live' = {PtrA}
    BY <1>2, <2>1 DEF PtrA
  <2>3. heap[KHEAP_START].size = Initial - KHEAP_START /\ DOMAIN heap = {KHEAP_START}
    BY <1>1, <1>3, <1>5, <2>1, HeapIsNew
  <2>4. heap'[KHEAP_START].size = RoomA
    <3> DEFINE g == GROW * P
    <3>1. /\ g \in Nat /\ Initial = KHEAP_START + g /\ RoomA + RoomB <= g /\ RoomA \in Nat \ {0}
          /\ RoomB \in Nat /\ KHEAP_MIN_BLOCK <= RoomB /\ KHEAP_MIN_BLOCK \in Nat /\ g < U32
          /\ U32 \in Nat \ {0} /\ KHEAP_START \in Nat
      BY InitialExtent, RoomFacts, BlockSizes, HeapSizes
    <3> HIDE DEF g
    <3>2. heap[KHEAP_START].size = g
      BY <2>3, <3>1
    <3>3. (RoomA + KHEAP_MIN_BLOCK) % U32 = RoomA + KHEAP_MIN_BLOCK
      BY <3>1
    <3>4. ~(heap[KHEAP_START].size < (RoomA + KHEAP_MIN_BLOCK) % U32)
      BY <3>1, <3>2, <3>3
    <3> QED BY <1>1, <1>2, <1>3, <1>5, <2>1, <3>1, <3>4, HeapList, SplitSize
  <2>5. StageInv'
    BY <1>6, <1>9, <2>2, <2>4 DEF StageInv, HasA, PtrA, RoomA, Room
  <2> QED BY <1>2, <1>6, <1>8, <2>5, CallStage
<1>10. CASE main.pc = "kheap_check"
  <2>1. /\ main.a = PtrA /\ HasA /\ call.cur \in {KHEAP_START, KHEAP_START + RoomA}
    BY <1>1, <1>2, <1>3, <1>10 DEF StageInv
  <2>2. ~heap[KHEAP_START].is_free
    BY <1>1, <1>3, <1>5, <2>1, HeapHasA
  <2>3. call.cur = KHEAP_START + RoomA
    BY <1>2, <2>1, <2>2 DEF Fits
  <2>4. DOMAIN live' = {PtrA, PtrB}
    BY <1>2, <2>1, <2>3 DEF HasA, PtrB
  <2>5. StageInv'
    BY <1>2, <1>3, <1>6, <1>10, <2>1, <2>4 DEF StageInv, HasBoth, PtrA, PtrB, RoomA, Room
  <2> QED BY <1>2, <1>6, <1>8, <2>5, CallStage
<1> QED BY <1>4, <1>9, <1>10

(* A step of a call of kernel_main's tests.                                *)
LEMMA CallStepStage ==
  ASSUME KernelInv, main.pc \in HeapPcs, main_call_step
  PROVE  KernelInv' /\ SameHeapPages /\ ASStep
<1>1. CallStep /\ UNCHANGED <<main, report>> /\ call.pc # "boot"
  BY DEF main_call_step
<1>2. SameHeapPages /\ ASStep
  BY <1>1, HeapFacts, CallPages
<1>3. ~kheap_init
  BY <1>1 DEF kheap_init
<1>4. KernelInv'
  BY <1>1, <1>3, FoundStage, ScanStage, ExtendStage, LimitStage, FrameStage, MapStage,
     MapFailsStage, LinkStage DEF CallStep
<1> QED BY <1>2, <1>4
(***************************************************************************)
(* kheap_init and kheap_self_test.                                         *)
(***************************************************************************)
(* kheap_init starts with what the tests before it left.                   *)
LEMMA KheapInitStage ==
  ASSUME KernelInv, main_kheap_init
  PROVE  KernelInv' /\ SameHeapPages /\ ASStep
<1>1. /\ main.pc = "kheap_init" /\ kheap_init /\ report' = report
      /\ main' = [main EXCEPT !.pc = "kheap_a"]
  BY DEF main_kheap_init, Goto
<1>2. /\ call.pc = "boot" /\ HeapPagesInv /\ HeapListInv /\ Accounts /\ TestInv
      /\ main = [pc |-> main.pc, a |-> main.a, b |-> main.b]
      /\ report \in [{"pmm", "paging", "kheap"} -> {"none", "ok", "failed"}]
      /\ init.step = "ready"
  BY <1>1, StageFacts DEF TestPcs
<1>3. HeapPagesInv' /\ SameHeapPages /\ ASStep /\ HeapListInv'
  BY <1>1, <1>2, InitPages, InitList
<1>4. /\ UNCHANGED asVars /\ live' = live
      /\ kheap'.end = KHEAP_START /\ kheap'.first = NULL
      /\ call' = [Idle EXCEPT !.pc = "extend", !.op = "kheap_init", !.needed = PMM_PAGE_SIZE]
  BY <1>1 DEF kheap_init
<1>5. call'.pc = "extend" /\ call'.op = "kheap_init" /\ call'.needed = PMM_PAGE_SIZE
  BY <1>4 DEF Idle
<1>6. Accounted /\ held' = held /\ space' = space /\ tables' = tables /\ (Two' <=> Two)
  BY <1>2, <1>4, QuietAccounts, SameMachine
<1>7. main' = [pc |-> "kheap_a", a |-> main.a, b |-> main.b]
  BY <1>1, <1>2
<1>8. Control'
  BY <1>1, <1>2, <1>5, <1>6, <1>7 DEF Control, TestPcs, HeapPcs, Accounted
<1>9. TestInv'
  BY <1>7 DEF TestInv
<1>10. \/ ~Two /\ report["pmm"] = "failed"
       \/ Tested /\ report["paging"] = "ok" /\ held = {} /\ tables = {KERNEL_PDE, TestTable}
  BY <1>1, <1>2 DEF TestInv, TooSmall
<1>11. PassedInv'
  BY <1>1, <1>6, <1>10 DEF PassedInv, Tested, TestTable
<1>12. Top' = KHEAP_START
  BY <1>4, <1>5 DEF Top, Growing
<1>13. FirstPage .. FirstPage - 1 = {}
  BY InitialExtent
<1>14. Two => FirstGrowth'
  <2> SUFFICES ASSUME Two PROVE FirstGrowth'
    OBVIOUS
  <2>1. held' = {} /\ tables' = {KERNEL_PDE, TestTable}
    BY <1>6, <1>10
  <2>2. page_of(Top') = FirstPage
    BY <1>12 DEF FirstPage
  <2>3. Backing(FirstPage)' = {} /\ TablesTo(FirstPage) = {}
    BY <1>13 DEF Backing, TablesTo, FirstPage
  <2> QED BY <1>5, <2>1, <2>2, <2>3 DEF FirstGrowth, Backing, TablesTo, FirstPage, TestTable
<1>15. PMM_PAGE_SIZE <= GROW * PMM_PAGE_SIZE
  BY InitialExtent, PmmSizes
<1>16. GrowthInv'
  BY <1>4, <1>5, <1>7, <1>15 DEF GrowthInv, Working, Growing, GROW
<1>17. DOMAIN live = {}
  BY <1>2 DEF HeapListInv, ScanInv, ListInv, LiveInv
<1>18. StageInv'
  BY <1>4, <1>5, <1>6, <1>7, <1>14, <1>17 DEF StageInv
<1> QED BY <1>3, <1>6, <1>7, <1>8, <1>9, <1>11, <1>16, <1>18 DEF KernelInv, HeapInv, Accounted

(* A call of kmalloc by the test.                                          *)
LEMMA TestCall ==
  ASSUME KernelInv, main.pc \in HeapPcs, NEW size \in Nat \ {0}, kmalloc(size),
         size + HEADER + KHEAP_ALIGN + PMM_PAGE_SIZE <= U32, Room(size) <= GROW * P,
         report' = report, main' = [pc |-> main'.pc, a |-> main'.a, b |-> main'.b],
         main'.pc \in {"kheap_b", "kheap_check"}, StageInv'
  PROVE  KernelInv' /\ SameHeapPages /\ ASStep
<1>1. HeapPagesInv /\ HeapListInv /\ Accounts /\ GrowthInv
  BY HeapFacts
<1>2. /\ HeapPagesInv' /\ HeapListInv' /\ SameHeapPages /\ ASStep
  BY <1>1, KmallocPages, KmallocList
<1>3. /\ call.pc = "idle" /\ UNCHANGED asVars /\ kheap' = kheap
      /\ held' = held /\ space' = space
      /\ call'.pc = "scan" /\ call'.needed = Room(size)
  BY DEF kmalloc, asVars, Room, Idle
<1>4. Accounted /\ (Rich' <=> Rich)
  BY <1>1, <1>3, QuietAccounts, SameMachine
<1>5. Backing(FirstPage + GROW)' = Backing(FirstPage + GROW)
  BY <1>3 DEF Backing, FirstPage, GROW
<1>6. GrowthInv'
  BY <1>1, <1>3, <1>4, <1>5 DEF GrowthInv, Working, Growing, Initial, FirstPage, GROW, P
<1>7. main'.pc \in HeapPcs
  BY DEF HeapPcs
<1> QED BY <1>2, <1>3, <1>4, <1>6, <1>7, HeapStep

(* The test's first call.                                                  *)
LEMMA AllocAHeapStage ==
  ASSUME KernelInv, kheap_test_alloc_a
  PROVE  KernelInv' /\ SameHeapPages /\ ASStep
<1>1. /\ main.pc = "kheap_a" /\ kmalloc(TestSizeA) /\ report' = report
      /\ main' = [main EXCEPT !.pc = "kheap_b"]
  BY DEF kheap_test_alloc_a, Goto
<1>2. main.pc \in HeapPcs
  BY <1>1 DEF HeapPcs
<1>3. main' = [pc |-> "kheap_b", a |-> main.a, b |-> main.b]
  BY <1>1, <1>2, HeapFacts
<1>4. TestSizeA # 0
  BY RoomFacts
<1>5. /\ kheap' = kheap /\ live' = live
      /\ call'.pc = "scan" /\ call'.cur = kheap.first /\ call'.needed = RoomA
  BY <1>1, <1>4 DEF kmalloc, Idle, RoomA, Room
<1>6. DOMAIN live = {} /\ (kheap.first # NULL => kheap.first = KHEAP_START)
  BY <1>1, <1>2, HeapFacts DEF StageInv
<1>7. StageInv'
  BY <1>3, <1>5, <1>6 DEF StageInv, RoomA, Room
<1> QED BY <1>1, <1>2, <1>3, <1>7, RoomFacts, TestCall DEF RoomA

(* Its second, with the first pointer, if there is one.                    *)
LEMMA AllocBHeapStage ==
  ASSUME KernelInv, kheap_test_alloc_b
  PROVE  KernelInv' /\ SameHeapPages /\ ASStep
<1>1. /\ main.pc = "kheap_b" /\ kmalloc(TestSizeB) /\ report' = report
      /\ main' = [main EXCEPT !.pc = "kheap_check", !.a = Result({})]
  BY DEF kheap_test_alloc_b
<1>2. main.pc \in HeapPcs
  BY <1>1 DEF HeapPcs
<1>3. main' = [pc |-> "kheap_check", a |-> Result({}), b |-> main.b]
  BY <1>1, <1>2, HeapFacts
<1>4. TestSizeB # 0
  BY RoomFacts
<1>5. /\ kheap' = kheap /\ live' = live /\ heap' = heap /\ call.pc = "idle"
      /\ call'.pc = "scan" /\ call'.cur = kheap.first /\ call'.needed = RoomB
  BY <1>1, <1>4 DEF kmalloc, Idle, RoomB, Room
<1>6. CASE kheap.first = NULL
  <2>1. DOMAIN live = {}
    BY <1>2, <1>6, HeapFacts
  <2>2. Result({}) = NULL
    BY <2>1 DEF Result
  <2>3. StageInv'
    BY <1>3, <1>5, <1>6, <2>2 DEF StageInv
  <2> QED BY <1>1, <1>2, <1>3, <2>3, RoomFacts, TestCall DEF RoomB
<1>7. CASE kheap.first # NULL
  <2>1. HasA /\ kheap.first = KHEAP_START
    BY <1>1, <1>2, <1>5, <1>7, HeapFacts DEF StageInv
  <2>2. Result({}) = PtrA
    BY <2>1 DEF Result, HasA
  <2>3. HasA'
    BY <1>5, <2>1 DEF HasA, PtrA, RoomA, Room
  <2>4. StageInv'
    BY <1>3, <1>5, <1>7, <2>1, <2>2, <2>3 DEF StageInv, PtrA, RoomA, RoomB, Room
  <2> QED BY <1>1, <1>2, <1>3, <2>4, RoomFacts, TestCall DEF RoomB
<1> QED BY <1>6, <1>7

(* What is left to show when the heap's test is over.                      *)
LEMMA ShellStage ==
  ASSUME KernelInv, main.pc \in HeapPcs, HeapPagesInv', Accounted, call'.pc # "boot",
         main' = [pc |-> "shell", a |-> main'.a, b |-> main'.b],
         NEW ok \in {"ok", "failed"}, report' = [report EXCEPT !["kheap"] = ok],
         ok = "ok" <=> Rich
  PROVE  KernelInv' /\ (AllOk' <=> ok = "ok")
<1>1. /\ Accounts' /\ report \in [{"pmm", "paging", "kheap"} -> {"none", "ok", "failed"}]
      /\ PassedInv /\ main.pc \notin TestPcs /\ init.step = "ready" /\ PmmInv
  BY HeapFacts DEF Accounted, HeapPagesInv, SpaceInv
<1>2. /\ report' \in [{"pmm", "paging", "kheap"} -> {"none", "ok", "failed"}]
      /\ report'["pmm"] = report["pmm"] /\ report'["paging"] = report["paging"]
      /\ report'["kheap"] = ok
  BY <1>1
<1>3. (Rich' <=> Rich) /\ (Two' <=> Two)
  BY SameMachine
<1>4. Rich => Two
  BY <1>1, FewFrames
<1>5. Rich => report["pmm"] = "ok" /\ report["paging"] = "ok"
  BY <1>1, <1>4 DEF PassedInv, Tested
<1>6. AllOk' <=> ok = "ok"
  BY <1>2, <1>5 DEF AllOk
<1>7. main'.pc = "shell"
  OBVIOUS
<1>8. Control'
  BY <1>1, <1>2, <1>7 DEF Control, Accounted, TestPcs
<1>9. TestInv' /\ HeapInv'
  BY <1>7 DEF TestInv, HeapInv, HeapPcs
<1>10. PassedInv'
  BY <1>1, <1>2, <1>3 DEF PassedInv, Tested, TestTable, Accounted
<1> QED BY <1>1, <1>3, <1>6, <1>7, <1>8, <1>9, <1>10 DEF KernelInv

(* The test looks at its two pointers: both, or none.                      *)
LEMMA CheckStage ==
  ASSUME KernelInv, kheap_test_check
  PROVE  /\ KernelInv' /\ SameHeapPages /\ ASStep
         /\ main'.pc = "shell" => ~AllOk'
<1>1. /\ main.pc = "kheap_check" /\ call.pc = "idle" /\ UNCHANGED kheapVars
      /\ UNCHANGED asVars /\ heap' = heap /\ kheap' = kheap /\ call' = call /\ live' = live
      /\ held' = held /\ space' = space
  BY DEF kheap_test_check, kheapVars, asVars
<1> DEFINE b == Result({main.a} \ {NULL})
<1>2. IF main.a = NULL \/ b = NULL THEN Done("kheap", FALSE, "shell")
      ELSE main' = [main EXCEPT !.pc = "kheap_free_a", !.b = b] /\ UNCHANGED report
  BY DEF kheap_test_check
<1>3. main.pc \in HeapPcs
  BY <1>1 DEF HeapPcs
<1>4. HeapPagesInv /\ HeapListInv /\ Accounts /\ GrowthInv /\ StageInv
  BY <1>3, HeapFacts
<1>5. HeapPagesInv' /\ SameHeapPages /\ ASStep /\ HeapListInv'
  BY <1>1, <1>4, PagesStutter, ListStutter
<1>6. Accounted /\ (Rich' <=> Rich)
  BY <1>1, <1>4, QuietAccounts, SameMachine
<1> HIDE DEF b
<1>7. CASE kheap.first = NULL
  <2>1. main.a = NULL /\ ~Rich
    BY <1>1, <1>4, <1>7 DEF StageInv, GrowthInv
  <2>2. /\ main' = [pc |-> "shell", a |-> NULL, b |-> NULL]
        /\ report' = [report EXCEPT !["kheap"] = "failed"]
    BY <1>2, <2>1 DEF Done
  <2>3. main' = [pc |-> "shell", a |-> main'.a, b |-> main'.b]
    BY <2>2
  <2>4. KernelInv' /\ ~AllOk'
    BY <1>1, <1>3, <1>5, <1>6, <2>1, <2>2, <2>3, ShellStage
  <2> QED BY <1>5, <2>4
<1>8. CASE kheap.first # NULL
  <2>1. main.a = PtrA /\ HasBoth
    BY <1>1, <1>4, <1>8 DEF StageInv
  <2>2. PtrA # NULL /\ PtrB # NULL /\ PtrA # PtrB
    BY HeapSizes, BlockSizes, RoomFacts DEF PtrA, PtrB, NULL
  <2>3. b = PtrB
    <3>1. {main.a} \ {NULL} = {PtrA}
      BY <2>1, <2>2
    <3>2. DOMAIN live \ {PtrA} = {PtrB} /\ DOMAIN live # {PtrA}
      BY <2>1, <2>2 DEF HasBoth
    <3> QED BY <3>1, <3>2 DEF b, Result
  <2>4. main' = [main EXCEPT !.pc = "kheap_free_a", !.b = PtrB] /\ report' = report
    BY <1>2, <2>1, <2>2, <2>3
  <2>5. main' = [pc |-> "kheap_free_a", a |-> PtrA, b |-> PtrB]
    BY <1>3, <2>1, <2>4, HeapFacts
  <2>6. Backing(FirstPage + GROW)' = Backing(FirstPage + GROW)
    BY <1>1 DEF Backing, FirstPage, GROW
  <2>7. GrowthInv'
    BY <1>1, <1>4, <1>6, <1>8, <2>6 DEF GrowthInv, Working, Growing, Initial, FirstPage, GROW
  <2>8. StageInv'
    BY <1>1, <1>8, <2>1, <2>5 DEF StageInv, HasBoth, PtrA, PtrB, RoomA, Room
  <2>9. main'.pc = "kheap_free_a" /\ main'.pc \in HeapPcs
        /\ main' = [pc |-> main'.pc, a |-> main'.a, b |-> main'.b]
    BY <2>5 DEF HeapPcs
  <2>10. KernelInv'
    BY <1>1, <1>3, <1>5, <1>6, <2>4, <2>7, <2>8, <2>9, HeapStep
  <2> QED BY <1>5, <2>9, <2>10
<1> QED BY <1>7, <1>8

(* It frees the first block.                                               *)
LEMMA FreeAHeapStage ==
  ASSUME KernelInv, kheap_test_free_a
  PROVE  KernelInv' /\ SameHeapPages /\ ASStep
<1>1. /\ main.pc = "kheap_free_a" /\ kfree(main.a) /\ report' = report
      /\ main' = [main EXCEPT !.pc = "kheap_free_b"]
  BY DEF kheap_test_free_a, Goto
<1>2. main.pc \in HeapPcs
  BY <1>1 DEF HeapPcs
<1>3. /\ HeapPagesInv /\ HeapListInv /\ Accounts /\ GrowthInv
      /\ kheap.first # NULL /\ call.pc = "idle" /\ main.a = PtrA /\ main.b = PtrB
      /\ DOMAIN live = {PtrA, PtrB}
  BY <1>1, <1>2, HeapFacts DEF StageInv
<1>4. /\ UNCHANGED asVars /\ kheap' = kheap /\ call' = call /\ held' = held /\ space' = space
      /\ DOMAIN live' = DOMAIN live \ {PtrA}
  BY <1>1, <1>3 DEF kfree, asVars
<1>5. HeapPagesInv' /\ SameHeapPages /\ ASStep /\ HeapListInv'
  BY <1>1, <1>3, KfreePages, KfreeList
<1>6. Accounted /\ (Rich' <=> Rich)
  BY <1>3, <1>4, QuietAccounts, SameMachine
<1>7. main' = [pc |-> "kheap_free_b", a |-> PtrA, b |-> PtrB]
  BY <1>1, <1>2, <1>3, HeapFacts
<1>8. PtrA # PtrB
  BY HeapSizes, BlockSizes, RoomFacts DEF PtrA, PtrB
<1>9. Backing(FirstPage + GROW)' = Backing(FirstPage + GROW)
  BY <1>4 DEF Backing, FirstPage, GROW
<1>10. GrowthInv'
  BY <1>3, <1>4, <1>6, <1>9 DEF GrowthInv, Working, Growing, Initial, FirstPage, GROW
<1>11. StageInv'
  BY <1>3, <1>4, <1>7, <1>8 DEF StageInv, PtrA, PtrB, RoomA, Room
<1>12. main'.pc \in HeapPcs /\ main' = [pc |-> main'.pc, a |-> main'.a, b |-> main'.b]
  BY <1>7 DEF HeapPcs
<1> QED BY <1>1, <1>2, <1>3, <1>4, <1>5, <1>6, <1>10, <1>11, <1>12, HeapStep
(* kheap_used_bytes adds up the used blocks: with none there is no byte.   *)
UsedIn(h) == MapThenSumSet(LAMBDA b : h[b].size, {b \in DOMAIN h : ~h[b].is_free})

LEMMA NothingUsed ==
  ASSUME NEW h, \A b \in DOMAIN h : h[b].is_free
  PROVE  UsedIn(h) = 0
<1> DEFINE used == {b \in DOMAIN h : ~h[b].is_free}
           body(f) == [s \in SUBSET used |->
                         IF s = {} THEN 0
                         ELSE LET x == CHOOSE y \in s : TRUE IN h[x].size + f[s \ {x}]]
           iter == CHOOSE f : f = body(f)
<1>1. used = {} /\ SUBSET used = {{}}
  OBVIOUS
<1>2. UsedIn(h) = iter[used]
  BY DEF UsedIn, MapThenSumSet, MapThenFoldSet
<1>3. [s \in {{}} |-> 0] = body([s \in {{}} |-> 0])
  BY <1>1
<1>4. iter = body(iter)
  BY <1>3
<1> QED BY <1>1, <1>2, <1>4

(* What kernel_main hands over: the claim of HeapHandedOverClean.          *)
HandedOver ==
  /\ live' = << >>
  /\ DOMAIN heap' = {KHEAP_START}
  /\ kheap_used_bytes' = 0
  /\ kheap_total_bytes' = heap'[KHEAP_START].size
  /\ held' = {space'[v] : v \in HeapPages(kheap_total_bytes' \div PMM_PAGE_SIZE)}

(* It frees the second block, which leaves the heap as kheap_init made it. *)
LEMMA FreeBHeapStage ==
  ASSUME KernelInv, kheap_test_free_b
  PROVE  KernelInv' /\ SameHeapPages /\ ASStep /\ HandedOver
<1>1. /\ main.pc = "kheap_free_b" /\ kfree(main.b)
      /\ Done("kheap", \/ main.a + TestSizeA <= main.b
                       \/ main.b + TestSizeB <= main.a, "shell")
  BY DEF kheap_test_free_b
<1>2. main.pc \in HeapPcs
  BY <1>1 DEF HeapPcs
<1>3. /\ HeapPagesInv /\ HeapListInv /\ Accounts /\ GrowthInv
      /\ kheap.first # NULL /\ call.pc = "idle" /\ main.a = PtrA /\ main.b = PtrB
      /\ DOMAIN live = {PtrB}
  BY <1>1, <1>2, HeapFacts DEF StageInv
<1>4. /\ UNCHANGED asVars /\ kheap' = kheap /\ call' = call /\ held' = held /\ space' = space
      /\ live' = [p \in DOMAIN live \ {PtrB} |-> live[p]]
  BY <1>1, <1>3 DEF kfree, asVars
<1>5. HeapPagesInv' /\ SameHeapPages /\ ASStep /\ HeapListInv'
  BY <1>1, <1>3, KfreePages, KfreeList
<1>6. Accounted /\ Rich
  BY <1>3, <1>4, QuietAccounts DEF GrowthInv
<1>7. main.a + TestSizeA <= main.b
  BY <1>3, HeapSizes, BlockSizes, RoomFacts DEF PtrA, PtrB
<1>8. /\ main' = [pc |-> "shell", a |-> NULL, b |-> NULL]
      /\ report' = [report EXCEPT !["kheap"] = "ok"]
  BY <1>1, <1>7 DEF Done
<1>9. main' = [pc |-> "shell", a |-> main'.a, b |-> main'.b]
  BY <1>8
<1>10. KernelInv'
  BY <1>2, <1>3, <1>4, <1>5, <1>6, <1>8, <1>9, ShellStage
<1>11. live' = << >> /\ DOMAIN live' = {}
  BY <1>3, <1>4
<1>12. kheap.end = Initial /\ held = Backing(FirstPage + GROW)
  BY <1>3 DEF GrowthInv
<1>13. /\ Linked(heap', kheap.end) /\ Coalesced(heap') /\ kheap.end \in Nat
       /\ \A b \in DOMAIN heap' : heap'[b].is_free
  <2>1. Linked(heap', kheap.end) /\ Coalesced(heap') /\ kheap.end \in Nat
    BY <1>3, <1>4, <1>5, TopAboveEnd DEF HeapListInv, ListInv
  <2>2. \A b \in DOMAIN heap' : heap'[b].is_free
    BY <1>5, <1>11 DEF HeapListInv, LiveInv
  <2> QED BY <2>1, <2>2
<1>14. DOMAIN heap' = {KHEAP_START} /\ heap'[KHEAP_START].size = kheap.end - KHEAP_START
  BY <1>13, OneBlock
<1>15. kheap_used_bytes' = 0
  <2>1. UsedIn(heap') = 0
    BY <1>13, NothingUsed
  <2> QED BY <2>1 DEF kheap_used_bytes, UsedIn, MapThenSumSet, MapThenFoldSet
<1>16. kheap_total_bytes' = kheap.end - KHEAP_START
  BY <1>4 DEF kheap_total_bytes
<1>17. kheap_total_bytes' \div PMM_PAGE_SIZE = GROW
  <2> DEFINE g == GROW * P
  <2>1. g \in Nat /\ Initial = KHEAP_START + g /\ g \div P = GROW
    BY InitialExtent, HeapSizes, Multiple
  <2> HIDE DEF g
  <2>2. kheap_total_bytes' = g
    BY <1>12, <1>16, <2>1, HeapSizes
  <2> QED BY <2>1, <2>2 DEF P
<1>18. HeapPages(GROW) = FirstPage .. (FirstPage + GROW) - 1
  BY InitialExtent DEF HeapPages, FirstPage
<1>19. held' = {space'[v] : v \in HeapPages(kheap_total_bytes' \div PMM_PAGE_SIZE)}
  BY <1>4, <1>12, <1>17, <1>18 DEF Backing
<1>20. HandedOver
  BY <1>11, <1>14, <1>15, <1>16, <1>19 DEF HandedOver
<1> QED BY <1>5, <1>10, <1>20

(***************************************************************************)
(* The shell, and the steps together.                                      *)
(***************************************************************************)
(* Once the shell runs the calls keep the pages, and the reports stand.    *)
LEMMA ShellSteps ==
  ASSUME KernelInv, main.pc = "shell", shell_call \/ main_call_step
  PROVE  KernelInv' /\ SameHeapPages /\ ASStep
<1>1. main' = main /\ report' = report
  BY DEF shell_call, main_call_step
<1>2. HeapPagesInv /\ Accounts /\ call.pc # "boot"
  BY DEF KernelInv, Control, TestPcs
<1>3. HeapPagesInv' /\ SameHeapPages /\ ASStep /\ Accounted /\ call'.pc # "boot"
  <2>1. CASE main_call_step
    <3>1. CallStep
      BY <2>1 DEF main_call_step
    <3>2. call'.pc # "boot"
      <4>1. CASE kheap_init \/ kmalloc_found \/ kmalloc_scan
        BY <1>2, <4>1 DEF kheap_init, kmalloc_found, kmalloc_scan, Idle, HeapPagesInv, CallType
      <4>2. CASE call' = Idle
        BY <4>2 DEF Idle
      <4>3. CASE call' # Idle /\ kheap_extend
        <5>1. call' = [call EXCEPT !.pc = "page", !.map_at = ExtendFrom,
                                   !.pages = PageCount(call.needed)]
          BY <4>3 DEF kheap_extend, kheap_extend_fails
        <5> QED BY <1>2, <5>1 DEF HeapPagesInv, CallType
      <4>4. CASE call' # Idle /\ kheap_extend_frame
        <5>1. call' = [call EXCEPT !.pc = "map", !.frame = pmm_alloc_frame(pmm).addr]
          BY <4>4 DEF kheap_extend_frame, kheap_extend_fails
        <5> QED BY <1>2, <5>1 DEF HeapPagesInv, CallType
      <4>5. CASE kheap_extend_map
        BY <1>2, <4>5, MapAccounts
      <4>6. CASE kheap_extend_limit \/ kheap_extend_map_fails
        BY <4>2, <4>6 DEF kheap_extend_limit, kheap_extend_map_fails, map_failed,
           kheap_extend_fails
      <4>7. CASE call' # Idle /\ kheap_extend_link
        <5>1. \/ call' = [call EXCEPT !.pc = "halted"]
              \/ call' = [call EXCEPT !.pc = "scan", !.cur = kheap'.first]
          BY <4>7 DEF kheap_extend_link
        <5> QED BY <1>2, <5>1 DEF HeapPagesInv, CallType
      <4> QED BY <3>1, <4>1, <4>2, <4>3, <4>4, <4>5, <4>6, <4>7 DEF CallStep
    <3> QED BY <1>2, <3>1, <3>2, CallPages, CallAccounts
  <2>2. ASSUME NEW size \in Sizes, kmalloc(size)
        PROVE  HeapPagesInv' /\ SameHeapPages /\ ASStep /\ Accounted /\ call'.pc # "boot"
    <3>1. UNCHANGED asVars /\ call'.pc # "boot"
      BY <1>2, <2>2 DEF kmalloc, Idle
    <3>2. size \in Nat
      BY KHeapSizes
    <3> QED BY <1>2, <2>2, <3>1, <3>2, KmallocPages, QuietAccounts
  <2>3. ASSUME NEW ptr, kfree(ptr)
        PROVE  HeapPagesInv' /\ SameHeapPages /\ ASStep /\ Accounted /\ call'.pc # "boot"
    <3>1. UNCHANGED asVars /\ call'.pc # "boot"
      BY <1>2, <2>3 DEF kfree
    <3> QED BY <1>2, <2>3, <3>1, KfreePages, QuietAccounts
  <2> QED BY <2>1, <2>2, <2>3 DEF shell_call
<1>4. (Rich' <=> Rich) /\ (Two' <=> Two) /\ (AllOk' <=> AllOk)
  BY <1>1, <1>3, SameMachine DEF AllOk
<1>5. Control'
  BY <1>1, <1>3 DEF KernelInv, Control, Accounted, TestPcs
<1>6. TestInv' /\ HeapInv'
  BY <1>1 DEF TestInv, HeapInv, HeapPcs
<1>7. PassedInv'
  BY <1>1, <1>3, <1>4 DEF KernelInv, PassedInv, Tested, TestTable, Accounted
<1> QED BY <1>1, <1>3, <1>4, <1>5, <1>6, <1>7 DEF KernelInv, Accounted

(* Nothing happens.                                                        *)
LEMMA KernelStutter ==
  ASSUME KernelInv, UNCHANGED mainVars
  PROVE  KernelInv' /\ SameHeapPages /\ ASStep
<1>1. /\ UNCHANGED kheapVars /\ main' = main /\ report' = report
      /\ UNCHANGED asVars /\ heap' = heap /\ kheap' = kheap /\ call' = call /\ live' = live
  BY DEF mainVars, kheapVars
<1>2. HeapPagesInv' /\ SameHeapPages /\ ASStep
  BY <1>1, PagesStutter DEF KernelInv
<1>3. main'.pc # "shell" => HeapListInv'
  BY <1>1, ListStutter DEF KernelInv
<1>4. /\ Accounts' /\ Pool' = Pool /\ Owned' = Owned /\ init' = init
      /\ held' = held /\ tables' = tables /\ space' = space
  BY <1>1, AccountsSame DEF KernelInv
<1>5. (Rich' <=> Rich) /\ (Two' <=> Two) /\ (AllOk' <=> AllOk)
  BY <1>1, <1>4, SameMachine DEF AllOk, Accounted
<1>6. Control'
  BY <1>1, <1>4 DEF KernelInv, Control
<1>7. NoTables' = NoTables /\ NoneMapped' = NoneMapped /\ Tested' = Tested /\ TooSmall' = TooSmall
  BY <1>1, <1>4, <1>5 DEF NoTables, NoneMapped, Tested, TooSmall, Two
<1>8. TestInv'
  BY <1>1, <1>4, <1>5, <1>7 DEF KernelInv, TestInv, TestTable
<1>9. PassedInv'
  BY <1>1, <1>4, <1>5, <1>7 DEF KernelInv, PassedInv, TestTable
<1>10. FirstGrowth' = FirstGrowth
  BY <1>1, <1>4 DEF FirstGrowth, Backing, TablesTo, TestTable, Top, Growing
<1>11. main.pc \in HeapPcs => GrowthInv'
  BY <1>1, <1>4, <1>5 DEF KernelInv, HeapInv, GrowthInv, Working, Growing, Backing, FirstPage,
     GROW, Initial
<1>12. main.pc \in HeapPcs => StageInv'
  BY <1>1, <1>5, <1>10 DEF KernelInv, HeapInv, StageInv, HasA, HasBoth, PtrA, PtrB,
     RoomA, RoomB, Room
<1> QED BY <1>1, <1>2, <1>3, <1>4, <1>5, <1>6, <1>8, <1>9, <1>11, <1>12 DEF KernelInv, HeapInv

(* The kernel starts with nothing taken and nothing mapped.                *)
LEMMA KernelStart == KernelInit => KernelInv
<1> SUFFICES ASSUME KernelInit PROVE KernelInv
  OBVIOUS
<1>1. /\ KHeapInit /\ ASInit /\ main = [pc |-> "pmm_init", a |-> NULL, b |-> NULL]
      /\ report = [test \in {"pmm", "paging", "kheap"} |-> "none"] /\ call.pc = "boot"
  BY DEF KernelInit, KHeapInit, Idle
<1>2. HeapPagesInv /\ HeapListInv /\ \A v \in ClientPages : space[v] = NotMapped
  BY <1>1, HeapPagesInit, HeapListInit, SpaceInitEstablishes
<1>3. tables = {KERNEL_PDE} /\ held = {} /\ owners = [f \in Frames |-> 0]
  BY <1>1 DEF ASInit, PmmInit, PmmStatics
<1>4. Owned = {}
  BY <1>3 DEF Owned
<1>5. Accounts
  <2>1. tables \ {KERNEL_PDE} = {}
    BY <1>3
  <2>2. IsFiniteSet(tables)
    BY <1>3, FS_Singleton
  <2>3. Cardinality(held) = 0 /\ Cardinality(Owned) = 0 /\ Cardinality(tables \ {KERNEL_PDE}) = 0
    BY <1>3, <1>4, <2>1, FS_EmptySet
  <2> QED BY <1>2, <1>3, <2>2, <2>3 DEF Accounts
<1>6. Control
  BY <1>1 DEF Control, TestPcs
<1>7. TestInv /\ PassedInv /\ HeapInv /\ main.pc # "shell"
  BY <1>1, <1>2, <1>3, <1>4 DEF TestInv, PassedInv, HeapInv, TestPcs, HeapPcs, NoTables, NoneMapped
<1> QED BY <1>2, <1>5, <1>6, <1>7 DEF KernelInv

(* Every step keeps the invariant and the heap's pages, and is one of a    *)
(* client that keeps the rules of the address space.                       *)
LEMMA KernelStepKeeps ==
  ASSUME KernelInv, [KernelNext]_mainVars
  PROVE  KernelInv' /\ SameHeapPages /\ ASStep
<1>1. CASE main_call_step
  <2>1. main.pc \in HeapPcs \cup {"shell"}
    BY <1>1 DEF main_call_step, KernelInv, Control
  <2> QED BY <1>1, <2>1, CallStepStage, ShellSteps
<1>2. CASE shell_call
  BY <1>2, ShellSteps DEF shell_call
<1>3. CASE KernelStep /\ ~main_call_step
  BY <1>3, BootStage, AllocAStage, AllocBStage, FreeAStage, FreeBStage, PagingAllocStage,
     PagingMapStage, PagingUnmapStage, PagingFreeStage, KheapInitStage, AllocAHeapStage,
     AllocBHeapStage, CheckStage, FreeAHeapStage, FreeBHeapStage DEF KernelStep
<1> QED BY <1>1, <1>2, <1>3, KernelStutter DEF KernelNext

(***************************************************************************)
(* The theorems.                                                           *)
(***************************************************************************)
(* The invariant holds from power-on, on every machine.                    *)
THEOREM KernelInvariant == KernelSpec => []KernelInv
<1>1. KernelInv /\ [KernelNext]_mainVars => KernelInv'
  BY KernelStepKeeps
<1> QED BY <1>1, KernelStart, PTL DEF KernelSpec

(* A machine with two frames or more has more than one.                    *)
LEMMA TwoFrames == ASSUME PmmInv, Two PROVE Cardinality(Pool) # 1
<1>1. PICK f \in Pool, g \in Pool : f # g
  BY DEF Two
<1>2. IsFiniteSet(Pool) /\ {f, g} \subseteq Pool
  BY PoolParts
<1>3. Cardinality({f}) = 1 /\ IsFiniteSet({f}) /\ {f, g} = {f} \cup {g} /\ g \notin {f}
  BY <1>1, FS_Singleton
<1>4. Cardinality({f, g}) = 2
  BY <1>3, FS_AddElement
<1>5. Cardinality({f, g}) <= Cardinality(Pool)
  BY <1>2, FS_Subset
<1> QED BY <1>4, <1>5

(* The tests of the frame allocator and of paging give back what they      *)
(* took, but for the test page's table and the lone frame of a machine     *)
(* that fails the first.                                                   *)
THEOREM SelfTestsRelease == KernelSpec => []TestsReleaseFrames
<1>1. KernelInv => TestsReleaseFrames
  <2> SUFFICES ASSUME KernelInv, main.pc = "kheap_init"
               PROVE  /\ Cardinality(held) = IF FreeAtBoot = 1 THEN 1 ELSE 0
                      /\ held # {} => report["pmm"] = "failed"
                      /\ \A v \in ClientPages : space[v] = NotMapped
                      /\ Cardinality(Owned) = Cardinality(held) + Cardinality(tables \ {KERNEL_PDE})
    BY DEF TestsReleaseFrames
  <2>1. Accounts /\ TestInv /\ PmmInv
    BY StageFacts DEF TestPcs, SpaceInv
  <2>2. FreeAtBoot = Cardinality(Pool) /\ Cardinality(Pool) \in Nat
    BY <2>1, PoolParts, FewFrames
  <2>3. CASE TooSmall
    <3>1. ~Two /\ held = Pool /\ report["pmm"] = "failed" /\ NoneMapped
      BY <2>3 DEF TooSmall, NoTables
    <3>2. Cardinality(Pool) <= 1
      BY <2>1, <3>1, FewFrames
    <3>3. Cardinality(held) = IF FreeAtBoot = 1 THEN 1 ELSE 0
      BY <2>2, <3>1, <3>2
    <3> QED BY <2>1, <3>1, <3>3 DEF Accounts, NoneMapped
  <2>4. CASE Tested /\ NoneMapped /\ held = {}
    <3>1. Cardinality(held) = 0 /\ FreeAtBoot # 1
      BY <2>1, <2>2, <2>4, TwoFrames, FS_EmptySet DEF Tested
    <3> QED BY <2>1, <2>4, <3>1 DEF Accounts, NoneMapped
  <2> QED BY <2>1, <2>3, <2>4 DEF TestInv
<1> QED BY <1>1, KernelInvariant, PTL

(* The self-tests report success exactly on the machines with memory for   *)
(* the test page's table, the first pages of the heap and their tables.    *)
THEOREM SelfTestsReport == KernelSpec => []TestsOkWithEnoughMemory
<1>1. KernelInv => TestsOkWithEnoughMemory
  <2> SUFFICES ASSUME KernelInv, main.pc = "shell"
               PROVE  AllOk <=> FreeAtBoot >= 1 + KHEAP_GROW_PAGES
                        + Cardinality({pde_idx(v) : v \in HeapPages(KHEAP_GROW_PAGES)})
    BY DEF TestsOkWithEnoughMemory
  <2>1. (AllOk <=> Rich) /\ PmmInv
    BY DEF KernelInv, HeapPagesInv, SpaceInv
  <2>2. FreeAtBoot = Cardinality(Pool)
    BY <2>1, PoolParts
  <2>3. HeapPages(GROW) = FirstPage .. (FirstPage + GROW) - 1
    BY InitialExtent DEF HeapPages, FirstPage
  <2>4. {pde_idx(v) : v \in HeapPages(KHEAP_GROW_PAGES)} = TablesTo(FirstPage + GROW)
    BY <2>3 DEF TablesTo, GROW
  <2> QED BY <2>1, <2>2, <2>4 DEF Rich, Need, GROW
<1> QED BY <1>1, KernelInvariant, PTL

(* When they do, the shell gets the heap as kheap_init made it.            *)
THEOREM HeapIsHandedOver == KernelSpec => HeapHandedOverClean
<1>1. KernelInv /\ [KernelNext]_mainVars =>
        [main.pc # "shell" /\ main'.pc = "shell" /\ AllOk' => HandedOver]_mainVars
  <2> SUFFICES ASSUME KernelInv, KernelNext, main.pc # "shell", main'.pc = "shell", AllOk'
               PROVE  HandedOver
    OBVIOUS
  <2>1. main = [pc |-> main.pc, a |-> main.a, b |-> main.b]
    BY DEF KernelInv, Control
  <2>2. ~main_pmm_init /\ ~main_kheap_init
    BY <2>1 DEF main_pmm_init, main_kheap_init, Goto
  <2>3. ~pmm_test_alloc_a /\ ~pmm_test_alloc_b /\ ~pmm_test_free_a /\ ~pmm_test_free_b
    <3>1. ~pmm_test_alloc_a
      BY <2>1 DEF pmm_test_alloc_a
    <3>2. ~pmm_test_alloc_b
      <4> SUFFICES ASSUME pmm_test_alloc_b PROVE FALSE
        OBVIOUS
      <4> DEFINE addr == pmm_alloc_frame(pmm).addr
      <4>1. \/ main' = [pc |-> "paging", a |-> NULL, b |-> NULL]
            \/ main' = [main EXCEPT !.pc = "pmm_free_a", !.b = addr]
        BY DEF pmm_test_alloc_b, Done
      <4> HIDE DEF addr
      <4>2. CASE main' = [main EXCEPT !.pc = "pmm_free_a", !.b = addr]
        <5>1. main' = [pc |-> "pmm_free_a", a |-> main.a, b |-> addr]
          BY <2>1, <4>2
        <5> QED BY <5>1
      <4> QED BY <4>1, <4>2
    <3>3. ~pmm_test_free_a
      BY <2>1 DEF pmm_test_free_a, Goto
    <3>4. ~pmm_test_free_b
      BY DEF pmm_test_free_b, Done
    <3> QED BY <3>1, <3>2, <3>3, <3>4
  <2>4. ~paging_test_alloc /\ ~paging_test_map /\ ~paging_test_unmap /\ ~paging_test_free
    <3>1. ~paging_test_alloc
      <4> SUFFICES ASSUME paging_test_alloc PROVE FALSE
        OBVIOUS
      <4> DEFINE addr == pmm_alloc_frame(pmm).addr
      <4>1. \/ main' = [pc |-> "kheap_init", a |-> NULL, b |-> NULL]
            \/ main' = [main EXCEPT !.pc = "paging_map", !.a = addr]
        BY DEF paging_test_alloc, Done
      <4> HIDE DEF addr
      <4>2. CASE main' = [main EXCEPT !.pc = "paging_map", !.a = addr]
        <5>1. main' = [pc |-> "paging_map", a |-> addr, b |-> main.b]
          BY <2>1, <4>2
        <5> QED BY <5>1
      <4> QED BY <4>1, <4>2
    <3>2. ~paging_test_map
      BY <2>1 DEF paging_test_map, Goto, Done
    <3>3. ~paging_test_unmap
      BY <2>1 DEF paging_test_unmap, Goto
    <3>4. ~paging_test_free
      BY DEF paging_test_free, Done
    <3> QED BY <3>1, <3>2, <3>3, <3>4
  <2>5. ~main_call_step /\ ~shell_call
    BY DEF main_call_step, shell_call
  <2>6. ~kheap_test_alloc_a /\ ~kheap_test_alloc_b /\ ~kheap_test_free_a
    BY <2>1 DEF kheap_test_alloc_a, kheap_test_alloc_b, kheap_test_free_a, Goto
  <2>7. ~kheap_test_check
    BY CheckStage
  <2>8. kheap_test_free_b
    BY <2>2, <2>3, <2>4, <2>5, <2>6, <2>7 DEF KernelNext, KernelStep
  <2> QED BY <2>8, FreeBHeapStage
<1> QED BY <1>1, KernelInvariant, PTL DEF KernelSpec, HeapHandedOverClean, HandedOver

(* Sharing the memory with the self-tests costs the heap nothing: each of  *)
(* its pages is backed by a frame of its own.                              *)
THEOREM KernelHeapBacked == KernelSpec => []HeapPagesBacked
<1>1. KernelInv => HeapPagesBacked
  BY PagesInvBacked DEF KernelInv
<1> QED BY <1>1, KernelInvariant, PTL

(* And none of its pages ever changes its frame.                           *)
THEOREM KernelHeapStable == KernelSpec => HeapPagesStable
<1>1. KernelInv /\ [KernelNext]_mainVars =>
        [\A a \in page_of(KHEAP_START) .. page_of(kheap.end) - 1 :
           space'[a] = space[a]]_kheapVars
  BY KernelStepKeeps DEF SameHeapPages
<1> QED BY <1>1, KernelInvariant, PTL DEF KernelSpec, HeapPagesStable

(* The tests and the heap together are one client that keeps the rules of  *)
(* paging.c: kernel_main implements the abstract address space.            *)
THEOREM KernelIsClient == KernelSpec => HeapKeepsPagingRules
<1>1. KernelInit => ASInit
  BY DEF KernelInit, KHeapInit
<1>2. KernelInv /\ [KernelNext]_mainVars => [ASNext]_asVars
  BY KernelStepKeeps DEF ASStep
<1> QED
  BY <1>1, <1>2, KernelInvariant, PTL DEF KernelSpec, HeapKeepsPagingRules, ASSpec

(* Every step keeps the list of blocks, the shell's requests included.     *)
LEMMA KernelListStep ==
  ASSUME SmallRequests, KernelInv, HeapListInv, [KernelNext]_mainVars
  PROVE  HeapListInv'
<1>1. HeapPagesInv
  BY DEF KernelInv
<1>2. CASE UnchangedHeap \/ UNCHANGED mainVars
  BY <1>2, ListStutter DEF UnchangedHeap, mainVars, kheapVars
<1>3. CASE main_pmm_init \/ kheap_test_check
  BY <1>3, ListStutter DEF main_pmm_init, KHeapBoot, kheap_test_check, kheapVars
<1>4. CASE \/ pmm_test_alloc_a \/ pmm_test_alloc_b \/ pmm_test_free_a \/ pmm_test_free_b
           \/ paging_test_alloc \/ paging_test_map \/ paging_test_unmap \/ paging_test_free
  BY <1>2, <1>4 DEF pmm_test_alloc_a, pmm_test_alloc_b, pmm_test_free_a, pmm_test_free_b,
     paging_test_alloc, paging_test_map, paging_test_unmap, paging_test_free
<1>5. CASE main_kheap_init
  BY <1>5, InitList DEF main_kheap_init
<1>6. CASE main_call_step
  BY <1>1, <1>6, CallList DEF main_call_step
<1>7. CASE kheap_test_alloc_a \/ kheap_test_alloc_b
  BY <1>1, <1>7, KmallocList, RoomFacts DEF kheap_test_alloc_a, kheap_test_alloc_b
<1>8. CASE kheap_test_free_a
  <2>1. kfree(main.a) /\ main.pc = "kheap_free_a" /\ main.pc \in HeapPcs
    BY <1>8 DEF kheap_test_free_a, HeapPcs
  <2>2. main.a \in DOMAIN live
    BY <2>1, HeapFacts DEF StageInv
  <2> QED BY <1>1, <2>1, <2>2, KfreeList
<1>9. CASE kheap_test_free_b
  <2>1. kfree(main.b) /\ main.pc = "kheap_free_b" /\ main.pc \in HeapPcs
    BY <1>9 DEF kheap_test_free_b, HeapPcs
  <2>2. main.b \in DOMAIN live
    BY <2>1, HeapFacts DEF StageInv
  <2> QED BY <1>1, <2>1, <2>2, KfreeList
<1>10. CASE shell_call
  BY <1>1, <1>10, KmallocList, KfreeList, KHeapSizes DEF shell_call, SmallRequests
<1> QED BY <1>2, <1>3, <1>4, <1>5, <1>6, <1>7, <1>8, <1>9, <1>10 DEF KernelNext, KernelStep

(* So the list of blocks is right from power-on and for ever after.        *)
THEOREM KernelListInvariant ==
  ASSUME SmallRequests
  PROVE  KernelSpec => []HeapListInv
<1>1. KernelInv /\ HeapListInv /\ [KernelNext]_mainVars => HeapListInv'
  BY KernelListStep
<1>2. KernelInit => HeapListInv
  BY HeapListInit DEF KernelInit
<1> QED BY <1>1, <1>2, KernelInvariant, PTL DEF KernelSpec

(* The blocks tile the heap that kernel_main set up.                       *)
THEOREM KernelHeapTiled ==
  ASSUME SmallRequests
  PROVE  KernelSpec => []ListTilesHeap
<1>1. KernelInv /\ HeapListInv => ListTilesHeap
  BY ListInvTiles DEF KernelInv
<1> QED BY <1>1, KernelInvariant, KernelListInvariant, PTL

(* Every pointer of a test or of the shell has its block.                  *)
THEOREM KernelLiveFits ==
  ASSUME SmallRequests
  PROVE  KernelSpec => []LiveBlocksFit
<1>1. KernelInv /\ HeapListInv => LiveBlocksFit
  BY ListInvFits DEF KernelInv
<1> QED BY <1>1, KernelInvariant, KernelListInvariant, PTL

(* Every header, link, static and pointer stays in the heap's range.       *)
THEOREM KernelHeapTyped ==
  ASSUME SmallRequests
  PROVE  KernelSpec => []KHeapTypeOK
<1>1. KernelInv /\ HeapListInv => KHeapTypeOK
  BY ListInvTyped DEF KernelInv
<1> QED BY <1>1, KernelInvariant, KernelListInvariant, PTL

(* kmalloc answers a test or the shell NULL only when nothing fits.        *)
THEOREM KernelNullNoFit ==
  ASSUME SmallRequests
  PROVE  KernelSpec => NullMeansNoFit
<1> DEFINE Answer ==
             call.op = "kmalloc" /\ call.pc # "idle" /\ call'.pc = "idle" /\ live' = live
               => \A b \in DOMAIN heap : heap[b].is_free => heap[b].size < call.needed
<1>1. KernelInv /\ HeapListInv /\ [KernelNext]_mainVars => [Answer]_kheapVars
  <2> SUFFICES ASSUME KernelInv, HeapListInv, KernelNext, call.op = "kmalloc",
                      call.pc # "idle", call'.pc = "idle", live' = live
               PROVE  NoneFits
    BY DEF NoneFits, mainVars, kheapVars
  <2>1. CASE main_call_step
    BY <2>1, CallAnswers DEF main_call_step, KernelInv
  <2>2. CASE main_pmm_init
    BY <2>2 DEF main_pmm_init, KHeapBoot
  <2>3. CASE \/ pmm_test_alloc_a \/ pmm_test_alloc_b \/ pmm_test_free_a \/ pmm_test_free_b
             \/ paging_test_alloc \/ paging_test_map \/ paging_test_unmap \/ paging_test_free
    <3>1. UnchangedHeap
      BY <2>3 DEF pmm_test_alloc_a, pmm_test_alloc_b, pmm_test_free_a, pmm_test_free_b,
         paging_test_alloc, paging_test_map, paging_test_unmap, paging_test_free
    <3> QED BY <3>1 DEF UnchangedHeap
  <2>4. CASE main_kheap_init \/ kheap_test_check
    BY <2>4 DEF main_kheap_init, kheap_init, Idle, kheap_test_check
  <2>5. CASE kheap_test_alloc_a \/ kheap_test_alloc_b \/ kheap_test_free_a \/ kheap_test_free_b
    BY <2>5 DEF kheap_test_alloc_a, kheap_test_alloc_b, kheap_test_free_a, kheap_test_free_b,
       kmalloc, kfree
  <2>6. CASE shell_call
    BY <2>6 DEF shell_call, kmalloc, kfree
  <2> QED BY <2>1, <2>2, <2>3, <2>4, <2>5, <2>6 DEF KernelNext, KernelStep
<1> QED BY <1>1, KernelListInvariant, KernelInvariant, PTL DEF KernelSpec, NullMeansNoFit
=============================================================================
