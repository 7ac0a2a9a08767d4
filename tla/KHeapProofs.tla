---------------------------- MODULE KHeapProofs ----------------------------
(***************************************************************************)
(* Theorems about the kernel heap of KHeap, for every page size, geometry, *)
(* memory map, place and size of the heap.  The first part is about the    *)
(* pages and holds for requests of any size; the second about the list of  *)
(* blocks, for requests that do not wrap around (SmallRequests).           *)
(***************************************************************************)
EXTENDS KHeap, PmmProofs

(***************************************************************************)
(* A client of the address space.                                          *)
(***************************************************************************)
Entries == Frames \cup {NotMapped}

(* The client owns what it holds, and its pages map frames it holds.       *)
HeldOwned == held \subseteq Frames /\ \A f \in held : owners[f] # 0
ClientMaps == \A v \in ClientPages : space[v] \in held \cup {NotMapped}

SpaceInv ==
  /\ PmmInv
  /\ space \in [SpacePages -> Entries]
  /\ HeldOwned
  /\ ClientMaps

Unmapped(f) == \A v \in ClientPages : space[v] # f

(* A client's page is not one of the recursive slot.                       *)
LEMMA ClientInSpace == ClientPages \subseteq SpacePages /\ NotMapped \notin Frames
BY PagingSizes DEF NotMapped, Frames

(* Nothing is mapped for the client when boot.S is done.                   *)
LEMMA SpaceInitEstablishes == ASInit => SpaceInv /\ \A v \in ClientPages : space[v] = NotMapped
<1> SUFFICES ASSUME ASInit
             PROVE  SpaceInv /\ \A v \in ClientPages : space[v] = NotMapped
  OBVIOUS
<1>1. PmmInv /\ HeldOwned
  BY PmmInitEstablishes DEF ASInit, HeldOwned
<1>2. \A v \in ClientPages : v \in SpacePages /\ pde_idx(v) # KERNEL_PDE
  BY PagingSizes
<1>3. \A v \in ClientPages : space[v] = NotMapped
  BY <1>2 DEF ASInit
<1>4. ASSUME NEW v \in SpacePages PROVE BootTable[pte_idx(v)] \in Entries
  <2> DEFINE i == pte_idx(v)
  <2>1. i \in Index
    <3>1. ENTRIES \in Nat \ {0}
      BY PagingSizes
    <3>2. v \in Nat
      <4>1. ENTRIES * ENTRIES \in Nat
        BY <3>1
      <4> QED BY <4>1 DEF SpacePages, Pages
    <3> QED BY <3>1, <3>2, DivMod DEF Index, pte_idx
  <2> HIDE DEF i
  <2>2. i = ENTRIES - 1 \/ i \in Frames
    BY <2>1, PagingSizes, PmmSizes DEF Index, Frames
  <2>3. BootTable[i] = IF i = ENTRIES - 1 THEN VGA_FRAME ELSE i
    BY <2>1 DEF BootTable
  <2> QED BY <2>2, <2>3, PagingSizes DEF Entries, i
<1>5. space \in [SpacePages -> Entries]
  BY <1>4 DEF ASInit, Entries
<1> QED BY <1>1, <1>3, <1>5 DEF SpaceInv, ClientMaps

(* The steps of pmm_init give out no frame.                                *)
LEMMA BootKeeps ==
  ASSUME SpaceInv, PmmBoot, UNCHANGED <<space, held>>
  PROVE  SpaceInv'
<1>1. owners' = owners
  BY DEF PmmBoot, pmm_init_invalid, pmm_init_highest, pmm_init_size,
         pmm_init_region, pmm_init_reserve
<1>2. PmmInv'
  BY InvalidPreserves, HighestPreserves, SizePreserves, RegionPreserves,
     ReservePreserves DEF SpaceInv, PmmBoot
<1> QED BY <1>1, <1>2 DEF SpaceInv, HeldOwned, ClientMaps

(* A frame taken is new to the client, and none of its pages maps it.      *)
LEMMA TakeKeeps ==
  ASSUME SpaceInv, TakeFrame
  PROVE  /\ SpaceInv' /\ space' = space
         /\ LET addr == pmm_alloc_frame(pmm).addr IN
            \/ addr = 0 /\ held' = held
            \/ \E f \in Frames :
                 /\ addr = f * PMM_PAGE_SIZE /\ addr_to_frame(addr) = f /\ addr \in Nat \ {0}
                 /\ f \notin held /\ held' = held \cup {f} /\ Unmapped(f)
<1> DEFINE addr == pmm_alloc_frame(pmm).addr
<1>1. /\ ClientAlloc /\ space' = space
      /\ held' = held \cup {f \in Frames : owners'[f] > owners[f]}
  BY DEF TakeFrame
<1>2. PmmInv /\ PmmInv' /\ owners \in [Frames -> Nat] /\ held \subseteq Frames
  BY <1>1, AllocPreserves DEF SpaceInv, PmmInv, PmmTypeOK, HeldOwned
<1>3. CASE addr = 0 /\ owners' = owners
  <2>1. held' = held
    BY <1>1, <1>2, <1>3
  <2> QED
    BY <1>1, <1>2, <1>3, <2>1 DEF SpaceInv, HeldOwned, ClientMaps
<1>4. ASSUME NEW n \in Frames, addr # 0,
             addr = n * PMM_PAGE_SIZE, addr_to_frame(addr) = n,
             owners[n] = 0, owners' = [owners EXCEPT ![n] = 1]
      PROVE  /\ SpaceInv' /\ addr \in Nat \ {0}
             /\ n \notin held /\ held' = held \cup {n} /\ Unmapped(n)
  <2> HIDE DEF addr
  <2>2. owners'[n] = 1 /\ \A f \in Frames \ {n} : owners'[f] = owners[f]
    BY <1>2, <1>4
  <2>3. held' = held \cup {n} /\ n \notin held
    BY <1>1, <1>2, <1>4, <2>2 DEF SpaceInv, HeldOwned
  <2>4. HeldOwned'
    BY <1>2, <2>2, <2>3 DEF SpaceInv, HeldOwned
  <2>5. Unmapped(n)
    BY <2>3, ClientInSpace DEF SpaceInv, ClientMaps, Unmapped
  <2>6. addr \in Nat \ {0}
    BY <1>4, PmmSizes DEF Frames
  <2>7. ClientMaps'
    BY <1>1, <2>3 DEF SpaceInv, ClientMaps
  <2>8. SpaceInv'
    BY <1>1, <1>2, <2>4, <2>7 DEF SpaceInv
  <2> QED BY <2>3, <2>5, <2>6, <2>8
<1>5. \/ addr = 0 /\ owners' = owners
      \/ \E n \in Frames :
           /\ addr # 0 /\ addr = n * PMM_PAGE_SIZE /\ addr_to_frame(addr) = n
           /\ owners[n] = 0 /\ owners' = [owners EXCEPT ![n] = 1]
  BY <1>1, <1>2, AllocOwners
<1>6. CASE addr = 0 /\ owners' = owners
  BY <1>1, <1>2, <1>3, <1>6
<1>7. CASE addr # 0
  <2>1. PICK n \in Frames :
          /\ addr = n * PMM_PAGE_SIZE /\ addr_to_frame(addr) = n
          /\ owners[n] = 0 /\ owners' = [owners EXCEPT ![n] = 1]
    BY <1>5, <1>7
  <2> HIDE DEF addr
  <2>2. /\ SpaceInv' /\ addr \in Nat \ {0}
        /\ n \notin held /\ held' = held \cup {n} /\ Unmapped(n)
    BY <1>4, <1>7, <2>1
  <2> QED BY <1>1, <2>1, <2>2 DEF addr
<1> QED BY <1>3, <1>5, <1>6, <1>7

(* Giving back a frame no page maps.                                       *)
LEMMA GiveKeeps ==
  ASSUME SpaceInv, NEW f \in held, GiveFrame(f)
  PROVE  SpaceInv' /\ space' = space /\ held' = held \ {f}
<1>1. /\ Unmapped(f) /\ ClientFree(f * PMM_PAGE_SIZE) /\ held' = held \ {f}
      /\ space' = space
  BY DEF GiveFrame, Unmapped
<1>2. f \in Frames /\ owners[f] # 0 /\ PmmInv /\ owners \in [Frames -> Nat]
  BY DEF SpaceInv, HeldOwned, PmmInv, PmmTypeOK
<1>3. PmmInv' /\ owners' = [owners EXCEPT ![f] = 0]
  BY <1>1, <1>2, FreeOwners
<1>4. HeldOwned'
  BY <1>1, <1>2, <1>3 DEF SpaceInv, HeldOwned
<1>5. ClientMaps'
  BY <1>1 DEF SpaceInv, ClientMaps, Unmapped
<1> QED BY <1>1, <1>3, <1>4, <1>5 DEF SpaceInv

(* Mapping a page changes that page; the frame of a new table is not one   *)
(* the client holds.                                                       *)
LEMMA MapKeeps ==
  ASSUME SpaceInv, NEW v \in ClientPages, NEW f \in held, ASMap(v, f)
  PROVE  /\ SpaceInv' /\ held' = held
         /\ \A w \in SpacePages : space'[w] = IF w = v THEN f ELSE space[w]
<1>1. /\ space' = [space EXCEPT ![v] = f] /\ held' = held
      /\ UNCHANGED pmmVars \/ ClientAlloc
  BY DEF ASMap
<1>2. /\ space \in [SpacePages -> Entries] /\ v \in SpacePages /\ f \in Entries
      /\ owners \in [Frames -> Nat] /\ PmmInv
  BY ClientInSpace DEF SpaceInv, HeldOwned, Entries, PmmInv, PmmTypeOK
<1>3. /\ space' \in [SpacePages -> Entries]
      /\ \A w \in SpacePages : space'[w] = IF w = v THEN f ELSE space[w]
  BY <1>1, <1>2
<1>4. PmmInv' /\ \A g \in held : owners'[g] # 0
  <2>1. CASE UNCHANGED pmmVars
    <3>1. PmmInv'
      BY <1>2, <2>1 DEF pmmVars, PmmInv, PmmTypeOK, EmptyBeforeSizing, UsedCountExact,
         Known, NoOwnerBeforeReady, ReservedMarked, OwnedMarked
    <3> QED BY <2>1, <3>1 DEF pmmVars, SpaceInv, HeldOwned
  <2>2. CASE ClientAlloc
    <3>1. PmmInv'
      BY <1>2, <2>2, AllocPreserves
    <3>2. owners' = owners \/ \E n \in Frames : owners' = [owners EXCEPT ![n] = 1]
      BY <1>2, <2>2, AllocOwners
    <3>3. \A g \in Frames : owners[g] # 0 => owners'[g] # 0
      BY <1>2, <3>2
    <3> QED BY <3>1, <3>3 DEF SpaceInv, HeldOwned
  <2> QED BY <1>1, <2>1, <2>2
<1>5. HeldOwned' /\ ClientMaps'
  BY <1>1, <1>3, <1>4, ClientInSpace DEF SpaceInv, HeldOwned, ClientMaps
<1> QED BY <1>1, <1>3, <1>4, <1>5 DEF SpaceInv

(***************************************************************************)
(* Addresses and pages.                                                    *)
(***************************************************************************)
P == PMM_PAGE_SIZE
OnPage(a) == a \in Nat /\ a % P = 0
HeapEnd == KHEAP_START + KHEAP_MAX_BYTES

(* The sizes of the heap, in the form the proofs use them.                 *)
LEMMA HeapSizes ==
  /\ P \in Nat \ {0} /\ U32 \in Nat
  /\ KHEAP_START \in Nat \ {0} /\ OnPage(KHEAP_START)
  /\ KHEAP_MAX_BYTES \in Nat \ {0} /\ OnPage(KHEAP_MAX_BYTES)
  /\ HeapEnd \in Nat /\ OnPage(HeapEnd) /\ HeapEnd < U32
  /\ KHEAP_START + P <= HeapEnd /\ P <= KHEAP_START
<1>1. P \in Nat \ {0} /\ U32 \in Nat
  BY PmmSizes DEF P
<1>2. /\ KHEAP_START \in Nat \ {0} /\ OnPage(KHEAP_START)
      /\ KHEAP_MAX_BYTES \in Nat \ {0} /\ OnPage(KHEAP_MAX_BYTES)
      /\ HeapEnd \in Nat /\ HeapEnd < U32
  BY KHeapSizes DEF OnPage, P, HeapEnd
<1>3. OnPage(HeapEnd)
  BY <1>1, <1>2, MultipleSum DEF HeapEnd, OnPage
<1>4. 0 + P <= KHEAP_START /\ 0 + P <= KHEAP_MAX_BYTES
  <2>1. 0 % P = 0
    BY <1>1, Multiple
  <2> QED BY <1>1, <1>2, <2>1, MultipleGap DEF OnPage
<1> QED BY <1>1, <1>2, <1>3, <1>4 DEF HeapEnd

(* A page of the heap's range is one its caller may map.                   *)
LEMMA PageInHeap ==
  ASSUME NEW a \in Nat, a % P = 0, KHEAP_START <= a, a < HeapEnd
  PROVE  page_of(a) \in ClientPages /\ a + P <= HeapEnd
<1>1. /\ P \in Nat \ {0} /\ OnPage(KHEAP_START) /\ OnPage(HeapEnd)
  BY HeapSizes
<1>2. a + P <= HeapEnd /\ page_of(a) < page_of(HeapEnd)
  BY <1>1, MultipleGap DEF OnPage, page_of, P
<1>3. page_of(KHEAP_START) <= page_of(a)
  <2>1. CASE KHEAP_START = a
    BY <2>1, <1>1, DivBounds DEF page_of, P
  <2>2. CASE KHEAP_START < a
    <3>1. KHEAP_START \div P < a \div P
      BY <1>1, <2>2, MultipleGap DEF OnPage
    <3>2. KHEAP_START \div P \in Nat /\ a \div P \in Nat
      BY <1>1, DivBounds DEF OnPage
    <3> QED BY <3>1, <3>2 DEF page_of, P
  <2> QED BY <1>1, <2>1, <2>2 DEF OnPage
<1>4. page_of(a) \in Nat /\ page_of(HeapEnd) \in Nat /\ page_of(KHEAP_START) \in Nat
  BY <1>1, DivBounds DEF OnPage, page_of, P
<1>5. page_of(a) \in page_of(KHEAP_START) .. page_of(HeapEnd) - 1
  BY <1>2, <1>3, <1>4
<1>6. page_of(KHEAP_START) .. page_of(HeapEnd) - 1 \subseteq ClientPages
  BY KHeapSizes DEF HeapEnd
<1> QED BY <1>2, <1>5, <1>6

(* The page after.                                                         *)
LEMMA NextPage ==
  ASSUME NEW a \in Nat, a % P = 0
  PROVE  a + P \in Nat /\ (a + P) % P = 0 /\ page_of(a) \in Nat
         /\ page_of(a + P) = page_of(a) + 1
<1>1. P \in Nat \ {0}
  BY HeapSizes
<1>2. P % P = 0 /\ P \div P = 1
  <2>1. 1 * P = P
    BY <1>1
  <2>2. (1 * P) \div P = 1 /\ (1 * P) % P = 0
    BY <1>1, Multiple
  <2> QED BY <2>1, <2>2
<1>3. (a + P) % P = 0 /\ (a + P) \div P = a \div P + P \div P
  BY <1>1, <1>2, MultipleSum
<1>4. a \div P \in Nat
  BY <1>1, DivBounds
<1> QED BY <1>1, <1>2, <1>3, <1>4 DEF page_of, P

(***************************************************************************)
(* The invariant of the pages.  kheap_extend has mapped the pages up to    *)
(* map_at while it runs; they become the heap's only when it succeeds.  It *)
(* maps over what an earlier, failed extension may have left mapped there. *)
(***************************************************************************)
Growing == call.pc \in {"page", "map"}
Top == IF Growing THEN call.map_at ELSE kheap.end

CallType ==
  /\ DOMAIN call = {"pc", "op", "size", "needed", "cur", "map_at", "pages", "frame"}
  /\ call.pc \in Pcs /\ call.op \in {"none", "kheap_init", "kmalloc"}
  /\ call.needed \in Nat /\ call.map_at \in Nat /\ call.pages \in Nat

Extent ==
  /\ kheap = [end |-> kheap.end, first |-> kheap.first]
  /\ OnPage(kheap.end) /\ KHEAP_START <= kheap.end /\ kheap.end <= HeapEnd

(* The frame between pmm_alloc_frame and paging_map_page.                  *)
FrameInHand ==
  LET f == addr_to_frame(call.frame)
  IN  f \in held /\ call.frame = f * PMM_PAGE_SIZE /\ Unmapped(f)

GrowInv ==
  Growing =>
    /\ OnPage(call.map_at) /\ kheap.end <= call.map_at /\ call.map_at <= HeapEnd
    /\ call.pc = "map" => call.pages > 0 /\ call.map_at < HeapEnd /\ FrameInHand

Backed(top) ==
  \A a, b \in page_of(KHEAP_START) .. page_of(top) - 1 :
    /\ space[a] \in held
    /\ a # b => space[a] # space[b]

HeapPagesInv ==
  /\ SpaceInv
  /\ CallType
  /\ Extent
  /\ GrowInv
  /\ Backed(Top)

SameHeapPages ==
  \A a \in page_of(KHEAP_START) .. page_of(kheap.end) - 1 : space'[a] = space[a]

(* What is backed up to a page is backed up to an earlier one.             *)
LEMMA PagesBelow ==
  ASSUME NEW a \in Nat, NEW b \in Nat, OnPage(a), OnPage(b), a <= b
  PROVE  page_of(a) \in Nat /\ page_of(b) \in Nat /\ page_of(a) <= page_of(b)
<1>1. P \in Nat \ {0}
  BY HeapSizes
<1>2. page_of(a) \in Nat /\ page_of(b) \in Nat
  BY <1>1, DivBounds DEF page_of, P
<1>3. CASE a < b
  <2>1. a \div P < b \div P
    BY <1>1, <1>3, MultipleGap DEF OnPage
  <2> QED BY <1>2, <2>1 DEF page_of, P
<1>4. CASE a = b
  BY <1>2, <1>4
<1> QED BY <1>2, <1>3, <1>4

(* The pages of the heap are pages of the address space.                   *)
LEMMA HeapPagesInSpace ==
  ASSUME NEW top \in Nat, OnPage(top), top <= HeapEnd
  PROVE  page_of(KHEAP_START) .. page_of(top) - 1 \subseteq ClientPages
<1>1. /\ page_of(top) \in Nat /\ page_of(HeapEnd) \in Nat
      /\ page_of(top) <= page_of(HeapEnd)
  BY PagesBelow, HeapSizes
<1>2. page_of(KHEAP_START) \in Nat
  BY HeapSizes, PagesBelow
<1>3. page_of(KHEAP_START) .. page_of(HeapEnd) - 1 \subseteq ClientPages
  BY KHeapSizes DEF HeapEnd
<1> QED BY <1>1, <1>2, <1>3

(* The heap proper is part of what is backed.                              *)
LEMMA TopAboveEnd ==
  ASSUME HeapPagesInv
  PROVE  /\ Top \in Nat /\ OnPage(Top) /\ kheap.end <= Top /\ Top <= HeapEnd
         /\ kheap.end \in Nat
         /\ page_of(kheap.end) <= page_of(Top)
         /\ Backed(kheap.end)
<1>1. Top \in Nat /\ OnPage(Top) /\ kheap.end <= Top /\ Top <= HeapEnd /\ kheap.end \in Nat
  BY DEF HeapPagesInv, GrowInv, Extent, Top, OnPage
<1>2. /\ page_of(kheap.end) \in Nat /\ page_of(Top) \in Nat
      /\ page_of(kheap.end) <= page_of(Top)
  BY <1>1, PagesBelow DEF HeapPagesInv, Extent
<1>3. page_of(KHEAP_START) \in Nat
  BY HeapSizes, PagesBelow
<1>4. Backed(kheap.end)
  BY <1>2, <1>3 DEF HeapPagesInv, Backed
<1> QED BY <1>1, <1>2, <1>4

(* A step that leaves the address space and the heap's extent alone, and   *)
(* in which no page is being mapped afterwards.                            *)
LEMMA QuietKeeps ==
  ASSUME HeapPagesInv, UNCHANGED asVars, kheap' = kheap, CallType',
         call'.pc \notin {"page", "map"}
  PROVE  HeapPagesInv' /\ SameHeapPages
<1>1. space' = space /\ held' = held /\ UNCHANGED pmmVars
  BY DEF asVars
<1>2. PmmInv'
  BY <1>1 DEF HeapPagesInv, SpaceInv, pmmVars, PmmInv, PmmTypeOK, EmptyBeforeSizing,
     UsedCountExact, Known, NoOwnerBeforeReady, ReservedMarked, OwnedMarked
<1>3. SpaceInv'
  BY <1>1, <1>2 DEF HeapPagesInv, SpaceInv, HeldOwned, ClientMaps, pmmVars
<1>4. Top' = kheap.end /\ GrowInv'
  BY DEF Top, Growing, GrowInv
<1>5. Backed(Top)'
  BY <1>1, <1>4, TopAboveEnd DEF Backed
<1>6. Extent' /\ SameHeapPages
  BY <1>1 DEF HeapPagesInv, Extent, SameHeapPages
<1> QED BY <1>3, <1>4, <1>5, <1>6 DEF HeapPagesInv

(* A call that has returned is well typed.                                 *)
LEMMA IdleType ==
  ASSUME call' = Idle PROVE CallType' /\ call'.pc \notin {"page", "map"}
BY DEF CallType, Idle, Pcs, NULL

(* kheap_align rounds to a natural number.                                 *)
LEMMA AlignNat ==
  ASSUME NEW n \in Nat PROVE kheap_align(n) \in Nat
<1> DEFINE m == (n + KHEAP_ALIGN - 1) % U32
<1>1. KHEAP_ALIGN \in Nat \ {0} /\ U32 \in Nat \ {0}
  BY KHeapSizes, PmmSizes
<1>2. m \in Nat
  BY <1>1
<1> HIDE DEF m
<1>3. m - (m % KHEAP_ALIGN) \in Nat
  <2>1. m % KHEAP_ALIGN \in Nat /\ m \div KHEAP_ALIGN \in Nat
        /\ m = KHEAP_ALIGN * (m \div KHEAP_ALIGN) + (m % KHEAP_ALIGN)
    BY <1>1, <1>2, DivMod, DivBounds
  <2>2. KHEAP_ALIGN * (m \div KHEAP_ALIGN) \in Nat
    BY <1>1, <2>1
  <2> QED BY <1>2, <2>1, <2>2
<1> QED BY <1>3 DEF kheap_align, m

(* So does PageCount.                                                      *)
LEMMA PageCountNat ==
  ASSUME NEW n \in Nat PROVE PageCount(n) \in Nat
<1> DEFINE grow == KHEAP_GROW_PAGES * PMM_PAGE_SIZE
           need == IF n < grow THEN grow ELSE n
           m == (need + PMM_PAGE_SIZE - 1) % U32
<1>1. KHEAP_GROW_PAGES \in Nat /\ PMM_PAGE_SIZE \in Nat \ {0} /\ U32 \in Nat \ {0}
  BY KHeapSizes, PmmSizes
<1>2. grow \in Nat
  BY <1>1
<1> HIDE DEF grow
<1>3. need \in Nat
  BY <1>2
<1> HIDE DEF need
<1>4. m \in Nat
  BY <1>1, <1>3
<1> HIDE DEF m
<1>5. m \div PMM_PAGE_SIZE \in Nat
  BY <1>1, <1>4, DivBounds
<1> QED BY <1>5 DEF PageCount, m, need, grow

ASStep == ASNext \/ UNCHANGED asVars

(* The calls that touch no page.                                           *)
LEMMA KmallocPages ==
  ASSUME HeapPagesInv, NEW size \in Nat, kmalloc(size)
  PROVE  HeapPagesInv' /\ SameHeapPages /\ ASStep
<1>1. call.pc = "idle" /\ UNCHANGED asVars /\ kheap' = kheap
  BY DEF kmalloc
<1> DEFINE needed == kheap_align((size + HEADER) % U32)
           room == IF needed < KHEAP_MIN_BLOCK THEN KHEAP_MIN_BLOCK ELSE needed
<1>2. room \in Nat
  <2>1. size \in Nat /\ HEADER \in Nat /\ U32 \in Nat \ {0}
    BY KHeapSizes, PmmSizes
  <2>2. (size + HEADER) % U32 \in Nat
    BY <2>1
  <2>3. needed \in Nat
    BY <2>2, AlignNat
  <2>4. KHEAP_MIN_BLOCK \in Nat
    BY KHeapSizes DEF KHEAP_MIN_BLOCK
  <2> QED BY <2>3, <2>4
<1>3. \/ call' = call
      \/ call' = [Idle EXCEPT !.pc = "scan", !.op = "kmalloc", !.size = size,
                              !.cur = kheap.first, !.needed = room]
  BY DEF kmalloc
<1> HIDE DEF room
<1>5. CallType' /\ call'.pc \notin {"page", "map"}
  <2>1. CASE call' = call
    BY <1>1, <2>1 DEF HeapPagesInv, CallType
  <2>2. CASE call' # call
    <3>1. call' = [pc |-> "scan", op |-> "kmalloc", size |-> size, needed |-> room,
                   cur |-> kheap.first, map_at |-> 0, pages |-> 0, frame |-> 0]
      BY <1>3, <2>2 DEF Idle
    <3> QED BY <1>2, <3>1 DEF CallType, Pcs
  <2> QED BY <2>1, <2>2
<1> QED BY <1>1, <1>5, QuietKeeps DEF ASStep

(* kfree works on the list alone.                                          *)
LEMMA KfreePages ==
  ASSUME HeapPagesInv, NEW ptr, kfree(ptr)
  PROVE  HeapPagesInv' /\ SameHeapPages /\ ASStep
<1>1. call.pc = "idle" /\ UNCHANGED asVars /\ kheap' = kheap /\ call' = call
  BY DEF kfree
<1>2. CallType' /\ call'.pc \notin {"page", "map"}
  BY <1>1 DEF HeapPagesInv, CallType
<1> QED BY <1>1, <1>2, QuietKeeps DEF ASStep

(* The scan and its end, and the ways out of kheap_extend without a frame. *)
LEMMA QuietSteps ==
  ASSUME HeapPagesInv,
         kmalloc_found \/ kmalloc_scan \/ kheap_extend_limit
  PROVE  HeapPagesInv' /\ SameHeapPages /\ ASStep
<1>1. CASE kmalloc_found
  BY <1>1, IdleType, QuietKeeps DEF kmalloc_found, ASStep
<1>2. CASE kmalloc_scan
  <2>1. UNCHANGED asVars /\ kheap' = kheap /\ call.pc = "scan"
    BY <1>2 DEF kmalloc_scan
  <2>2. \/ call' = [call EXCEPT !.pc = "extend"]
        \/ call' = [call EXCEPT !.cur = heap[call.cur].next]
    BY <1>2 DEF kmalloc_scan
  <2>3. CallType' /\ call'.pc \notin {"page", "map"}
    BY <2>1, <2>2 DEF HeapPagesInv, CallType, Pcs
  <2> QED BY <2>1, <2>3, QuietKeeps DEF ASStep
<1>3. CASE kheap_extend_limit
  BY <1>3, IdleType, QuietKeeps
     DEF kheap_extend_limit, kheap_extend_fails, StopAtLimit, ASStep
<1> QED BY <1>1, <1>2, <1>3

(* kheap_init starts an empty heap.                                        *)
LEMMA InitPages ==
  ASSUME HeapPagesInv, kheap_init
  PROVE  HeapPagesInv' /\ SameHeapPages /\ ASStep
<1>1. /\ kheap' = [end |-> KHEAP_START, first |-> NULL] /\ UNCHANGED asVars
      /\ call' = [Idle EXCEPT !.pc = "extend", !.op = "kheap_init",
                              !.needed = PMM_PAGE_SIZE]
      /\ space' = space /\ held' = held
  BY DEF kheap_init, asVars
<1>2. CallType' /\ call'.pc = "extend"
  BY <1>1, PmmSizes DEF CallType, Idle, Pcs, NULL
<1>3. SpaceInv'
  <2>1. PmmInv'
    BY <1>1 DEF asVars, HeapPagesInv, SpaceInv, pmmVars, PmmInv, PmmTypeOK,
       EmptyBeforeSizing, UsedCountExact, Known, NoOwnerBeforeReady, ReservedMarked,
       OwnedMarked
  <2> QED BY <1>1, <2>1 DEF asVars, HeapPagesInv, SpaceInv, HeldOwned, ClientMaps, pmmVars
<1>4. Extent'
  BY <1>1, HeapSizes DEF Extent, OnPage
<1>5. GrowInv' /\ Top' = KHEAP_START
  BY <1>1, <1>2 DEF GrowInv, Growing, Top
<1>6. Backed(KHEAP_START)'
  BY <1>1, HeapSizes, PagesBelow DEF Backed
<1>7. Backed(Top)'
  BY <1>5, <1>6
<1>8. SameHeapPages
  BY <1>1 DEF SameHeapPages
<1> QED BY <1>1, <1>2, <1>3, <1>4, <1>5, <1>7, <1>8 DEF HeapPagesInv, ASStep

(* kheap_extend up to its loop.                                            *)
LEMMA ExtendPages ==
  ASSUME HeapPagesInv, kheap_extend
  PROVE  HeapPagesInv' /\ SameHeapPages /\ ASStep
<1>1. UNCHANGED asVars /\ kheap' = kheap /\ call.pc = "extend"
      /\ space' = space /\ held' = held
  BY DEF kheap_extend, asVars
<1>2. CASE call' = Idle
  BY <1>1, <1>2, IdleType, QuietKeeps DEF ASStep
<1>3. CASE call' = [call EXCEPT !.pc = "page", !.map_at = ExtendFrom,
                                !.pages = PageCount(call.needed)]
  <2>1. PageCount(call.needed) \in Nat
    BY PageCountNat DEF HeapPagesInv, CallType
  <2>2. CallType' /\ call'.pc = "page" /\ call'.map_at = kheap.end
    BY <1>3, <2>1, TopAboveEnd DEF HeapPagesInv, CallType, Pcs, ExtendFrom
  <2>3. SpaceInv'
    <3>1. PmmInv'
      BY <1>1 DEF asVars, HeapPagesInv, SpaceInv, pmmVars, PmmInv, PmmTypeOK,
         EmptyBeforeSizing, UsedCountExact, Known, NoOwnerBeforeReady, ReservedMarked,
         OwnedMarked
    <3> QED BY <1>1, <3>1 DEF asVars, HeapPagesInv, SpaceInv, HeldOwned, ClientMaps, pmmVars
  <2>4. Extent' /\ GrowInv' /\ Top' = kheap.end
    BY <1>1, <2>2, TopAboveEnd DEF HeapPagesInv, Extent, GrowInv, Growing, Top
  <2>5. Backed(Top)'
    BY <1>1, <2>4, TopAboveEnd DEF Backed
  <2>6. SameHeapPages
    BY <1>1 DEF SameHeapPages
  <2> QED BY <1>1, <2>2, <2>3, <2>4, <2>5, <2>6 DEF HeapPagesInv, ASStep
<1> QED BY <1>2, <1>3 DEF kheap_extend, kheap_extend_fails

(* A new frame for the next page, or none left.                            *)
LEMMA FramePages ==
  ASSUME HeapPagesInv, kheap_extend_frame
  PROVE  HeapPagesInv' /\ SameHeapPages /\ ASStep
<1> DEFINE addr == pmm_alloc_frame(pmm).addr
<1>1. /\ call.pc = "page" /\ call.pages > 0 /\ ~OverLimit /\ TakeFrame
      /\ kheap' = kheap
      /\ call' = IF addr = NULL THEN Idle
                 ELSE [call EXCEPT !.pc = "map", !.frame = addr]
  BY DEF kheap_extend_frame, kheap_extend_fails
<1>2. /\ SpaceInv' /\ space' = space
      /\ \/ addr = 0 /\ held' = held
         \/ \E f \in Frames :
              /\ addr = f * PMM_PAGE_SIZE /\ addr_to_frame(addr) = f /\ addr \in Nat \ {0}
              /\ f \notin held /\ held' = held \cup {f} /\ Unmapped(f)
  BY <1>1, TakeKeeps DEF HeapPagesInv
<1> HIDE DEF addr
<1>3. SameHeapPages /\ ASStep /\ Extent'
  BY <1>1, <1>2 DEF SameHeapPages, ASStep, ASNext, HeapPagesInv, Extent
<1>4. CASE addr = 0
  <2>1. call' = Idle /\ held' = held
    BY <1>1, <1>2, <1>4 DEF NULL
  <2>2. CallType' /\ call'.pc \notin {"page", "map"}
    BY <2>1, IdleType
  <2>3. Top' = kheap.end /\ GrowInv'
    BY <1>1, <2>2 DEF Top, Growing, GrowInv
  <2>4. Backed(Top)'
    BY <1>2, <2>1, <2>3, TopAboveEnd DEF Backed
  <2> QED BY <1>2, <1>3, <2>2, <2>3, <2>4 DEF HeapPagesInv
<1>5. CASE addr # 0
  <2>1. PICK f \in Frames :
          /\ addr = f * PMM_PAGE_SIZE /\ addr_to_frame(addr) = f /\ addr \in Nat \ {0}
          /\ f \notin held /\ held' = held \cup {f} /\ Unmapped(f)
    BY <1>2, <1>5
  <2>2. call' = [call EXCEPT !.pc = "map", !.frame = addr]
    BY <1>1, <1>5 DEF NULL
  <2>3. /\ CallType' /\ call'.pc = "map" /\ call'.map_at = call.map_at
        /\ call'.pages = call.pages /\ call'.frame = addr
    BY <2>2 DEF HeapPagesInv, CallType, Pcs
  <2>4. FrameInHand'
    BY <1>2, <2>1, <2>3 DEF FrameInHand, Unmapped
  <2>5. Top = call.map_at /\ Top' = call.map_at /\ call.map_at < HeapEnd
    <3>1. Top = call.map_at /\ Top' = call.map_at
      BY <1>1, <2>3 DEF Top, Growing
    <3>2. call.map_at + P - KHEAP_START <= KHEAP_MAX_BYTES
      BY <1>1, HeapSizes, TopAboveEnd, <3>1 DEF OverLimit, P
    <3> QED BY <3>1, <3>2, HeapSizes, TopAboveEnd DEF HeapEnd
  <2>6. GrowInv'
    BY <1>1, <2>3, <2>4, <2>5 DEF HeapPagesInv, GrowInv, Growing
  <2>7. Backed(Top)'
    BY <1>2, <2>1, <2>5 DEF HeapPagesInv, Backed
  <2> QED BY <1>2, <1>3, <2>3, <2>6, <2>7 DEF HeapPagesInv
<1> QED BY <1>4, <1>5

(* The page is mapped, whether or not a table had to be made for it.       *)
LEMMA MapPages ==
  ASSUME HeapPagesInv, kheap_extend_map
  PROVE  HeapPagesInv' /\ SameHeapPages /\ ASStep
<1> DEFINE f == addr_to_frame(call.frame)
           v == page_of(call.map_at)
<1>1. /\ call.pc = "map" /\ ASMap(v, f) /\ kheap' = kheap
      /\ call' = [call EXCEPT !.pc = "page", !.map_at = call.map_at + PMM_PAGE_SIZE,
                              !.pages = call.pages - 1]
  BY DEF kheap_extend_map
<1>2. /\ f \in held /\ Unmapped(f) /\ call.pages > 0 /\ call.pages \in Nat
      /\ call.map_at \in Nat /\ call.map_at % P = 0 /\ call.map_at < HeapEnd
      /\ kheap.end <= call.map_at /\ Top = call.map_at
  BY <1>1 DEF HeapPagesInv, GrowInv, Growing, FrameInHand, OnPage, CallType, Top
<1>3. KHEAP_START <= kheap.end /\ kheap.end \in Nat
  BY DEF HeapPagesInv, Extent, OnPage
<1>4. v \in ClientPages /\ call.map_at + P <= HeapEnd
  BY <1>2, <1>3, HeapSizes, PageInHeap
<1>5. /\ SpaceInv' /\ held' = held
      /\ \A w \in SpacePages : space'[w] = IF w = v THEN f ELSE space[w]
  BY <1>1, <1>2, <1>4, MapKeeps DEF HeapPagesInv
<1>6. ASStep
  BY <1>1, <1>2, <1>4 DEF ASStep, ASNext
<1>7. /\ call.map_at + P \in Nat /\ (call.map_at + P) % P = 0
      /\ v \in Nat /\ page_of(call.map_at + P) = v + 1
  BY <1>2, NextPage
<1>8. /\ CallType' /\ call'.pc = "page" /\ call'.map_at = call.map_at + P
  <2>1. call.map_at + PMM_PAGE_SIZE \in Nat /\ call.pages - 1 \in Nat
    BY <1>2, PmmSizes
  <2> QED BY <1>1, <2>1 DEF HeapPagesInv, CallType, Pcs, P
<1>9. GrowInv' /\ Top' = call.map_at + P /\ Extent'
  BY <1>1, <1>2, <1>3, <1>4, <1>7, <1>8, HeapSizes
     DEF HeapPagesInv, GrowInv, Growing, Top, OnPage, Extent
<1> HIDE DEF f, v
<1>10. page_of(KHEAP_START) \in Nat /\ page_of(KHEAP_START) <= v
  BY <1>2, <1>3, HeapSizes, PagesBelow DEF OnPage, v
<1>11. page_of(KHEAP_START) .. v - 1 \subseteq ClientPages
  <2>1. call.map_at <= HeapEnd /\ OnPage(call.map_at)
    BY <1>2, HeapSizes DEF OnPage
  <2> QED BY <1>2, <2>1, HeapPagesInSpace DEF v
<1>12. \A a \in page_of(KHEAP_START) .. v - 1 : space'[a] = space[a] /\ a \in ClientPages
  BY <1>5, <1>7, <1>10, <1>11, ClientInSpace
<1>13. space'[v] = f
  BY <1>4, <1>5, ClientInSpace
<1>14. \A a, b \in page_of(KHEAP_START) .. v - 1 :
         space[a] \in held /\ (a # b => space[a] # space[b])
  BY <1>2 DEF HeapPagesInv, Backed, v
<1>15. \A a, b \in page_of(KHEAP_START) .. v :
         space'[a] \in held /\ (a # b => space'[a] # space'[b])
  <2> SUFFICES ASSUME NEW a \in page_of(KHEAP_START) .. v, NEW b \in page_of(KHEAP_START) .. v
               PROVE  space'[a] \in held /\ (a # b => space'[a] # space'[b])
    OBVIOUS
  <2>1. a = v \/ a \in page_of(KHEAP_START) .. v - 1
    BY <1>7, <1>10
  <2>2. b = v \/ b \in page_of(KHEAP_START) .. v - 1
    BY <1>7, <1>10
  <2> QED BY <1>2, <1>12, <1>13, <1>14, <2>1, <2>2 DEF Unmapped
<1>16. Backed(Top)'
  <2>1. page_of(Top') - 1 = v
    BY <1>7, <1>9
  <2> QED BY <1>5, <1>15, <2>1 DEF Backed
<1>17. SameHeapPages
  <2>1. page_of(kheap.end) \in Nat /\ page_of(kheap.end) <= v
    BY <1>2, <1>3, PagesBelow DEF OnPage, v, HeapPagesInv, Extent
  <2> QED BY <1>7, <1>10, <1>12, <2>1 DEF SameHeapPages
<1> QED BY <1>5, <1>6, <1>8, <1>9, <1>16, <1>17 DEF HeapPagesInv

(* Without memory for a table the frame in hand goes back.                 *)
LEMMA MapFailsPages ==
  ASSUME HeapPagesInv, kheap_extend_map_fails
  PROVE  HeapPagesInv' /\ SameHeapPages /\ ASStep
<1> DEFINE f == addr_to_frame(call.frame)
<1>1. /\ call.pc = "map" /\ ClientFree(call.frame) /\ held' = held \ {f}
      /\ call' = Idle /\ kheap' = kheap /\ space' = space /\ tables' = tables
  BY DEF kheap_extend_map_fails, map_failed, kheap_extend_fails
<1>2. f \in held /\ Unmapped(f) /\ call.frame = f * PMM_PAGE_SIZE
  BY <1>1 DEF HeapPagesInv, GrowInv, Growing, FrameInHand
<1> HIDE DEF f
<1>3. GiveFrame(f)
  BY <1>1, <1>2 DEF GiveFrame, Unmapped
<1>4. SpaceInv'
  BY <1>2, <1>3, GiveKeeps DEF HeapPagesInv
<1>5. CallType' /\ call'.pc \notin {"page", "map"}
  BY <1>1, IdleType
<1>6. Top' = kheap.end /\ GrowInv' /\ Extent'
  BY <1>1, <1>5 DEF Top, Growing, GrowInv, HeapPagesInv, Extent
<1>7. \A a \in page_of(KHEAP_START) .. page_of(kheap.end) - 1 : space[a] # f
  <2>1. page_of(KHEAP_START) .. page_of(kheap.end) - 1 \subseteq ClientPages
    BY TopAboveEnd, HeapPagesInSpace DEF HeapPagesInv, Extent
  <2> QED BY <1>2, <2>1 DEF Unmapped
<1>8. Backed(Top)'
  BY <1>1, <1>6, <1>7, TopAboveEnd DEF Backed
<1>9. SameHeapPages /\ ASStep
  BY <1>1, <1>2, <1>3 DEF SameHeapPages, ASStep, ASNext
<1> QED BY <1>4, <1>5, <1>6, <1>8, <1>9 DEF HeapPagesInv

(* Success: the mapped pages become the heap's.                            *)
LEMMA LinkPages ==
  ASSUME HeapPagesInv, kheap_extend_link
  PROVE  HeapPagesInv' /\ SameHeapPages /\ ASStep
<1>1. call.pc = "page" /\ UNCHANGED asVars /\ space' = space /\ held' = held
  BY DEF kheap_extend_link, asVars
<1>2. CASE space[page_of(kheap.end)] = NotMapped
  <2>1. kheap' = kheap /\ call' = [call EXCEPT !.pc = "halted"]
    BY <1>2 DEF kheap_extend_link
  <2>2. CallType' /\ call'.pc \notin {"page", "map"}
    BY <2>1 DEF HeapPagesInv, CallType, Pcs
  <2> QED BY <1>1, <2>1, <2>2, QuietKeeps DEF ASStep
<1>3. CASE space[page_of(kheap.end)] # NotMapped
  <2>1. /\ kheap' = [end |-> call.map_at,
                     first |-> IF kheap.first = NULL THEN kheap.end ELSE kheap.first]
        /\ call' = IF call.op = "kheap_init" THEN Idle
                   ELSE [call EXCEPT !.pc = "scan", !.cur = kheap'.first]
    BY <1>3 DEF kheap_extend_link
  <2>2. CallType' /\ call'.pc \notin {"page", "map"}
    <3>1. CASE call' = Idle
      BY <3>1, IdleType
    <3>2. CASE call' = [call EXCEPT !.pc = "scan", !.cur = kheap'.first]
      BY <3>2 DEF HeapPagesInv, CallType, Pcs
    <3> QED BY <2>1, <3>1, <3>2
  <2>3. kheap'.end = call.map_at /\ kheap' = [end |-> kheap'.end, first |-> kheap'.first]
    BY <2>1
  <2>4. Top = call.map_at /\ Top' = call.map_at
    BY <1>1, <2>2, <2>3 DEF Top, Growing
  <2>5. Extent'
    BY <2>3, <2>4, TopAboveEnd, HeapSizes DEF HeapPagesInv, Extent
  <2>6. GrowInv'
    BY <2>2 DEF GrowInv, Growing
  <2>7. SpaceInv'
    <3>1. PmmInv'
      BY <1>1 DEF asVars, HeapPagesInv, SpaceInv, pmmVars, PmmInv, PmmTypeOK,
         EmptyBeforeSizing, UsedCountExact, Known, NoOwnerBeforeReady, ReservedMarked,
         OwnedMarked
    <3> QED BY <1>1, <3>1 DEF asVars, HeapPagesInv, SpaceInv, HeldOwned, ClientMaps, pmmVars
  <2>8. Backed(Top)'
    BY <1>1, <2>4 DEF HeapPagesInv, Backed
  <2>9. SameHeapPages
    BY <1>1 DEF SameHeapPages
  <2> QED BY <1>1, <2>2, <2>5, <2>6, <2>7, <2>8, <2>9 DEF HeapPagesInv, ASStep
<1> QED BY <1>2, <1>3

(* The steps of pmm_init come before the heap.                             *)
LEMMA BootPages ==
  ASSUME HeapPagesInv, KHeapBoot
  PROVE  HeapPagesInv' /\ SameHeapPages /\ ASStep
<1>1. PmmBoot /\ UNCHANGED <<space, tables, held, heap, kheap, call, live>>
  BY DEF KHeapBoot
<1>2. SpaceInv'
  BY <1>1, BootKeeps DEF HeapPagesInv
<1>3. CallType' /\ Extent' /\ GrowInv' /\ Backed(Top)' /\ SameHeapPages
  BY <1>1 DEF HeapPagesInv, CallType, Extent, GrowInv, Growing, FrameInHand, Unmapped,
     Backed, Top, SameHeapPages
<1>4. ASStep
  BY <1>1 DEF ASStep, ASNext, ASBoot
<1> QED BY <1>2, <1>3, <1>4 DEF HeapPagesInv

(* Any step of the heap or its callers.                                    *)
LEMMA CallPages ==
  ASSUME HeapPagesInv, CallStep
  PROVE  HeapPagesInv' /\ SameHeapPages /\ ASStep
BY InitPages, QuietSteps, ExtendPages, FramePages, MapPages, MapFailsPages, LinkPages
   DEF CallStep

(* Stuttering.                                                             *)
LEMMA PagesStutter ==
  ASSUME HeapPagesInv, UNCHANGED kheapVars
  PROVE  HeapPagesInv' /\ SameHeapPages /\ ASStep
<1>1. UNCHANGED asVars /\ kheap' = kheap /\ call' = call /\ space' = space /\ held' = held
  BY DEF kheapVars, asVars
<1>2. PmmInv'
  BY <1>1 DEF asVars, HeapPagesInv, SpaceInv, pmmVars, PmmInv, PmmTypeOK,
     EmptyBeforeSizing, UsedCountExact, Known, NoOwnerBeforeReady, ReservedMarked,
     OwnedMarked
<1>3. SpaceInv'
  BY <1>1, <1>2 DEF asVars, HeapPagesInv, SpaceInv, HeldOwned, ClientMaps, pmmVars
<1>4. CallType' /\ Extent' /\ GrowInv' /\ Backed(Top)' /\ SameHeapPages
  BY <1>1 DEF HeapPagesInv, CallType, Extent, GrowInv, Growing, FrameInHand, Unmapped,
     Backed, Top, SameHeapPages
<1> QED BY <1>1, <1>3, <1>4 DEF HeapPagesInv, ASStep

(* The heap before kheap_init.                                             *)
LEMMA HeapPagesInit == KHeapInit => HeapPagesInv
<1> SUFFICES ASSUME KHeapInit PROVE HeapPagesInv
  OBVIOUS
<1>1. SpaceInv
  BY SpaceInitEstablishes DEF KHeapInit
<1>2. CallType /\ ~Growing
  BY DEF KHeapInit, Idle, CallType, Pcs, Growing, NULL
<1>3. Extent /\ kheap.end = KHEAP_START
  BY HeapSizes DEF KHeapInit, Extent, OnPage
<1>4. Backed(Top)
  BY <1>2, <1>3, HeapSizes, PagesBelow DEF Top, Backed
<1> QED BY <1>1, <1>2, <1>3, <1>4 DEF HeapPagesInv, GrowInv

(* One step of the specification.                                          *)
LEMMA HeapPagesStep ==
  ASSUME HeapPagesInv, [KHeapNext]_kheapVars
  PROVE  HeapPagesInv' /\ SameHeapPages /\ ASStep
<1>1. Sizes \subseteq Nat
  BY KHeapSizes
<1> QED BY <1>1, BootPages, CallPages, KmallocPages, KfreePages, PagesStutter DEF KHeapNext

(* The invariant of the heap's pages holds whatever is asked of the heap,  *)
(* sizes that wrap around included.                                        *)
THEOREM HeapPagesInvariant == KHeapSpec => []HeapPagesInv
<1>1. HeapPagesInv /\ [KHeapNext]_kheapVars => HeapPagesInv'
  BY HeapPagesStep
<1> QED BY <1>1, HeapPagesInit, PTL DEF KHeapSpec

(* The invariant implies the property of the runs.                         *)
LEMMA PagesInvBacked == HeapPagesInv => HeapPagesBacked
BY TopAboveEnd DEF Backed, HeapPagesBacked

(* Every page of the heap is backed by a frame of its own that the heap    *)
(* holds, after any sequence of extensions that succeeded or failed.       *)
THEOREM HeapBacked == KHeapSpec => []HeapPagesBacked
BY PagesInvBacked, HeapPagesInvariant, PTL

(* A page of the heap never changes its frame.                             *)
THEOREM HeapStable == KHeapSpec => HeapPagesStable
<1>1. HeapPagesInv /\ [KHeapNext]_kheapVars =>
        [\A a \in page_of(KHEAP_START) .. page_of(kheap.end) - 1 :
           space'[a] = space[a]]_kheapVars
  BY HeapPagesStep DEF SameHeapPages
<1> QED BY <1>1, HeapPagesInvariant, PTL DEF KHeapSpec, HeapPagesStable

(* The heap is a client that keeps the rules of the address space.         *)
THEOREM HeapIsClient == KHeapSpec => HeapKeepsPagingRules
<1>1. KHeapInit => ASInit
  BY DEF KHeapInit
<1>2. HeapPagesInv /\ [KHeapNext]_kheapVars => [ASNext]_asVars
  BY HeapPagesStep DEF ASStep
<1> QED
  BY <1>1, <1>2, HeapPagesInvariant, PTL DEF KHeapSpec, HeapKeepsPagingRules, ASSpec

(***************************************************************************)
(* The invariant of the list.                                              *)
(***************************************************************************)
Aligned(n) == n \in Nat /\ n % KHEAP_ALIGN = 0

Blocks == [size : Nat, is_free : BOOLEAN, next : Nat, prev : Nat]

(* A block against its neighbours in the list h of a heap that ends at end.*)
BlockOK(h, end, b) ==
  /\ Aligned(b) /\ KHEAP_START <= b
  /\ Aligned(h[b].size) /\ KHEAP_MIN_BLOCK <= h[b].size
  /\ b + h[b].size <= end
  /\ h[b].prev = NULL <=> b = KHEAP_START
  /\ h[b].prev # NULL => h[b].prev \in DOMAIN h /\ h[h[b].prev].next = b
  /\ h[b].next = NULL => b + h[b].size = end
  /\ h[b].next # NULL => /\ h[b].next = b + h[b].size
                         /\ h[b].next \in DOMAIN h
                         /\ h[h[b].next].prev = b

Linked(h, end) ==
  /\ h \in [DOMAIN h -> Blocks]
  /\ KHEAP_START \in DOMAIN h
  /\ \A b \in DOMAIN h : BlockOK(h, end, b)
  /\ \A b, c \in DOMAIN h : b < c => b + h[b].size <= c
  /\ \E b \in DOMAIN h : h[b].next = NULL

(* No two free blocks side by side.                                        *)
Coalesced(h) ==
  \A b \in DOMAIN h : h[b].next # NULL => ~h[b].is_free \/ ~h[h[b].next].is_free

ListInv ==
  IF kheap.first = NULL THEN DOMAIN heap = {} /\ kheap.end = KHEAP_START
  ELSE kheap.first = KHEAP_START /\ Linked(heap, kheap.end) /\ Coalesced(heap)

(* The pointers handed out are the used blocks.                            *)
LiveInv ==
  /\ \A b \in DOMAIN heap : ~heap[b].is_free => b + HEADER \in DOMAIN live
  /\ \A p \in DOMAIN live :
       /\ p \in Nat /\ HEADER <= p /\ p - HEADER \in DOMAIN heap
       /\ ~heap[p - HEADER].is_free
       /\ live[p] \in Nat /\ HEADER + live[p] <= heap[p - HEADER].size

(* What a call in progress needs, and what its scan has found out.         *)
Working == call.pc \in {"scan", "extend", "page", "map"}

NeedInv ==
  Working =>
    /\ Aligned(call.needed) /\ KHEAP_MIN_BLOCK <= call.needed
    /\ call.size \in Nat /\ call.size + HEADER <= call.needed
    /\ call.needed + PMM_PAGE_SIZE <= U32

NoneFits == \A b \in DOMAIN heap : heap[b].is_free => heap[b].size < call.needed

ScanInv ==
  /\ call.pc = "scan" =>
       /\ call.cur \in DOMAIN heap \cup {NULL}
       /\ \A b \in DOMAIN heap : Fits(b, call.needed) => call.cur # NULL /\ call.cur <= b
  /\ call.pc \in {"extend", "page", "map"} => NoneFits
  /\ call.pc = "page" => call.pages > 0 \/ kheap.end < call.map_at
  /\ call.pc = "boot" => kheap.first = NULL
  /\ call.pc # "halted"

HeapListInv == ListInv /\ LiveInv /\ NeedInv /\ ScanInv

(***************************************************************************)
(* Operations on the list.                                                 *)
(***************************************************************************)
(* Sizes of headers and blocks.                                            *)
LEMMA BlockSizes ==
  /\ KHEAP_ALIGN \in Nat \ {0} /\ HEADER \in Nat \ {0} /\ KHEAP_MIN_BLOCK \in Nat \ {0}
  /\ Aligned(HEADER) /\ Aligned(KHEAP_MIN_BLOCK) /\ Aligned(P) /\ KHEAP_MIN_BLOCK <= P
  /\ Aligned(KHEAP_START) /\ HEADER < KHEAP_MIN_BLOCK
<1>1. /\ KHEAP_ALIGN \in Nat \ {0} /\ HEADER \in Nat \ {0} /\ HEADER % KHEAP_ALIGN = 0
      /\ P % KHEAP_ALIGN = 0 /\ KHEAP_MIN_BLOCK <= P
  BY KHeapSizes DEF P
<1>2. KHEAP_MIN_BLOCK = HEADER + KHEAP_ALIGN
  BY DEF KHEAP_MIN_BLOCK
<1>3. KHEAP_ALIGN % KHEAP_ALIGN = 0
  <2>1. 1 * KHEAP_ALIGN = KHEAP_ALIGN
    BY <1>1
  <2>2. (1 * KHEAP_ALIGN) % KHEAP_ALIGN = 0
    BY <1>1, Multiple
  <2> QED BY <2>1, <2>2
<1>4. (HEADER + KHEAP_ALIGN) % KHEAP_ALIGN = 0
  BY <1>1, <1>3, MultipleSum
<1>5. KHEAP_START % KHEAP_ALIGN = 0
  BY <1>1, HeapSizes, MultipleTrans DEF OnPage
<1> QED BY <1>1, <1>2, <1>4, <1>5, HeapSizes DEF Aligned

(* Alignment of sums and differences.                                      *)
LEMMA AlignedSum ==
  ASSUME NEW a, NEW b, Aligned(a), Aligned(b)
  PROVE  Aligned(a + b) /\ (a <= b => Aligned(b - a))
<1>1. a \in Nat /\ b \in Nat /\ a % KHEAP_ALIGN = 0 /\ b % KHEAP_ALIGN = 0
      /\ KHEAP_ALIGN \in Nat \ {0}
  BY BlockSizes DEF Aligned
<1>2. (a + b) % KHEAP_ALIGN = 0 /\ (a <= b => (b - a) % KHEAP_ALIGN = 0)
  BY <1>1, MultipleSum
<1>3. a + b \in Nat /\ (a <= b => b - a \in Nat)
  BY <1>1
<1> QED BY <1>2, <1>3 DEF Aligned

(* What a page boundary is.                                                *)
LEMMA AlignedPages == ASSUME NEW a, OnPage(a) PROVE Aligned(a)
BY HeapSizes, BlockSizes, MultipleTrans DEF OnPage, Aligned

(* The facts about one block.                                              *)
LEMMA BlockFacts ==
  ASSUME NEW h, NEW end \in Nat, Linked(h, end), NEW b \in DOMAIN h
  PROVE  /\ BlockOK(h, end, b) /\ h[b] \in Blocks
         /\ b \in Nat \ {0} /\ h[b].size \in Nat \ {0} /\ h[b].is_free \in BOOLEAN
         /\ h[b].next \in Nat /\ h[b].prev \in Nat
         /\ b < end
<1>1. BlockOK(h, end, b) /\ h[b] \in Blocks
  BY DEF Linked
<1>2. b \in Nat /\ h[b].size \in Nat /\ KHEAP_START <= b /\ KHEAP_MIN_BLOCK <= h[b].size
      /\ b + h[b].size <= end
  BY <1>1 DEF BlockOK, Aligned
<1> QED BY <1>1, <1>2, BlockSizes, HeapSizes DEF Blocks

(* Blocks in the order of their addresses; the last one is the only one    *)
(* without a next.                                                         *)
LEMMA LastUnique ==
  ASSUME NEW h, NEW end \in Nat, Linked(h, end), NEW b \in DOMAIN h, NEW c \in DOMAIN h,
         h[b].next = NULL
  PROVE  c <= b
<1>1. b \in Nat /\ c \in Nat /\ c < end /\ b + h[b].size = end
  BY BlockFacts DEF BlockOK
<1>2. b < c => b + h[b].size <= c
  BY DEF Linked
<1> QED BY <1>1, <1>2

(* LastBlock is it.                                                        *)
LEMMA LastIs ==
  ASSUME NEW h, NEW end \in Nat, Linked(h, end)
  PROVE  LastBlock(h) \in DOMAIN h /\ h[LastBlock(h)].next = NULL
<1>1. \E b \in DOMAIN h : h[b].next = NULL
  BY DEF Linked
<1> QED BY <1>1, Zenon DEF LastBlock

(* Nothing lies between a block and the next.                              *)
LEMMA NextFacts ==
  ASSUME NEW h, NEW end \in Nat, Linked(h, end), NEW b \in DOMAIN h, h[b].next # NULL
  PROVE  /\ h[b].next \in DOMAIN h /\ h[h[b].next].prev = b
         /\ h[b].next = b + h[b].size /\ b < h[b].next
         /\ \A a \in DOMAIN h : a # b => h[a].next # h[b].next
         /\ h[h[b].next].next # b
<1>1. h[b].next \in DOMAIN h /\ h[h[b].next].prev = b /\ h[b].next = b + h[b].size
  BY BlockFacts DEF BlockOK
<1>2. b < h[b].next
  BY <1>1, BlockFacts
<1>3. \A a \in DOMAIN h : h[a].next = h[b].next => h[h[a].next].prev = a
  BY BlockFacts DEF BlockOK
<1>4. h[h[b].next].next # b
  <2>1. CASE h[h[b].next].next = b
    <3> DEFINE n == h[b].next
    <3>1. n \in DOMAIN h /\ h[n].next # NULL /\ h[n].next = b
      BY <1>1, <2>1, BlockFacts DEF NULL
    <3>2. h[n].next = n + h[n].size
      BY <3>1, BlockFacts DEF BlockOK
    <3>3. n \in Nat /\ h[n].size \in Nat /\ b \in Nat
      BY <3>1, BlockFacts
    <3> HIDE DEF n
    <3>4. b < n
      BY <1>2 DEF n
    <3> QED BY <3>1, <3>2, <3>3, <3>4
  <2> QED BY <2>1
<1> QED BY <1>1, <1>2, <1>3, <1>4

(* The list g is h with block gone merged into b.                          *)
Merged(h, end, b, gone, g) ==
  /\ Linked(g, end)
  /\ DOMAIN g = DOMAIN h \ {gone} /\ gone \in DOMAIN h /\ gone # b
  /\ g[b].next = h[gone].next /\ g[b].prev = h[b].prev
  /\ \A a \in DOMAIN g :
       /\ g[a].is_free = h[a].is_free
       /\ a # b => g[a].size = h[a].size /\ g[a].next = h[a].next

(* Absorb merges a block with the next one; every other block keeps its    *)
(* size and its state.                                                     *)
LEMMA AbsorbKeeps ==
  ASSUME NEW h, NEW end \in Nat, Linked(h, end), NEW b \in DOMAIN h, NEW gone, NEW g,
         gone = h[b].next, gone # NULL, g = Absorb(h, b, gone)
  PROVE  Merged(h, end, b, gone, g)
<1>1. /\ gone \in DOMAIN h /\ h[gone].prev = b /\ gone = b + h[b].size /\ b < gone
      /\ \A a \in DOMAIN h : a # b => h[a].next # gone
      /\ h[gone].next # b
  BY NextFacts
<1>2. \A a \in DOMAIN h : h[a] \in Blocks /\ BlockOK(h, end, a) /\ a \in Nat \ {0}
                          /\ h[a].size \in Nat /\ h[a].next \in Nat /\ h[a].prev \in Nat
  BY BlockFacts
<1>3. gone # NULL /\ gone # b /\ gone \in Nat
  BY <1>1, <1>2 DEF NULL
<1>4. g = [a \in DOMAIN h \ {gone} |->
             CASE a = b -> [h[b] EXCEPT !.size = h[b].size + h[gone].size,
                                        !.next = h[gone].next]
               [] a = h[gone].next -> Relink(h[a], b)
               [] OTHER -> h[a]]
  BY DEF Absorb
<1>5. h[gone].next # gone
  <2>1. h[gone].next # NULL => h[gone].next = gone + h[gone].size /\ 0 < h[gone].size
    BY <1>1, BlockFacts DEF BlockOK
  <2> QED BY <1>1, <1>2, <1>3, <2>1 DEF NULL
<1>6. DOMAIN g = DOMAIN h \ {gone}
  BY <1>4
<1>7. /\ b \in DOMAIN g
      /\ g[b] = [h[b] EXCEPT !.size = h[b].size + h[gone].size, !.next = h[gone].next]
  BY <1>1, <1>3, <1>4
<1>8. \A a \in DOMAIN g : a # b =>
        g[a] = IF a = h[gone].next THEN Relink(h[a], b) ELSE h[a]
  BY <1>4
<1>9. /\ g[b].size = h[b].size + h[gone].size /\ g[b].next = h[gone].next
      /\ g[b].prev = h[b].prev /\ g[b].is_free = h[b].is_free /\ g[b] \in Blocks
  <2> DEFINE r == h[b]
             k == h[b].size + h[gone].size
             x == h[gone].next
  <2>1. r \in Blocks /\ k \in Nat /\ x \in Nat
    BY <1>1, <1>2
  <2>2. g[b] = [r EXCEPT !.size = k, !.next = x]
    BY <1>7
  <2> HIDE DEF r, k, x
  <2>3. /\ g[b].size = k /\ g[b].next = x /\ g[b].prev = r.prev
        /\ g[b].is_free = r.is_free /\ g[b] \in Blocks
    BY <2>1, <2>2 DEF Blocks
  <2> QED BY <2>3 DEF r, k, x
<1>10. \A a \in DOMAIN g : a # b =>
         /\ g[a].size = h[a].size /\ g[a].next = h[a].next /\ g[a].is_free = h[a].is_free
         /\ g[a].prev = IF a = h[gone].next THEN b ELSE h[a].prev
         /\ g[a] \in Blocks
  <2> SUFFICES ASSUME NEW a \in DOMAIN g, a # b
               PROVE  /\ g[a].size = h[a].size /\ g[a].next = h[a].next
                      /\ g[a].is_free = h[a].is_free
                      /\ g[a].prev = IF a = h[gone].next THEN b ELSE h[a].prev
                      /\ g[a] \in Blocks
    OBVIOUS
  <2>1. h[a] \in Blocks /\ b \in Nat
    BY <1>2, <1>6
  <2>2. CASE a = h[gone].next
    <3>1. g[a] = [h[a] EXCEPT !.prev = b]
      BY <1>8, <2>2 DEF Relink
    <3> QED BY <2>1, <2>2, <3>1 DEF Blocks
  <2>3. CASE a # h[gone].next
    <3>1. g[a] = h[a]
      BY <1>8, <2>3
    <3> QED BY <2>1, <2>3, <3>1
  <2> QED BY <2>2, <2>3
<1>11. g \in [DOMAIN g -> Blocks]
  <2>1. g = [a \in DOMAIN g |-> g[a]]
    BY <1>4, <1>6
  <2> QED BY <1>9, <1>10, <2>1
<1>12. KHEAP_START \in DOMAIN g
  BY <1>1, <1>2, <1>3, <1>6 DEF Linked, BlockOK
<1>13. BlockOK(g, end, b)
  <2>1. Aligned(g[b].size) /\ KHEAP_MIN_BLOCK <= g[b].size
    <3>1. /\ Aligned(h[b].size) /\ Aligned(h[gone].size) /\ KHEAP_MIN_BLOCK <= h[b].size
      BY <1>1, <1>2 DEF BlockOK
    <3>2. Aligned(h[b].size + h[gone].size)
      BY <3>1, AlignedSum
    <3> QED BY <1>1, <1>2, <1>9, <3>1, <3>2, BlockSizes
  <2>2. b + g[b].size = gone + h[gone].size
    BY <1>1, <1>2, <1>9
  <2>3. BlockOK(h, end, gone) /\ BlockOK(h, end, b)
    BY <1>1, <1>2
  <2>4. g[b].prev # NULL => g[b].prev \in DOMAIN g /\ g[g[b].prev].next = b
    <3> SUFFICES ASSUME h[b].prev # NULL
                 PROVE  h[b].prev \in DOMAIN g /\ g[h[b].prev].next = b
      BY <1>9
    <3>1. h[b].prev \in DOMAIN h /\ h[h[b].prev].next = b
      BY <2>3 DEF BlockOK
    <3>2. h[b].prev # gone /\ h[b].prev # b
      BY <1>1, <1>3, <3>1
    <3> QED BY <1>6, <1>10, <3>1, <3>2
  <2>5. g[b].next # NULL => g[b].next = b + g[b].size /\ g[b].next \in DOMAIN g
                            /\ g[g[b].next].prev = b
    <3> SUFFICES ASSUME h[gone].next # NULL
                 PROVE  /\ h[gone].next = gone + h[gone].size /\ h[gone].next \in DOMAIN g
                        /\ g[h[gone].next].prev = b
      BY <1>9, <2>2
    <3>1. h[gone].next = gone + h[gone].size /\ h[gone].next \in DOMAIN h
      BY <2>3 DEF BlockOK
    <3>2. h[gone].next # b /\ h[gone].next # gone
      BY <1>1, <1>5
    <3> QED BY <1>6, <1>10, <3>1, <3>2
  <2>6. g[b].next = NULL => b + g[b].size = end
    BY <1>9, <2>2, <2>3 DEF BlockOK
  <2>7. b + g[b].size <= end
    BY <2>2, <2>3 DEF BlockOK
  <2> QED BY <1>9, <2>1, <2>3, <2>4, <2>5, <2>6, <2>7 DEF BlockOK
<1>14. ASSUME NEW a \in DOMAIN g, a # b PROVE BlockOK(g, end, a)
  <2>1. /\ a \in DOMAIN h /\ a # gone /\ BlockOK(h, end, a)
        /\ g[a].size = h[a].size /\ g[a].next = h[a].next
        /\ g[a].prev = IF a = h[gone].next THEN b ELSE h[a].prev
    BY <1>2, <1>6, <1>10, <1>14
  <2>2. g[a].prev = NULL <=> a = KHEAP_START
    <3>1. CASE a = h[gone].next
      <4>1. a # NULL /\ h[a].prev = gone
        BY <1>1, <1>2, <2>1, <3>1 DEF BlockOK, NULL
      <4> QED BY <1>2, <1>3, <2>1, <3>1, <4>1 DEF BlockOK, NULL
    <3>2. CASE a # h[gone].next
      BY <2>1, <3>2 DEF BlockOK
    <3> QED BY <3>1, <3>2
  <2>3. g[a].prev # NULL => g[a].prev \in DOMAIN g /\ g[g[a].prev].next = a
    <3>1. CASE a = h[gone].next
      BY <1>7, <1>9, <2>1, <3>1
    <3>2. ASSUME a # h[gone].next, h[a].prev # NULL
          PROVE  h[a].prev \in DOMAIN g /\ g[h[a].prev].next = a
      <4>1. h[a].prev \in DOMAIN h /\ h[h[a].prev].next = a
        BY <2>1, <3>2 DEF BlockOK
      <4>2. h[a].prev # gone /\ h[a].prev # b
        BY <2>1, <3>2, <4>1
      <4> QED BY <1>6, <1>10, <4>1, <4>2
    <3> QED BY <2>1, <3>1, <3>2
  <2>4. h[a].next # NULL => h[a].next \in DOMAIN g /\ g[h[a].next].prev = a
    <3> SUFFICES ASSUME h[a].next # NULL
                 PROVE  h[a].next \in DOMAIN g /\ g[h[a].next].prev = a
      OBVIOUS
    <3>1. h[a].next \in DOMAIN h /\ h[h[a].next].prev = a /\ h[a].next # gone
      BY <1>1, <1>14, <2>1 DEF BlockOK
    <3>2. CASE h[a].next = b
      BY <1>7, <1>9, <3>1, <3>2
    <3>3. CASE h[a].next # b
      <4>1. h[a].next # h[gone].next
        <5>1. h[gone].next = h[a].next => h[h[gone].next].prev = gone
          BY <1>1, <1>2, <3>1 DEF BlockOK
        <5> QED BY <2>1, <3>1, <5>1
      <4> QED BY <1>6, <1>10, <3>1, <3>3, <4>1
    <3> QED BY <3>2, <3>3
  <2> QED BY <2>1, <2>2, <2>3, <2>4 DEF BlockOK
<1>15. \A a, c \in DOMAIN g : a < c => a + g[a].size <= c
  <2> SUFFICES ASSUME NEW a \in DOMAIN g, NEW c \in DOMAIN g, a < c
               PROVE  a + g[a].size <= c
    OBVIOUS
  <2>1. a \in DOMAIN h /\ c \in DOMAIN h /\ c # gone
    BY <1>6
  <2>2. /\ a + h[a].size <= c
        /\ gone < c => gone + h[gone].size <= c
    BY <1>1, <2>1 DEF Linked
  <2>3. CASE a = b
    BY <1>1, <1>2, <1>3, <1>9, <2>1, <2>2, <2>3
  <2>4. CASE a # b
    BY <1>10, <2>2, <2>4
  <2> QED BY <2>3, <2>4
<1>16. \E a \in DOMAIN g : g[a].next = NULL
  <2>1. PICK l \in DOMAIN h : h[l].next = NULL
    BY DEF Linked
  <2>2. CASE l = gone
    BY <1>7, <1>9, <2>1, <2>2
  <2>3. CASE l # gone
    <3>1. l # b
      BY <1>3, <2>1
    <3> QED BY <1>6, <1>10, <2>1, <2>3, <3>1
  <2> QED BY <2>2, <2>3
<1>17. Linked(g, end)
  BY <1>11, <1>12, <1>13, <1>14, <1>15, <1>16 DEF Linked
<1> QED BY <1>1, <1>3, <1>6, <1>9, <1>10, <1>17 DEF Merged

Mark(h, b, v) == [h EXCEPT ![b].is_free = v]

(* The list g is h with block b free or used.                              *)
Marked(h, end, b, v, g) ==
  /\ Linked(g, end) /\ DOMAIN g = DOMAIN h
  /\ g[b].is_free = v
  /\ \A a \in DOMAIN h : /\ g[a].size = h[a].size /\ g[a].next = h[a].next
                         /\ g[a].prev = h[a].prev
                         /\ a # b => g[a].is_free = h[a].is_free

(* Marking a block free or used moves nothing.                             *)
LEMMA MarkKeeps ==
  ASSUME NEW h, NEW end \in Nat, Linked(h, end), NEW b \in DOMAIN h, NEW v \in BOOLEAN
  PROVE  Marked(h, end, b, v, Mark(h, b, v))
<1> DEFINE g == Mark(h, b, v)
<1>1. h \in [DOMAIN h -> Blocks]
  BY DEF Linked
<1>2. /\ DOMAIN g = DOMAIN h /\ g \in [DOMAIN h -> Blocks] /\ g[b].is_free = v
      /\ \A a \in DOMAIN h : /\ g[a].size = h[a].size /\ g[a].next = h[a].next
                             /\ g[a].prev = h[a].prev
                             /\ a # b => g[a].is_free = h[a].is_free
  <2>1. DOMAIN g = DOMAIN h /\ g = [a \in DOMAIN h |-> g[a]]
    BY <1>1 DEF Mark
  <2>2. g[b] = [h[b] EXCEPT !.is_free = v] /\ \A a \in DOMAIN h : a # b => g[a] = h[a]
    BY <1>1 DEF Mark
  <2>3. \A a \in DOMAIN h : h[a] \in Blocks
    BY <1>1
  <2> HIDE DEF g
  <2>4. /\ g[b] \in Blocks /\ g[b].is_free = v /\ g[b].size = h[b].size
        /\ g[b].next = h[b].next /\ g[b].prev = h[b].prev
    <3> DEFINE r == h[b]
    <3>1. r \in Blocks /\ g[b] = [r EXCEPT !.is_free = v]
      BY <2>2, <2>3
    <3> HIDE DEF r
    <3>2. /\ g[b] \in Blocks /\ g[b].is_free = v /\ g[b].size = r.size
          /\ g[b].next = r.next /\ g[b].prev = r.prev
      BY <3>1 DEF Blocks
    <3> QED BY <3>2 DEF r
  <2>5. g \in [DOMAIN h -> Blocks]
    BY <2>1, <2>2, <2>3, <2>4
  <2> QED BY <2>1, <2>2, <2>4, <2>5
<1> HIDE DEF g
<1>3. ASSUME NEW a \in DOMAIN g PROVE BlockOK(g, end, a)
  <2>1. BlockOK(h, end, a)
    BY <1>2 DEF Linked
  <2> QED BY <1>2, <2>1 DEF BlockOK
<1>4. KHEAP_START \in DOMAIN g
  BY <1>2 DEF Linked
<1>5. \A a, c \in DOMAIN g : a < c => a + g[a].size <= c
  BY <1>2 DEF Linked
<1>6. \E a \in DOMAIN g : g[a].next = NULL
  BY <1>2 DEF Linked
<1>7. Linked(g, end)
  BY <1>2, <1>3, <1>4, <1>5, <1>6 DEF Linked
<1> QED BY <1>2, <1>7 DEF g, Marked

(* The list g is h with needed bytes of block b in use.                    *)
Divided(h, end, b, needed, g) ==
  /\ Linked(g, end)
  /\ DOMAIN h \subseteq DOMAIN g
  /\ ~g[b].is_free /\ needed <= g[b].size
  /\ \A a \in DOMAIN h : a # b => /\ g[a].size = h[a].size
                                  /\ g[a].is_free = h[a].is_free
  /\ \A a \in DOMAIN g \ DOMAIN h : g[a].is_free
  /\ Coalesced(h) /\ h[b].is_free => Coalesced(g)

(* kheap_split gives the first part away and keeps the rest as a block.    *)
LEMMA SplitKeeps ==
  ASSUME NEW h, NEW end \in Nat, Linked(h, end), NEW b \in DOMAIN h, NEW needed \in Nat,
         Aligned(needed), KHEAP_MIN_BLOCK <= needed, needed <= h[b].size,
         needed + KHEAP_MIN_BLOCK < U32
  PROVE  Divided(h, end, b, needed, kheap_split(h, b, needed))
<1> DEFINE g == kheap_split(h, b, needed)
           r == b + needed
           next == h[b].next
<1>1. /\ BlockOK(h, end, b) /\ b \in Nat \ {0} /\ h[b].size \in Nat /\ next \in Nat
      /\ h[b].prev \in Nat /\ h[b] \in Blocks
  BY BlockFacts
<1>2. (needed + KHEAP_MIN_BLOCK) % U32 = needed + KHEAP_MIN_BLOCK
  BY BlockSizes, PmmSizes
<1>3. CASE h[b].size < needed + KHEAP_MIN_BLOCK
  <2>1. g = Mark(h, b, FALSE)
    BY <1>2, <1>3 DEF kheap_split, Mark
  <2>2. /\ Linked(g, end) /\ DOMAIN g = DOMAIN h
        /\ g[b].is_free = FALSE
        /\ \A a \in DOMAIN h : /\ g[a].size = h[a].size /\ g[a].next = h[a].next
                               /\ g[a].prev = h[a].prev
                               /\ a # b => g[a].is_free = h[a].is_free
    <3> DEFINE v == FALSE
    <3>1. v \in BOOLEAN /\ g = Mark(h, b, v)
      BY <2>1
    <3> HIDE DEF v, g
    <3>2. /\ Linked(g, end) /\ DOMAIN g = DOMAIN h
          /\ g[b].is_free = v
          /\ \A a \in DOMAIN h : /\ g[a].size = h[a].size /\ g[a].next = h[a].next
                                 /\ g[a].prev = h[a].prev
                                 /\ a # b => g[a].is_free = h[a].is_free
      BY <3>1, MarkKeeps DEF Marked
    <3> QED BY <3>2 DEF v
  <2> HIDE DEF g
  <2>3. ASSUME Coalesced(h), NEW a \in DOMAIN g, g[a].next # NULL
        PROVE  ~g[a].is_free \/ ~g[g[a].next].is_free
    <3>1. a \in DOMAIN h /\ h[a].next # NULL /\ g[a].next = h[a].next
      BY <2>2, <2>3
    <3>2. h[a].next \in DOMAIN h
      BY <3>1, NextFacts
    <3>3. ~h[a].is_free \/ ~h[h[a].next].is_free
      BY <2>3, <3>1 DEF Coalesced
    <3> QED BY <2>2, <3>1, <3>2, <3>3
  <2>4. Coalesced(h) => Coalesced(g)
    BY <2>3 DEF Coalesced
  <2> QED BY <2>2, <2>4 DEF g, Divided
<1>4. CASE ~(h[b].size < needed + KHEAP_MIN_BLOCK)
  <2> DEFINE rest == h[b].size - needed
  <2>1. g = [a \in DOMAIN h \cup {r} |->
               CASE a = r -> [size |-> rest, is_free |-> TRUE, next |-> next, prev |-> b]
                 [] a = b -> [h[b] EXCEPT !.size = needed, !.is_free = FALSE, !.next = r]
                 [] a = next -> Relink(h[a], r)
                 [] OTHER -> h[a]]
    BY <1>2, <1>4 DEF kheap_split
  <2>2. /\ rest \in Nat /\ KHEAP_MIN_BLOCK <= rest /\ Aligned(rest) /\ Aligned(r)
        /\ r \in Nat /\ b < r /\ r + rest = b + h[b].size /\ r # NULL /\ r < b + h[b].size
    <3>1. rest \in Nat /\ KHEAP_MIN_BLOCK <= rest
      BY <1>1, <1>4, BlockSizes
    <3>2. Aligned(rest) /\ Aligned(r)
      BY <1>1, AlignedSum DEF BlockOK
    <3> QED BY <1>1, <3>1, <3>2, BlockSizes DEF NULL
  <2>3. \A a \in DOMAIN h : /\ a \in Nat \ {0} /\ h[a].size \in Nat /\ h[a].next \in Nat
                            /\ h[a].prev \in Nat /\ h[a] \in Blocks /\ BlockOK(h, end, a)
    BY BlockFacts
  <2>4. r \notin DOMAIN h
    <3>1. \A c \in DOMAIN h : b < c => b + h[b].size <= c
      BY DEF Linked
    <3> QED BY <1>1, <2>2, <3>1
  <2>5. next # b /\ next # r /\ (next # NULL => next \in DOMAIN h /\ h[next].prev = b
                                               /\ next = b + h[b].size)
    BY <1>1, <2>2, NextFacts DEF NULL
  <2> HIDE DEF r, rest, next
  <2>6. DOMAIN g = DOMAIN h \cup {r} /\ g = [a \in DOMAIN g |-> g[a]]
    <3>1. DOMAIN g = DOMAIN h \cup {r}
      BY <2>1
    <3>2. g = [a \in DOMAIN g |-> g[a]]
      BY <2>1, <3>1
    <3> QED BY <3>1, <3>2
  <2>7. g[r] = [size |-> rest, is_free |-> TRUE, next |-> next, prev |-> b]
    <3>1. r # b /\ r # next
      BY <2>4, <2>5
    <3> QED BY <2>1, <3>1
  <2>8. g[b] = [h[b] EXCEPT !.size = needed, !.is_free = FALSE, !.next = r]
    BY <2>1, <2>4, <2>5
  <2>9. \A a \in DOMAIN h : a # b => g[a] = IF a = next THEN Relink(h[a], r) ELSE h[a]
    BY <2>1, <2>4
  <2> HIDE DEF g
  <2>10. /\ g[b].size = needed /\ g[b].is_free = FALSE /\ g[b].next = r
         /\ g[b].prev = h[b].prev /\ g[b] \in Blocks
    <3> DEFINE q == h[b]
    <3>1. q \in Blocks /\ g[b] = [q EXCEPT !.size = needed, !.is_free = FALSE, !.next = r]
      BY <1>1, <2>8
    <3> HIDE DEF q
    <3>2. /\ g[b].size = needed /\ g[b].is_free = FALSE /\ g[b].next = r
          /\ g[b].prev = q.prev /\ g[b] \in Blocks
      BY <2>2, <3>1 DEF Blocks
    <3> QED BY <3>2 DEF q
  <2>11. \A a \in DOMAIN h : a # b =>
           /\ g[a].size = h[a].size /\ g[a].next = h[a].next
           /\ g[a].is_free = h[a].is_free
           /\ g[a].prev = IF a = next THEN r ELSE h[a].prev
           /\ g[a] \in Blocks
    BY <2>2, <2>3, <2>9, ZenonT(30) DEF Blocks, Relink
  <2>12. /\ g[r].size = rest /\ g[r].is_free = TRUE /\ g[r].next = next /\ g[r].prev = b
         /\ g[r] \in Blocks
    BY <1>1, <2>2, <2>7 DEF Blocks, next
  <2>13. g \in [DOMAIN g -> Blocks]
    BY <2>6, <2>10, <2>11, <2>12
  <2>14. BlockOK(g, end, b)
    <3>1. h[b].prev # NULL => h[b].prev \in DOMAIN g /\ g[h[b].prev].next = b
      <4> SUFFICES ASSUME h[b].prev # NULL
                   PROVE  h[b].prev \in DOMAIN g /\ g[h[b].prev].next = b
        OBVIOUS
      <4>1. h[b].prev \in DOMAIN h /\ h[h[b].prev].next = b
        BY <1>1 DEF BlockOK
      <4>2. h[b].prev # b
        BY <2>5, <4>1 DEF next
      <4> QED BY <2>6, <2>11, <4>1, <4>2
    <3>2. b + needed = r /\ b + needed <= end
      BY <1>1, <2>2 DEF BlockOK, r
    <3> QED BY <1>1, <2>2, <2>6, <2>10, <2>12, <3>1, <3>2 DEF BlockOK
  <2>15. BlockOK(g, end, r)
    <3>1. KHEAP_START <= r /\ r # KHEAP_START
      BY <1>1, <2>2, HeapSizes DEF BlockOK
    <3>2. r + rest <= end /\ (next = NULL => r + rest = end)
      BY <1>1, <2>2 DEF BlockOK, next
    <3>3. next # NULL => /\ next = r + rest /\ next \in DOMAIN g /\ g[next].prev = r
      BY <2>2, <2>5, <2>6, <2>11
    <3>4. b # NULL /\ b \in DOMAIN g
      BY <1>1, <2>6 DEF NULL
    <3> QED BY <2>2, <2>6, <2>10, <2>12, <3>1, <3>2, <3>3, <3>4 DEF BlockOK
  <2>16. ASSUME NEW a \in DOMAIN h, a # b PROVE BlockOK(g, end, a)
    <3>1. /\ BlockOK(h, end, a) /\ g[a].size = h[a].size /\ g[a].next = h[a].next
          /\ g[a].prev = IF a = next THEN r ELSE h[a].prev
      BY <2>3, <2>11, <2>16
    <3>2. g[a].prev = NULL <=> a = KHEAP_START
      <4>1. CASE a = next
        <5>1. a # NULL /\ h[a].prev = b
          BY <2>3, <2>5, <4>1 DEF NULL
        <5> QED BY <1>1, <2>2, <3>1, <4>1, <5>1 DEF BlockOK, NULL
      <4>2. CASE a # next
        BY <3>1, <4>2 DEF BlockOK
      <4> QED BY <4>1, <4>2
    <3>3. g[a].prev # NULL => g[a].prev \in DOMAIN g /\ g[g[a].prev].next = a
      <4>1. CASE a = next
        BY <2>6, <2>12, <3>1, <4>1
      <4>2. ASSUME a # next, h[a].prev # NULL
            PROVE  h[a].prev \in DOMAIN g /\ g[h[a].prev].next = a
        <5>1. h[a].prev \in DOMAIN h /\ h[h[a].prev].next = a
          BY <3>1, <4>2 DEF BlockOK
        <5>2. h[a].prev # b
          BY <4>2, <5>1 DEF next
        <5> QED BY <2>6, <2>11, <5>1, <5>2
      <4> QED BY <3>1, <4>1, <4>2
    <3>4. h[a].next # NULL => h[a].next \in DOMAIN g /\ g[h[a].next].prev = a
      <4> SUFFICES ASSUME h[a].next # NULL
                   PROVE  h[a].next \in DOMAIN g /\ g[h[a].next].prev = a
        OBVIOUS
      <4>1. h[a].next \in DOMAIN h /\ h[h[a].next].prev = a
        BY <3>1 DEF BlockOK
      <4>2. h[a].next # next
        BY <2>5, <2>16, <4>1
      <4>3. CASE h[a].next = b
        BY <2>6, <2>10, <4>1, <4>3
      <4>4. CASE h[a].next # b
        BY <2>6, <2>11, <4>1, <4>2, <4>4
      <4> QED BY <4>3, <4>4
    <3> QED BY <3>1, <3>2, <3>3, <3>4 DEF BlockOK
  <2>17. \A a \in DOMAIN g : BlockOK(g, end, a)
    BY <2>6, <2>14, <2>15, <2>16
  <2>18. \A a, c \in DOMAIN g : a < c => a + g[a].size <= c
    <3> SUFFICES ASSUME NEW a \in DOMAIN g, NEW c \in DOMAIN g, a < c
                 PROVE  a + g[a].size <= c
      OBVIOUS
    <3>1. \A x, y \in DOMAIN h : x < y => x + h[x].size <= y
      BY DEF Linked
    <3>2. b + needed = r
      BY DEF r
    <3>3. CASE a = r
      <4>1. c \in DOMAIN h /\ b < c
        BY <1>1, <2>2, <2>3, <2>6, <3>3
      <4>2. b + h[b].size <= c
        BY <3>1, <4>1
      <4> QED BY <2>2, <2>12, <3>3, <4>2
    <3>4. CASE a = b
      <4>1. CASE c = r
        BY <2>10, <3>2, <3>4, <4>1, <2>2
      <4>2. CASE c # r
        <5>1. b + h[b].size <= c /\ c \in Nat
          BY <2>3, <2>6, <3>1, <3>4, <4>2
        <5> QED BY <1>1, <2>2, <2>10, <3>2, <3>4, <5>1
      <4> QED BY <4>1, <4>2
    <3>5. CASE a # r /\ a # b
      <4>1. a \in DOMAIN h /\ g[a].size = h[a].size /\ a \in Nat /\ h[a].size \in Nat
        BY <2>3, <2>6, <2>11, <3>5
      <4>2. CASE c = r
        <5>1. a < b
          <6>1. b < a => b + h[b].size <= a
            BY <3>1, <4>1
          <6> QED BY <1>1, <2>2, <3>5, <4>1, <4>2, <6>1
        <5>2. a + h[a].size <= b
          BY <3>1, <4>1, <5>1
        <5> QED BY <1>1, <2>2, <4>1, <4>2, <5>2
      <4>3. CASE c # r
        BY <2>6, <3>1, <4>1, <4>3
      <4> QED BY <4>2, <4>3
    <3> QED BY <3>3, <3>4, <3>5
  <2>19. \E a \in DOMAIN g : g[a].next = NULL
    <3>1. PICK l \in DOMAIN h : h[l].next = NULL
      BY DEF Linked
    <3>2. CASE l = b
      BY <2>6, <2>12, <3>1, <3>2 DEF next
    <3>3. CASE l # b
      BY <2>6, <2>11, <3>1, <3>3
    <3> QED BY <3>2, <3>3
  <2>20. KHEAP_START \in DOMAIN g
    BY <2>6 DEF Linked
  <2>21. Linked(g, end)
    BY <2>13, <2>17, <2>18, <2>19, <2>20 DEF Linked
  <2>22. ASSUME Coalesced(h), h[b].is_free, NEW a \in DOMAIN g, g[a].next # NULL
         PROVE  ~g[a].is_free \/ ~g[g[a].next].is_free
    <3>1. CASE a = b
      BY <2>10, <3>1
    <3>2. CASE a = r
      <4>1. next # NULL /\ next \in DOMAIN h /\ g[a].next = next
        BY <2>5, <2>12, <2>22, <3>2
      <4>2. ~h[next].is_free
        BY <2>22, <4>1 DEF Coalesced, next
      <4> QED BY <2>5, <2>11, <4>1, <4>2
    <3>3. CASE a # b /\ a # r
      <4>1. a \in DOMAIN h /\ h[a].next # NULL /\ g[a].next = h[a].next
            /\ g[a].is_free = h[a].is_free
        BY <2>6, <2>11, <2>22, <3>3
      <4>2. h[a].next \in DOMAIN h
        BY <4>1, NextFacts
      <4>3. ~h[a].is_free \/ ~h[h[a].next].is_free
        BY <2>22, <4>1 DEF Coalesced
      <4> QED BY <2>10, <2>11, <4>1, <4>2, <4>3
    <3> QED BY <3>1, <3>2, <3>3
  <2>23. Coalesced(h) /\ h[b].is_free => Coalesced(g)
    BY <2>22 DEF Coalesced
  <2> QED
    BY <1>1, <2>6, <2>10, <2>11, <2>12, <2>21, <2>23 DEF g, Divided
<1> QED BY <1>3, <1>4

BothFree(h, a) == h[a].is_free /\ h[h[a].next].is_free

(* The list g is h with free blocks merged.                                *)
Joined(h, end, g) ==
  /\ Linked(g, end) /\ Coalesced(g)
  /\ \A a \in DOMAIN g : a \in DOMAIN h /\ g[a].is_free = h[a].is_free
  /\ \A a \in DOMAIN h : ~h[a].is_free => a \in DOMAIN g /\ g[a].size = h[a].size

(* kheap_coalesce restores the list after block b became free: no two free *)
(* blocks are side by side, and no used block has changed.                 *)
LEMMA CoalesceKeeps ==
  ASSUME NEW h, NEW end \in Nat, Linked(h, end), NEW b \in DOMAIN h, h[b].is_free,
         \A a \in DOMAIN h : a # b /\ h[a].next # NULL /\ h[a].next # b => ~BothFree(h, a),
         h[b].next # NULL =>
           LET n == h[b].next IN h[n].is_free /\ h[n].next # NULL => ~h[h[n].next].is_free
  PROVE  Joined(h, end, kheap_coalesce(h, b))
<1> DEFINE next == h[b].next
           f == IF next # NULL /\ h[next].is_free THEN Absorb(h, b, next) ELSE h
           prev == f[b].prev
           g == IF prev # NULL /\ f[prev].is_free THEN Absorb(f, prev, b) ELSE f
<1>1. kheap_coalesce(h, b) = g
  BY DEF kheap_coalesce
<1>2. /\ Linked(f, end) /\ b \in DOMAIN f /\ f[b].is_free
      /\ \A a \in DOMAIN f : a \in DOMAIN h /\ f[a].is_free = h[a].is_free
      /\ \A a \in DOMAIN h : ~h[a].is_free => a \in DOMAIN f /\ f[a].size = h[a].size
      /\ \A a \in DOMAIN f : f[a].next # NULL /\ f[a].next # b => ~BothFree(f, a)
  <2>1. CASE next # NULL /\ h[next].is_free
    <3>1. f = Absorb(h, b, h[b].next) /\ h[b].next # NULL
      BY <2>1
    <3> HIDE DEF f
    <3>2. /\ Linked(f, end)
          /\ DOMAIN f = DOMAIN h \ {next} /\ next \in DOMAIN h /\ next # b
          /\ f[b].next = h[next].next /\ f[b].prev = h[b].prev
          /\ \A a \in DOMAIN f :
               /\ f[a].is_free = h[a].is_free
               /\ a # b => f[a].size = h[a].size /\ f[a].next = h[a].next
      <4>1. Merged(h, end, b, h[b].next, f)
        BY <3>1, AbsorbKeeps
      <4> QED BY <4>1 DEF Merged
    <3>3. ASSUME NEW a \in DOMAIN f, f[a].next # NULL, f[a].next # b
          PROVE  ~BothFree(f, a)
      <4>1. f[a].next \in DOMAIN f
        BY <3>2, <3>3, NextFacts
      <4>2. CASE a = b
        <5>1. h[next].next # NULL /\ f[a].next = h[next].next
          BY <3>2, <3>3, <4>2
        <5>2. ~h[h[next].next].is_free
          BY <2>1, <5>1
        <5> QED BY <3>2, <4>1, <5>1, <5>2 DEF BothFree
      <4>3. CASE a # b
        <5>1. a \in DOMAIN h /\ f[a].next = h[a].next /\ ~BothFree(h, a)
          BY <3>2, <3>3, <4>3
        <5> QED BY <3>2, <4>1, <5>1 DEF BothFree
      <4> QED BY <4>2, <4>3
    <3> QED BY <2>1, <3>2, <3>3
  <2>2. CASE ~(next # NULL /\ h[next].is_free)
    <3>1. f = h
      BY <2>2
    <3>2. ASSUME NEW a \in DOMAIN h, h[a].next # NULL, h[a].next # b
          PROVE  ~BothFree(h, a)
      BY <2>2, <3>2 DEF BothFree
    <3> HIDE DEF f
    <3> QED BY <3>1, <3>2
  <2> QED BY <2>1, <2>2
<1> HIDE DEF f, next
<1>3. /\ prev # NULL => prev \in DOMAIN f /\ f[prev].next = b
      /\ \A a \in DOMAIN f : f[a].next = b => a = prev
      /\ b # NULL /\ prev # b
  <2>1. prev # NULL => prev \in DOMAIN f /\ f[prev].next = b
    BY <1>2, BlockFacts DEF BlockOK
  <2>2. b # NULL
    BY <1>2, BlockFacts DEF NULL
  <2>3. \A a \in DOMAIN f : f[a].next = b => a = prev /\ a # b
    BY <1>2, <2>2, NextFacts
  <2> QED BY <1>2, <2>1, <2>2, <2>3
<1>4. CASE prev # NULL /\ f[prev].is_free
  <2>1. g = Absorb(f, prev, b) /\ prev \in DOMAIN f /\ f[prev].next = b
    BY <1>3, <1>4
  <2> HIDE DEF g, prev
  <2>2. /\ Linked(g, end)
        /\ DOMAIN g = DOMAIN f \ {b}
        /\ g[prev].next = f[b].next
        /\ \A a \in DOMAIN g :
             /\ g[a].is_free = f[a].is_free
             /\ a # prev => g[a].size = f[a].size /\ g[a].next = f[a].next
    <3>1. Merged(f, end, prev, b, g)
      BY <1>2, <1>3, <2>1, AbsorbKeeps
    <3> QED BY <3>1 DEF Merged
  <2>3. ASSUME NEW a \in DOMAIN g, g[a].next # NULL PROVE ~BothFree(g, a)
    <3>1. g[a].next \in DOMAIN g
      BY <2>2, <2>3, NextFacts
    <3>2. CASE a = prev
      <4>1. f[b].next # NULL /\ g[a].next = f[b].next
        BY <2>2, <2>3, <3>2
      <4>2. f[b].next # b
        BY <1>2, <4>1, NextFacts, BlockFacts
      <4>3. ~f[f[b].next].is_free
        BY <1>2, <4>1, <4>2 DEF BothFree
      <4> QED BY <2>2, <3>1, <4>1, <4>3 DEF BothFree
    <3>3. CASE a # prev
      <4>1. a \in DOMAIN f /\ g[a].next = f[a].next /\ f[a].next # b
        BY <1>3, <2>2, <3>3
      <4>2. ~BothFree(f, a)
        BY <1>2, <2>3, <4>1
      <4> QED BY <2>2, <3>1, <4>1, <4>2 DEF BothFree
    <3> QED BY <3>2, <3>3
  <2>4. \A a \in DOMAIN f : ~f[a].is_free => a \in DOMAIN g /\ g[a].size = f[a].size
    BY <1>2, <1>4, <2>2
  <2>5. Coalesced(g)
    BY <2>3 DEF Coalesced, BothFree
  <2> QED BY <1>1, <1>2, <2>2, <2>4, <2>5 DEF Joined
<1>5. CASE ~(prev # NULL /\ f[prev].is_free)
  <2>1. g = f
    BY <1>5
  <2>2. ASSUME NEW a \in DOMAIN f, f[a].next # NULL PROVE ~BothFree(f, a)
    <3>1. CASE f[a].next = b
      <4>1. a = prev /\ a # NULL
        BY <1>2, <1>3, <3>1, BlockFacts DEF NULL
      <4> QED BY <1>5, <4>1 DEF BothFree
    <3>2. CASE f[a].next # b
      BY <1>2, <2>2, <3>2
    <3> QED BY <3>1, <3>2
  <2>3. Coalesced(f)
    BY <2>2 DEF Coalesced, BothFree
  <2> HIDE DEF g
  <2> QED BY <1>1, <1>2, <2>1, <2>3 DEF Joined
<1> QED BY <1>4, <1>5

(* The list g is h with free bytes added at its end.                       *)
Grown(h, end, g) ==
  /\ Linked(g, end) /\ Coalesced(g)
  /\ DOMAIN h \subseteq DOMAIN g
  /\ \A a \in DOMAIN h : /\ g[a].is_free = h[a].is_free
                         /\ ~h[a].is_free => g[a].size = h[a].size
  /\ \A a \in DOMAIN g \ DOMAIN h : g[a].is_free

(* kheap_extend's new block: the last block grows, or one is added after   *)
(* it.                                                                     *)
LEMMA AppendKeeps ==
  ASSUME Linked(heap, kheap.end), Coalesced(heap), kheap.first # NULL,
         kheap.end \in Nat, Aligned(kheap.end),
         NEW size \in Nat, Aligned(size), KHEAP_MIN_BLOCK <= size
  PROVE  Grown(heap, kheap.end + size, Append_block(heap, size))
<1> DEFINE g == Append_block(heap, size)
           block == kheap.end
           last == LastBlock(heap)
           end == block + size
           new(p) == [size |-> size, is_free |-> TRUE, next |-> NULL, prev |-> p]
<1>1. \A a \in DOMAIN heap :
        /\ BlockOK(heap, block, a) /\ heap[a] \in Blocks /\ a \in Nat \ {0}
        /\ heap[a].size \in Nat \ {0} /\ heap[a].next \in Nat /\ heap[a].prev \in Nat
        /\ heap[a].is_free \in BOOLEAN /\ a < block
  BY BlockFacts
<1>2. block \notin DOMAIN heap /\ heap = [a \in DOMAIN heap |-> heap[a]]
  BY <1>1 DEF Linked
<1>3. [a \in DOMAIN heap |-> IF a = block THEN new(NULL) ELSE heap[a]] = heap
  BY <1>2
<1>4. /\ last \in DOMAIN heap /\ heap[last].next = NULL /\ last + heap[last].size = block
      /\ \A a \in DOMAIN heap : heap[a].next = NULL => a = last
  <2>1. last \in DOMAIN heap /\ heap[last].next = NULL
    BY LastIs
  <2>2. last + heap[last].size = block
    BY <1>1, <2>1 DEF BlockOK
  <2>3. ASSUME NEW a \in DOMAIN heap, heap[a].next = NULL PROVE a = last
    <3>1. a <= last /\ last <= a
      BY <2>1, <2>3, LastUnique
    <3> QED BY <1>1, <2>1, <3>1
  <2> QED BY <2>1, <2>2, <2>3
<1>5. g = IF heap[last].is_free THEN [heap EXCEPT ![last].size = @ + size]
          ELSE [a \in DOMAIN heap \cup {block} |->
                  CASE a = block -> new(last)
                    [] a = last  -> [heap[last] EXCEPT !.next = block]
                    [] OTHER     -> heap[a]]
  <2> DEFINE h == [a \in DOMAIN heap |-> IF a = block THEN new(NULL) ELSE heap[a]]
             l == LastBlock(h)
  <2>1. g = IF h[l].is_free /\ l + h[l].size = block
            THEN [h EXCEPT ![l].size = @ + size]
            ELSE [a \in DOMAIN h \cup {block} |->
                    CASE a = block -> new(l)
                      [] a = l     -> [h[l] EXCEPT !.next = block]
                      [] OTHER     -> h[a]]
    BY Zenon DEF Append_block
  <2>2. h = heap
    BY <1>3
  <2> HIDE DEF h
  <2>3. l = last
    BY <2>2
  <2> HIDE DEF l, last, block, new, g
  <2> QED BY <1>4, <2>1, <2>2, <2>3
<1>6. end \in Nat /\ block <= end /\ block < end /\ block # NULL /\ block \in Nat
  BY <1>1, <1>4, BlockSizes DEF NULL
<1>7. CASE heap[last].is_free
  <2> DEFINE k == heap[last].size + size
             q == heap[last]
  <2>1. g = [heap EXCEPT ![last] = [heap[last] EXCEPT !.size = k]]
    BY <1>5, <1>7
  <2>2. k \in Nat /\ last + k = end /\ Aligned(k) /\ KHEAP_MIN_BLOCK <= k
    <3>1. Aligned(heap[last].size) /\ KHEAP_MIN_BLOCK <= heap[last].size
      BY <1>1, <1>4 DEF BlockOK
    <3>2. Aligned(k)
      BY <3>1, AlignedSum
    <3> QED BY <1>1, <1>4, <3>1, <3>2, BlockSizes
  <2> HIDE DEF g, k
  <2>3. /\ DOMAIN g = DOMAIN heap /\ g = [a \in DOMAIN heap |-> g[a]]
        /\ g[last] = [q EXCEPT !.size = k] /\ q \in Blocks
        /\ \A a \in DOMAIN heap : a # last => g[a] = heap[a]
    BY <1>1, <1>2, <1>4, <2>1
  <2> HIDE DEF q, last
  <2>4. /\ g[last].size = k /\ g[last].next = q.next /\ g[last].prev = q.prev
        /\ g[last].is_free = q.is_free /\ g[last] \in Blocks
    BY <2>2, <2>3 DEF Blocks
  <2>5. /\ g \in [DOMAIN g -> Blocks]
        /\ \A a \in DOMAIN heap :
             /\ g[a].next = heap[a].next /\ g[a].prev = heap[a].prev
             /\ g[a].is_free = heap[a].is_free
             /\ a # last => g[a].size = heap[a].size
    BY <1>1, <2>3, <2>4 DEF q
  <2>6. ASSUME NEW a \in DOMAIN g PROVE BlockOK(g, end, a)
    <3>1. BlockOK(heap, block, a) /\ a \in DOMAIN heap
      BY <1>1, <2>3
    <3>2. CASE a = last
      BY <1>4, <2>2, <2>3, <2>4, <2>5, <3>1, <3>2 DEF BlockOK
    <3>3. CASE a # last
      <4>1. heap[a].next # NULL
        BY <1>4, <3>1, <3>3
      <4>2. a + heap[a].size <= end
        BY <1>1, <1>6, <3>1 DEF BlockOK
      <4> QED BY <2>3, <2>5, <3>1, <3>3, <4>1, <4>2 DEF BlockOK
    <3> QED BY <3>2, <3>3
  <2>7. \A a, c \in DOMAIN g : a < c => a + g[a].size <= c
    <3> SUFFICES ASSUME NEW a \in DOMAIN heap, NEW c \in DOMAIN heap, a < c
                 PROVE  a + g[a].size <= c
      BY <2>3
    <3>1. a + heap[a].size <= c
      BY DEF Linked
    <3>2. a # last
      BY <1>1, <1>4, <3>1
    <3> QED BY <2>5, <3>1, <3>2
  <2>8. Linked(g, end)
    <3>1. KHEAP_START \in DOMAIN g /\ \E a \in DOMAIN g : g[a].next = NULL
      BY <1>4, <2>3, <2>5 DEF Linked
    <3> QED BY <2>5, <2>6, <2>7, <3>1 DEF Linked
  <2>9. Coalesced(g)
    <3> SUFFICES ASSUME NEW a \in DOMAIN heap, heap[a].next # NULL
                 PROVE  ~heap[a].is_free \/ ~g[heap[a].next].is_free
      BY <2>3, <2>5 DEF Coalesced
    <3>1. heap[a].next \in DOMAIN heap
      BY <1>1 DEF BlockOK
    <3> QED BY <2>5, <3>1 DEF Coalesced
  <2>10. \A a \in DOMAIN heap : ~heap[a].is_free => g[a].size = heap[a].size
    BY <1>7, <2>5 DEF last
  <2> QED BY <2>3, <2>5, <2>8, <2>9, <2>10 DEF g, Grown
<1>8. CASE ~heap[last].is_free
  <2> DEFINE q == heap[last]
  <2>1. g = [a \in DOMAIN heap \cup {block} |->
               CASE a = block -> new(last)
                 [] a = last  -> [heap[last] EXCEPT !.next = block]
                 [] OTHER     -> heap[a]]
    BY <1>5, <1>8
  <2> HIDE DEF block, last
  <2>2. /\ DOMAIN g = DOMAIN heap \cup {block} /\ g[block] = new(last)
        /\ g[last] = [q EXCEPT !.next = block] /\ q \in Blocks
        /\ \A a \in DOMAIN heap : a # last => g[a] = heap[a]
    BY <1>1, <1>2, <1>4, <2>1
  <2>3. g = [a \in DOMAIN g |-> g[a]]
    BY <2>1, <2>2
  <2> HIDE DEF g, q
  <2>4. /\ g[last].size = q.size /\ g[last].next = block /\ g[last].prev = q.prev
        /\ g[last].is_free = q.is_free /\ g[last] \in Blocks
    BY <1>6, <2>2 DEF Blocks
  <2>5. /\ g[block].size = size /\ g[block].next = NULL /\ g[block].prev = last
        /\ g[block].is_free = TRUE /\ g[block] \in Blocks
    BY <1>1, <1>4, <2>2 DEF Blocks, NULL
  <2>6. /\ g \in [DOMAIN g -> Blocks]
        /\ \A a \in DOMAIN heap :
             /\ g[a].size = heap[a].size /\ g[a].prev = heap[a].prev
             /\ g[a].is_free = heap[a].is_free
             /\ a # last => g[a].next = heap[a].next
    BY <1>1, <2>2, <2>3, <2>4, <2>5, ZenonT(30) DEF q
  <2>7. BlockOK(g, end, block)
    <3>1. Aligned(block) /\ KHEAP_START <= block /\ block # KHEAP_START
      BY <1>1, <1>4, <1>6, HeapSizes DEF block, BlockOK
    <3>2. last # NULL /\ last \in DOMAIN g
      BY <1>1, <1>4, <2>2 DEF NULL
    <3>3. block + size = end
      OBVIOUS
    <3> HIDE DEF end
    <3>4. Aligned(g[block].size) /\ KHEAP_MIN_BLOCK <= g[block].size
      BY <2>5
    <3>5. block + g[block].size <= end
      BY <1>6, <2>5, <3>3
    <3> QED BY <2>2, <2>4, <2>5, <3>1, <3>2, <3>3, <3>4, <3>5 DEF BlockOK
  <2>8. ASSUME NEW a \in DOMAIN heap PROVE BlockOK(g, end, a)
    <3>1. BlockOK(heap, block, a) /\ a + heap[a].size <= end
      BY <1>1, <1>6 DEF BlockOK
    <3>2. heap[a].prev # NULL => heap[a].prev \in DOMAIN g /\ g[heap[a].prev].next = a
      <4> SUFFICES ASSUME heap[a].prev # NULL
                   PROVE  heap[a].prev \in DOMAIN g /\ g[heap[a].prev].next = a
        OBVIOUS
      <4>1. heap[a].prev \in DOMAIN heap /\ heap[heap[a].prev].next = a /\ a # NULL
        BY <1>1, <3>1 DEF BlockOK, NULL
      <4>2. heap[a].prev # last
        BY <1>4, <4>1
      <4> QED BY <2>2, <2>6, <4>1, <4>2
    <3>3. CASE a = last
      <4>1. g[a].next = block /\ block = a + heap[a].size /\ block # NULL /\ block \in DOMAIN g
        BY <1>4, <1>6, <2>2, <2>4, <3>3
      <4> HIDE DEF end
      <4> QED BY <2>5, <2>6, <3>1, <3>2, <3>3, <4>1 DEF BlockOK
    <3>4. CASE a # last
      <4>1. heap[a].next # NULL /\ g[a].next = heap[a].next
        BY <1>4, <2>6, <3>4
      <4>2. heap[a].next \in DOMAIN heap
        BY <3>1, <4>1 DEF BlockOK
      <4> HIDE DEF end
      <4> QED BY <2>2, <2>6, <3>1, <3>2, <4>1, <4>2 DEF BlockOK
    <3> QED BY <3>3, <3>4
  <2>9. \A a, c \in DOMAIN g : a < c => a + g[a].size <= c
    <3> SUFFICES ASSUME NEW a \in DOMAIN g, NEW c \in DOMAIN g, a < c
                 PROVE  a + g[a].size <= c
      OBVIOUS
    <3>1. a \in DOMAIN heap
      BY <1>1, <1>6, <2>2 DEF block
    <3>2. CASE c = block
      BY <1>1, <2>6, <3>1, <3>2 DEF BlockOK, block
    <3>3. CASE c # block
      <4>1. c \in DOMAIN heap
        BY <2>2, <3>3
      <4> QED BY <2>6, <3>1, <4>1 DEF Linked
    <3> QED BY <3>2, <3>3
  <2>10. Linked(g, end)
    <3>1. KHEAP_START \in DOMAIN g /\ \E a \in DOMAIN g : g[a].next = NULL
      BY <2>2, <2>5 DEF Linked
    <3>2. \A a \in DOMAIN g : BlockOK(g, end, a)
      BY <2>2, <2>7, <2>8
    <3> QED BY <2>6, <2>9, <3>1, <3>2 DEF Linked
  <2>11. Coalesced(g)
    <3> SUFFICES ASSUME NEW a \in DOMAIN g, g[a].next # NULL
                 PROVE  ~g[a].is_free \/ ~g[g[a].next].is_free
      BY DEF Coalesced
    <3>1. a \in DOMAIN heap
      BY <2>2, <2>5
    <3>2. CASE a = last
      BY <1>8, <2>6, <3>1, <3>2
    <3>3. CASE a # last
      <4>1. heap[a].next # NULL /\ g[a].next = heap[a].next
        BY <1>4, <2>6, <3>1, <3>3
      <4>2. heap[a].next \in DOMAIN heap
        BY <1>1, <3>1, <4>1 DEF BlockOK
      <4>3. ~heap[a].is_free \/ ~heap[heap[a].next].is_free
        BY <3>1, <4>1 DEF Coalesced
      <4> QED BY <2>6, <3>1, <4>1, <4>2, <4>3
    <3> QED BY <3>2, <3>3
  <2> QED BY <2>2, <2>5, <2>6, <2>10, <2>11 DEF g, block, Grown
<1> QED BY <1>7, <1>8

(***************************************************************************)
(* The steps of the heap.  The list is right as long as no request wraps   *)
(* around 2^32 on its way through kmalloc and kheap_extend.                *)
(***************************************************************************)
SmallRequests == \A s \in Sizes : s + HEADER + KHEAP_ALIGN + PMM_PAGE_SIZE <= U32

(* kheap_align rounds up to the alignment.                                 *)
LEMMA AlignUp ==
  ASSUME NEW n \in Nat, n + KHEAP_ALIGN <= U32
  PROVE  Aligned(kheap_align(n)) /\ n <= kheap_align(n) /\ kheap_align(n) < n + KHEAP_ALIGN
<1> DEFINE m == n + KHEAP_ALIGN - 1
           r == m % KHEAP_ALIGN
           q == m \div KHEAP_ALIGN
<1>1. KHEAP_ALIGN \in Nat \ {0} /\ U32 \in Nat \ {0}
  BY KHeapSizes, PmmSizes
<1>2. m \in Nat /\ m < U32
  BY <1>1
<1>3. kheap_align(n) = m - r
  BY <1>1, <1>2 DEF kheap_align
<1>4. m = n + KHEAP_ALIGN - 1
  OBVIOUS
<1> HIDE DEF m
<1>5. q \in Nat /\ m = KHEAP_ALIGN * q + r /\ r \in Nat /\ r < KHEAP_ALIGN
  BY <1>1, <1>2, DivMod, DivBounds
<1> HIDE DEF q, r
<1>6. m - r = q * KHEAP_ALIGN /\ n <= m - r /\ m - r < n + KHEAP_ALIGN /\ m - r \in Nat
  <2>1. KHEAP_ALIGN * q \in Nat
    BY <1>1, <1>5
  <2> QED BY <1>1, <1>2, <1>4, <1>5, <2>1
<1>7. (q * KHEAP_ALIGN) % KHEAP_ALIGN = 0
  BY <1>1, <1>5, Multiple
<1> QED BY <1>3, <1>6, <1>7 DEF Aligned

(* A small request needs at least a page's part and at least one page.     *)
LEMMA PagesNeeded ==
  ASSUME NEW n \in Nat, KHEAP_MIN_BLOCK <= n, n + P <= U32
  PROVE  PageCount(n) > 0
<1> DEFINE grow == KHEAP_GROW_PAGES * PMM_PAGE_SIZE
           need == IF n < grow THEN grow ELSE n
           m == need + P - 1
<1>1. KHEAP_GROW_PAGES \in Nat /\ P \in Nat \ {0} /\ U32 \in Nat \ {0}
  BY KHeapSizes, PmmSizes DEF P
<1>2. grow \in Nat /\ grow + P < U32
  <2>1. grow <= KHEAP_MAX_BYTES /\ KHEAP_START + KHEAP_MAX_BYTES < U32
    BY KHeapSizes
  <2>2. grow \in Nat
    BY <1>1 DEF P
  <2> HIDE DEF grow
  <2> QED BY <1>1, <2>1, <2>2, HeapSizes
<1> HIDE DEF grow
<1>3. need \in Nat /\ 0 < need /\ need + P <= U32
  BY <1>1, <1>2, BlockSizes
<1> HIDE DEF need
<1>4. m \in Nat /\ P <= m /\ m % U32 = m
  BY <1>1, <1>3
<1>5. PageCount(n) = (m % U32) \div P
  BY DEF PageCount, need, grow, P
<1> HIDE DEF m
<1>6. 1 * P <= m
  BY <1>1, <1>4
<1>7. 1 <= m \div P /\ m \div P \in Nat
  BY <1>1, <1>4, <1>6, DivUpper, DivBounds
<1> QED BY <1>4, <1>5, <1>7

(* What every step that returns from a call establishes.                   *)
LEMMA ReturnKeeps == ASSUME call' = Idle PROVE NeedInv' /\ ScanInv'
BY DEF Idle, NeedInv, ScanInv, Working

(* The list and the pointers of a step that leaves them alone.             *)
LEMMA ListSame ==
  ASSUME ListInv, LiveInv, UNCHANGED <<heap, kheap, live>>
  PROVE  ListInv' /\ LiveInv'
<1>1. heap' = heap /\ kheap' = kheap /\ live' = live
  OBVIOUS
<1> QED BY <1>1 DEF ListInv, LiveInv, Linked, BlockOK, Coalesced

(* Stuttering, and the steps of pmm_init.                                  *)
LEMMA ListStutter ==
  ASSUME HeapListInv, UNCHANGED <<heap, kheap, call, live>>
  PROVE  HeapListInv'
<1>1. heap' = heap /\ kheap' = kheap /\ live' = live /\ call' = call
  OBVIOUS
<1>2. ListInv' /\ LiveInv'
  BY <1>1, ListSame DEF HeapListInv
<1>3. NeedInv' /\ ScanInv'
  BY <1>1 DEF HeapListInv, NeedInv, ScanInv, Working, NoneFits, Fits
<1> QED BY <1>2, <1>3 DEF HeapListInv

(* kheap_init finds no block yet.                                          *)
LEMMA InitList ==
  ASSUME HeapListInv, kheap_init
  PROVE  HeapListInv'
<1>1. /\ kheap.first = NULL /\ DOMAIN heap = {} /\ kheap.end = KHEAP_START
  BY DEF kheap_init, HeapListInv, ScanInv, ListInv
<1>2. /\ heap' = heap /\ live' = live /\ kheap'.first = NULL /\ kheap'.end = KHEAP_START
  BY DEF kheap_init
<1>3. /\ call'.pc = "extend" /\ call'.needed = PMM_PAGE_SIZE /\ call'.size = 0
  BY DEF kheap_init, Idle
<1>4. ListInv'
  BY <1>1, <1>2 DEF ListInv
<1>5. LiveInv'
  BY <1>2 DEF HeapListInv, LiveInv
<1>6. NeedInv'
  <2>1. /\ PMM_PAGE_SIZE \in Nat /\ Aligned(PMM_PAGE_SIZE) /\ HEADER <= PMM_PAGE_SIZE
        /\ KHEAP_MIN_BLOCK <= PMM_PAGE_SIZE /\ HEADER \in Nat
    BY BlockSizes, HeapSizes DEF P
  <2>2. PMM_PAGE_SIZE + PMM_PAGE_SIZE <= U32
    BY HeapSizes DEF P
  <2> QED BY <1>3, <2>1, <2>2 DEF NeedInv
<1>7. ScanInv'
  BY <1>1, <1>2, <1>3 DEF ScanInv, NoneFits
<1> QED BY <1>4, <1>5, <1>6, <1>7 DEF HeapListInv

(* A scan that starts at the first block has passed over none.             *)
LEMMA ScanStarts ==
  ASSUME ListInv, NEW b \in DOMAIN heap, kheap.end \in Nat
  PROVE  kheap.first # NULL /\ kheap.first = KHEAP_START /\ KHEAP_START <= b
         /\ KHEAP_START \in DOMAIN heap
<1>1. kheap.first # NULL
  BY DEF ListInv
<1>2. Linked(heap, kheap.end) /\ kheap.first = KHEAP_START
  BY <1>1 DEF ListInv
<1> QED BY <1>1, <1>2 DEF Linked, BlockOK

(* kmalloc computes what it needs and starts the scan.                     *)
LEMMA KmallocList ==
  ASSUME HeapPagesInv, HeapListInv, NEW size \in Nat, kmalloc(size),
         size + HEADER + KHEAP_ALIGN + PMM_PAGE_SIZE <= U32
  PROVE  HeapListInv'
<1>1. UNCHANGED <<heap, kheap, live>> /\ heap' = heap /\ kheap' = kheap
  BY DEF kmalloc
<1>2. CASE call' = call
  BY <1>1, <1>2, ListStutter
<1>3. CASE call' # call
  <2> DEFINE n == kheap_align((size + HEADER) % U32)
             room == IF n < KHEAP_MIN_BLOCK THEN KHEAP_MIN_BLOCK ELSE n
  <2>1. /\ size \in Nat /\ HEADER \in Nat /\ KHEAP_ALIGN \in Nat \ {0} /\ U32 \in Nat \ {0}
        /\ size + HEADER + KHEAP_ALIGN + P <= U32 /\ P \in Nat \ {0}
    BY KHeapSizes, PmmSizes DEF P
  <2>2. (size + HEADER) % U32 = size + HEADER
    BY <2>1
  <2>3. Aligned(n) /\ size + HEADER <= n /\ n < size + HEADER + KHEAP_ALIGN
    BY <2>1, <2>2, AlignUp
  <2>4. n \in Nat
    BY <2>3 DEF Aligned
  <2>5. call' = [Idle EXCEPT !.pc = "scan", !.op = "kmalloc", !.size = size,
                             !.cur = kheap.first, !.needed = room]
    BY <1>3 DEF kmalloc
  <2> HIDE DEF n
  <2>6. /\ Aligned(room) /\ KHEAP_MIN_BLOCK <= room /\ size + HEADER <= room
        /\ room + P <= U32 /\ room \in Nat
    BY <2>1, <2>3, <2>4, BlockSizes, HeapSizes
  <2> HIDE DEF room
  <2>7. /\ call'.pc = "scan" /\ call'.needed = room /\ call'.size = size
        /\ call'.cur = kheap.first
    BY <2>5 DEF Idle
  <2>8. NeedInv'
    BY <2>1, <2>6, <2>7 DEF NeedInv, P
  <2>9. ListInv /\ kheap.end \in Nat
    BY DEF HeapListInv, HeapPagesInv, Extent, OnPage
  <2>10. kheap.first \in DOMAIN heap \cup {NULL}
    BY <2>9 DEF ListInv, Linked
  <2>11. \A b \in DOMAIN heap : kheap.first # NULL /\ kheap.first <= b
    BY <2>9, ScanStarts
  <2>12. ScanInv'
    BY <1>1, <2>7, <2>10, <2>11 DEF ScanInv
  <2> QED BY <1>1, <2>8, <2>12, ListSame DEF HeapListInv
<1> QED BY <1>2, <1>3

(* The scan takes the first block that fits.                               *)
LEMMA FoundList ==
  ASSUME HeapPagesInv, HeapListInv, kmalloc_found
  PROVE  /\ HeapListInv' /\ live' # live
<1> DEFINE cur == call.cur
           needed == call.needed
           ptr == cur + HEADER
<1>1. /\ call.pc = "scan" /\ cur # NULL /\ heap[cur].is_free /\ heap[cur].size >= needed
      /\ heap' = kheap_split(heap, cur, needed) /\ kheap' = kheap /\ call' = Idle
      /\ live' = [p \in DOMAIN live \cup {ptr} |-> IF p = ptr THEN call.size ELSE live[p]]
  BY DEF kmalloc_found, Fits
<1>2. cur \in DOMAIN heap /\ kheap.end \in Nat /\ kheap.end <= HeapEnd
  BY <1>1 DEF HeapListInv, ScanInv, HeapPagesInv, Extent, OnPage
<1>3. /\ kheap.first # NULL /\ kheap.first = KHEAP_START
      /\ Linked(heap, kheap.end) /\ Coalesced(heap)
  BY <1>2 DEF HeapListInv, ListInv
<1>4. /\ Aligned(needed) /\ needed \in Nat /\ KHEAP_MIN_BLOCK <= needed
      /\ call.size \in Nat /\ call.size + HEADER <= needed
  BY <1>1 DEF HeapListInv, NeedInv, Working, Aligned
<1>5. /\ cur \in Nat \ {0} /\ heap[cur].size \in Nat /\ cur + heap[cur].size <= kheap.end
      /\ KHEAP_START <= cur
  BY <1>2, <1>3, BlockFacts DEF BlockOK
<1>6. needed <= heap[cur].size
  BY <1>1, <1>4, <1>5
<1>7. needed + KHEAP_MIN_BLOCK < U32
  BY <1>2, <1>4, <1>5, <1>6, HeapSizes, BlockSizes
<1> HIDE DEF cur, needed
<1>8. Divided(heap, kheap.end, cur, needed, heap')
  BY <1>1, <1>2, <1>3, <1>4, <1>6, <1>7, SplitKeeps
<1>9. ListInv'
  BY <1>1, <1>3, <1>8 DEF Divided, ListInv
<1>10. HEADER \in Nat \ {0}
  BY BlockSizes
<1>11. /\ \A b \in DOMAIN heap : ~heap[b].is_free => b + HEADER \in DOMAIN live
       /\ \A p \in DOMAIN live :
            /\ p \in Nat /\ HEADER <= p /\ p - HEADER \in DOMAIN heap
            /\ ~heap[p - HEADER].is_free
            /\ live[p] \in Nat /\ HEADER + live[p] <= heap[p - HEADER].size
  BY DEF HeapListInv, LiveInv
<1>12. ptr - HEADER = cur /\ ptr \in Nat /\ HEADER <= ptr
  BY <1>5, <1>10
<1> HIDE DEF ptr
<1>13. ptr \notin DOMAIN live
  BY <1>1, <1>11, <1>12
<1>14. LiveInv'
  <2>1. /\ DOMAIN heap \subseteq DOMAIN heap'
        /\ ~heap'[cur].is_free /\ needed <= heap'[cur].size
        /\ \A a \in DOMAIN heap : a # cur => /\ heap'[a].size = heap[a].size
                                             /\ heap'[a].is_free = heap[a].is_free
        /\ \A a \in DOMAIN heap' \ DOMAIN heap : heap'[a].is_free
        /\ \A a \in DOMAIN heap' : heap'[a].size \in Nat
    <3>1. \A a \in DOMAIN heap' : heap'[a].size \in Nat
      BY <1>2, <1>8, BlockFacts DEF Divided
    <3> QED BY <1>8, <3>1 DEF Divided
  <2>2. DOMAIN live' = DOMAIN live \cup {ptr} /\ live'[ptr] = call.size
        /\ \A p \in DOMAIN live : live'[p] = live[p]
    BY <1>1, <1>13
  <2>3. ASSUME NEW b \in DOMAIN heap', ~heap'[b].is_free PROVE b + HEADER \in DOMAIN live'
    <3>1. b \in DOMAIN heap
      BY <2>1, <2>3
    <3>2. CASE b = cur
      BY <2>2, <3>2 DEF ptr
    <3>3. CASE b # cur
      BY <1>11, <2>1, <2>2, <2>3, <3>1, <3>3
    <3> QED BY <3>2, <3>3
  <2>4. ASSUME NEW p \in DOMAIN live'
        PROVE  /\ p \in Nat /\ HEADER <= p /\ p - HEADER \in DOMAIN heap'
               /\ ~heap'[p - HEADER].is_free
               /\ live'[p] \in Nat /\ HEADER + live'[p] <= heap'[p - HEADER].size
    <3>1. CASE p = ptr
      <4>1. cur \in DOMAIN heap' /\ heap'[cur].size \in Nat
        BY <1>2, <2>1
      <4>2. HEADER + call.size <= heap'[cur].size
        BY <1>4, <1>10, <2>1, <4>1
      <4> QED BY <1>4, <1>12, <2>1, <2>2, <3>1, <4>1, <4>2
    <3>2. CASE p # ptr
      <4>1. p \in DOMAIN live /\ p - HEADER # cur /\ live'[p] = live[p]
        BY <1>1, <1>11, <2>2, <3>2
      <4>2. p - HEADER \in DOMAIN heap
        BY <1>11, <4>1
      <4> QED BY <1>11, <2>1, <4>1, <4>2
    <3> QED BY <3>1, <3>2
  <2> QED BY <2>3, <2>4 DEF LiveInv
<1>15. live' # live
  BY <1>1, <1>13
<1> QED BY <1>1, <1>9, <1>14, <1>15, ReturnKeeps DEF HeapListInv

(* The scan passes over a block that does not fit.                         *)
LEMMA ScanList ==
  ASSUME HeapPagesInv, HeapListInv, kmalloc_scan
  PROVE  HeapListInv'
<1>1. /\ call.pc = "scan" /\ UNCHANGED <<heap, kheap, live>> /\ heap' = heap
      /\ kheap' = kheap
  BY DEF kmalloc_scan
<1>2. /\ DOMAIN call = {"pc", "op", "size", "needed", "cur", "map_at", "pages", "frame"}
      /\ call.needed \in Nat /\ kheap.end \in Nat
  BY DEF HeapPagesInv, CallType, Extent, OnPage
<1>3. ListInv' /\ LiveInv'
  BY <1>1, ListSame DEF HeapListInv
<1>4. \A b \in DOMAIN heap : heap[b].size \in Nat /\ heap[b].is_free \in BOOLEAN
                             /\ b \in Nat
  <2> SUFFICES ASSUME NEW b \in DOMAIN heap
               PROVE  heap[b].size \in Nat /\ heap[b].is_free \in BOOLEAN /\ b \in Nat
    OBVIOUS
  <2>1. Linked(heap, kheap.end)
    BY DEF HeapListInv, ListInv
  <2> QED BY <1>2, <2>1, BlockFacts
<1>5. CASE call.cur = NULL
  <2>1. call' = [call EXCEPT !.pc = "extend"]
    BY <1>5 DEF kmalloc_scan
  <2>2. call'.pc = "extend" /\ call'.needed = call.needed /\ call'.size = call.size
    BY <1>2, <2>1
  <2>3. NeedInv'
    BY <1>1, <2>2 DEF HeapListInv, NeedInv, Working
  <2>4. NoneFits'
    BY <1>1, <1>2, <1>4, <1>5, <2>2 DEF HeapListInv, ScanInv, NoneFits, Fits
  <2> QED BY <1>3, <2>2, <2>3, <2>4 DEF HeapListInv, ScanInv
<1>6. CASE call.cur # NULL
  <2> DEFINE cur == call.cur
             next == heap[cur].next
  <2>1. call' = [call EXCEPT !.cur = next] /\ ~Fits(cur, call.needed)
    BY <1>6 DEF kmalloc_scan
  <2>2. cur \in DOMAIN heap
        /\ \A b \in DOMAIN heap : Fits(b, call.needed) => cur <= b
    BY <1>1, <1>6 DEF HeapListInv, ScanInv
  <2>3. Linked(heap, kheap.end)
    BY <2>2 DEF HeapListInv, ListInv
  <2>4. /\ cur \in Nat /\ heap[cur].size \in Nat
        /\ next = NULL => cur + heap[cur].size = kheap.end
        /\ next # NULL => next = cur + heap[cur].size /\ next \in DOMAIN heap
    BY <1>2, <2>2, <2>3, BlockFacts DEF BlockOK
  <2> HIDE DEF cur, next
  <2>5. call'.pc = "scan" /\ call'.needed = call.needed /\ call'.size = call.size
        /\ call'.cur = next
    BY <1>1, <1>2, <2>1
  <2>6. ASSUME NEW b \in DOMAIN heap, Fits(b, call.needed)
        PROVE  next # NULL /\ next <= b
    <3>1. cur < b
      BY <1>4, <2>1, <2>2, <2>4, <2>6
    <3>2. cur + heap[cur].size <= b
      BY <2>2, <2>3, <3>1 DEF Linked
    <3>3. b < kheap.end
      BY <1>2, <2>3, BlockFacts
    <3> QED BY <1>2, <1>4, <2>4, <3>2, <3>3
  <2>7. NeedInv'
    BY <1>1, <2>5 DEF HeapListInv, NeedInv, Working
  <2>8. ScanInv'
    BY <1>1, <2>4, <2>5, <2>6 DEF ScanInv, Fits
  <2> QED BY <1>3, <2>7, <2>8 DEF HeapListInv
<1> QED BY <1>5, <1>6

(* A step inside kheap_extend: what is needed is still needed, and no      *)
(* block fits.                                                             *)
LEMMA GrowingList ==
  ASSUME HeapListInv, UNCHANGED <<heap, kheap, live>>,
         call.pc \in {"extend", "page", "map"}, call'.pc \in {"page", "map"},
         call'.needed = call.needed, call'.size = call.size,
         call'.pc = "page" => call'.pages > 0 \/ kheap.end < call'.map_at
  PROVE  HeapListInv'
<1>1. heap' = heap /\ kheap' = kheap
  OBVIOUS
<1>2. NeedInv' /\ NoneFits'
  BY <1>1 DEF HeapListInv, NeedInv, Working, ScanInv, NoneFits
<1>3. ScanInv'
  BY <1>1, <1>2 DEF ScanInv
<1> QED BY <1>2, <1>3, ListSame DEF HeapListInv

(* The steps that leave kheap_extend with false.                           *)
LEMMA FailedList ==
  ASSUME HeapListInv, UNCHANGED <<heap, kheap, live>>, call' = Idle
  PROVE  HeapListInv'
BY ListSame, ReturnKeeps DEF HeapListInv

(* kheap_extend up to the point where its pages are mapped.                *)
LEMMA ExtendList ==
  ASSUME HeapPagesInv, HeapListInv,
         \/ kheap_extend
         \/ kheap_extend_limit
         \/ kheap_extend_frame
         \/ kheap_extend_map
         \/ kheap_extend_map_fails
  PROVE  /\ HeapListInv' /\ UNCHANGED <<heap, kheap, live>>
         /\ call.pc \in {"extend", "page", "map"}
<1>1. /\ DOMAIN call = {"pc", "op", "size", "needed", "cur", "map_at", "pages", "frame"}
      /\ call.map_at \in Nat /\ call.pages \in Nat /\ kheap.end \in Nat
  BY DEF HeapPagesInv, CallType, Extent, OnPage
<1>2. CASE kheap_extend
  <2>1. UNCHANGED <<heap, kheap, live>> /\ call.pc = "extend"
    BY <1>2 DEF kheap_extend
  <2>2. CASE call' = Idle
    BY <2>1, <2>2, FailedList
  <2>3. CASE call' # Idle
    <3>1. call' = [call EXCEPT !.pc = "page", !.map_at = ExtendFrom,
                               !.pages = PageCount(call.needed)]
      BY <1>2, <2>3 DEF kheap_extend, kheap_extend_fails
    <3>2. call'.pc = "page" /\ call'.needed = call.needed /\ call'.size = call.size
          /\ call'.pages = PageCount(call.needed)
      BY <1>1, <3>1
    <3>3. call.needed \in Nat /\ KHEAP_MIN_BLOCK <= call.needed /\ call.needed + P <= U32
      BY <2>1 DEF HeapListInv, NeedInv, Working, Aligned, P
    <3>4. PageCount(call.needed) > 0
      BY <3>3, PagesNeeded
    <3> QED BY <2>1, <3>2, <3>4, GrowingList
  <2> QED BY <2>2, <2>3
<1>3. CASE kheap_extend_limit
  BY <1>3, FailedList DEF kheap_extend_limit, kheap_extend_fails
<1>4. CASE kheap_extend_frame
  <2>1. UNCHANGED <<heap, kheap, live>> /\ call.pc = "page"
    BY <1>4 DEF kheap_extend_frame
  <2>2. CASE call' = Idle
    BY <2>1, <2>2, FailedList
  <2>3. CASE call' # Idle
    <3>1. call' = [call EXCEPT !.pc = "map", !.frame = pmm_alloc_frame(pmm).addr]
      BY <1>4, <2>3 DEF kheap_extend_frame, kheap_extend_fails
    <3>2. call'.pc = "map" /\ call'.needed = call.needed /\ call'.size = call.size
      BY <1>1, <3>1
    <3> QED BY <2>1, <3>2, GrowingList
  <2> QED BY <2>2, <2>3
<1>5. CASE kheap_extend_map
  <2>1. /\ UNCHANGED <<heap, kheap, live>> /\ call.pc = "map"
        /\ call' = [call EXCEPT !.pc = "page", !.map_at = @ + PMM_PAGE_SIZE,
                                !.pages = @ - 1]
    BY <1>5 DEF kheap_extend_map
  <2>2. call'.pc = "page" /\ call'.needed = call.needed /\ call'.size = call.size
        /\ call'.map_at = call.map_at + P
    BY <1>1, <2>1 DEF P
  <2>3. kheap.end < call.map_at + P
    BY <1>1, <2>1, HeapSizes DEF HeapPagesInv, GrowInv, Growing
  <2> QED BY <2>1, <2>2, <2>3, GrowingList
<1>6. CASE kheap_extend_map_fails
  BY <1>6, FailedList DEF kheap_extend_map_fails, map_failed, kheap_extend_fails
<1> QED BY <1>2, <1>3, <1>4, <1>5, <1>6

(* The heap's first block.                                                 *)
LEMMA FirstBlock ==
  ASSUME kheap.first = NULL, kheap.end = KHEAP_START, DOMAIN heap = {},
         NEW size \in Nat, Aligned(size), KHEAP_MIN_BLOCK <= size
  PROVE  Grown(heap, kheap.end + size, Append_block(heap, size))
<1> DEFINE block == KHEAP_START
           g == Append_block(heap, size)
           new == [size |-> size, is_free |-> TRUE, next |-> NULL, prev |-> NULL]
<1>1. g = [a \in {block} |-> new]
  BY DEF Append_block
<1>2. block \in Nat \ {0} /\ Aligned(block)
  BY HeapSizes, BlockSizes
<1> HIDE DEF g, block
<1>3. DOMAIN g = {block} /\ g[block] = new /\ g = [a \in DOMAIN g |-> g[a]]
  BY <1>1
<1>4. /\ g[block].size = size /\ g[block].is_free = TRUE /\ g[block].next = NULL
      /\ g[block].prev = NULL /\ new \in Blocks
  BY <1>3 DEF Blocks, NULL
<1> HIDE DEF new
<1>5. BlockOK(g, block + size, block)
  <2>1. block + size <= block + size
    BY <1>2
  <2>2. KHEAP_START <= block /\ block = KHEAP_START
    BY <1>2 DEF block
  <2> QED BY <1>2, <1>4, <2>1, <2>2 DEF BlockOK
<1>6. g \in [DOMAIN g -> Blocks]
  BY <1>3, <1>4
<1>7. \A a, c \in DOMAIN g : a < c => a + g[a].size <= c
  BY <1>2, <1>3
<1>8. Linked(g, block + size)
  BY <1>3, <1>4, <1>5, <1>6, <1>7 DEF Linked, block
<1>9. Coalesced(g)
  BY <1>3, <1>4 DEF Coalesced
<1>10. kheap.end = block
  BY DEF block
<1> QED BY <1>3, <1>4, <1>8, <1>9, <1>10 DEF Grown, g

(* kheap_extend gives its pages to the list; the page it writes the header *)
(* to is mapped.                                                           *)
LEMMA LinkList ==
  ASSUME HeapPagesInv, HeapListInv, kheap_extend_link
  PROVE  /\ HeapListInv' /\ (call'.pc = "idle" => call.op = "kheap_init")
<1> DEFINE size == call.map_at - kheap.end
<1>1. call.pc = "page" /\ call.pages = 0 /\ live' = live
  BY DEF kheap_extend_link
<1>2. /\ OnPage(call.map_at) /\ OnPage(kheap.end) /\ KHEAP_START <= kheap.end
      /\ call.map_at \in Nat /\ kheap.end \in Nat
      /\ DOMAIN call = {"pc", "op", "size", "needed", "cur", "map_at", "pages", "frame"}
  BY <1>1 DEF HeapPagesInv, GrowInv, Growing, Extent, OnPage, CallType
<1>3. kheap.end < call.map_at
  BY <1>1 DEF HeapListInv, ScanInv
<1>4. /\ size \in Nat /\ Aligned(size) /\ KHEAP_MIN_BLOCK <= size
      /\ Aligned(kheap.end) /\ kheap.end + size = call.map_at
  <2>1. Aligned(kheap.end) /\ Aligned(call.map_at)
    BY <1>2, AlignedPages
  <2>2. Aligned(size)
    BY <1>2, <1>3, <2>1, AlignedSum
  <2>3. kheap.end + P <= call.map_at
    BY <1>2, <1>3, HeapSizes, MultipleGap DEF OnPage
  <2> QED BY <1>2, <1>3, <2>1, <2>2, <2>3, HeapSizes, BlockSizes
<1>5. space[page_of(kheap.end)] # NotMapped
  <2>1. page_of(kheap.end) < page_of(call.map_at)
    BY <1>2, <1>3, HeapSizes, MultipleGap DEF OnPage, page_of, P
  <2>2. page_of(KHEAP_START) <= page_of(kheap.end) /\ page_of(KHEAP_START) \in Nat
        /\ page_of(kheap.end) \in Nat /\ page_of(call.map_at) \in Nat
    BY <1>2, HeapSizes, PagesBelow
  <2>3. Backed(call.map_at)
    BY <1>1 DEF HeapPagesInv, Top, Growing
  <2>4. space[page_of(kheap.end)] \in held
    BY <2>1, <2>2, <2>3 DEF Backed
  <2>5. held \subseteq Frames
    BY DEF HeapPagesInv, SpaceInv, HeldOwned
  <2> QED BY <2>4, <2>5, ClientInSpace
<1>6. /\ heap' = Append_block(heap, size)
      /\ kheap' = [end |-> call.map_at,
                   first |-> IF kheap.first = NULL THEN kheap.end ELSE kheap.first]
      /\ call' = IF call.op = "kheap_init" THEN Idle
                 ELSE [call EXCEPT !.pc = "scan", !.cur = kheap'.first]
  BY <1>5 DEF kheap_extend_link
<1> HIDE DEF size
<1>7. Grown(heap, call.map_at, heap')
  <2>1. CASE kheap.first = NULL
    <3>1. kheap.end = KHEAP_START /\ DOMAIN heap = {}
      BY <2>1 DEF HeapListInv, ListInv
    <3> QED BY <1>4, <1>6, <2>1, <3>1, FirstBlock
  <2>2. CASE kheap.first # NULL
    <3>1. Linked(heap, kheap.end) /\ Coalesced(heap)
      BY <2>2 DEF HeapListInv, ListInv
    <3> QED BY <1>2, <1>4, <1>6, <2>2, <3>1, AppendKeeps
  <2> QED BY <2>1, <2>2
<1>8. kheap'.end = call.map_at /\ kheap'.first = KHEAP_START /\ KHEAP_START # NULL
  BY <1>6, HeapSizes DEF HeapListInv, ListInv, NULL
<1>9. ListInv'
  BY <1>7, <1>8 DEF Grown, ListInv
<1>10. LiveInv'
  <2>1. /\ DOMAIN heap \subseteq DOMAIN heap'
        /\ \A a \in DOMAIN heap : /\ heap'[a].is_free = heap[a].is_free
                                  /\ ~heap[a].is_free => heap'[a].size = heap[a].size
        /\ \A a \in DOMAIN heap' \ DOMAIN heap : heap'[a].is_free
    BY <1>7 DEF Grown
  <2>2. \A b \in DOMAIN heap' : ~heap'[b].is_free => b + HEADER \in DOMAIN live'
    BY <1>1, <2>1 DEF HeapListInv, LiveInv
  <2>3. ASSUME NEW p \in DOMAIN live'
        PROVE  /\ p \in Nat /\ HEADER <= p /\ p - HEADER \in DOMAIN heap'
               /\ ~heap'[p - HEADER].is_free
               /\ live'[p] \in Nat /\ HEADER + live'[p] <= heap'[p - HEADER].size
    <3>1. /\ p \in Nat /\ HEADER <= p /\ p - HEADER \in DOMAIN heap
          /\ ~heap[p - HEADER].is_free
          /\ live[p] \in Nat /\ HEADER + live[p] <= heap[p - HEADER].size
      BY <1>1 DEF HeapListInv, LiveInv
    <3> QED BY <1>1, <2>1, <3>1
  <2> QED BY <2>2, <2>3 DEF LiveInv
<1>11. CASE call.op = "kheap_init"
  BY <1>6, <1>9, <1>10, <1>11, ReturnKeeps DEF HeapListInv
<1>12. CASE call.op # "kheap_init"
  <2>1. call' = [call EXCEPT !.pc = "scan", !.cur = kheap'.first]
    BY <1>6, <1>12
  <2>2. call'.pc = "scan" /\ call'.needed = call.needed /\ call'.size = call.size
        /\ call'.cur = kheap'.first
    BY <1>2, <2>1
  <2>3. NeedInv'
    BY <1>1, <2>2 DEF HeapListInv, NeedInv, Working
  <2>4. KHEAP_START \in DOMAIN heap' /\ \A b \in DOMAIN heap' : KHEAP_START <= b
    BY <1>7 DEF Grown, Linked, BlockOK
  <2>5. ScanInv'
    BY <1>8, <2>2, <2>4 DEF ScanInv
  <2> QED BY <1>9, <1>10, <2>2, <2>3, <2>5 DEF HeapListInv
<1> QED BY <1>11, <1>12

(* kfree gives a block back, and the list has no two free neighbours again.*)
LEMMA KfreeList ==
  ASSUME HeapPagesInv, HeapListInv, NEW ptr \in DOMAIN live \cup {NULL}, kfree(ptr)
  PROVE  HeapListInv'
<1>1. /\ call.pc = "idle" /\ kheap' = kheap /\ call' = call
      /\ live' = [p \in DOMAIN live \ {ptr} |-> live[p]]
  BY DEF kfree
<1>2. NeedInv' /\ ScanInv'
  BY <1>1 DEF NeedInv, ScanInv, Working
<1>3. HEADER \in Nat \ {0} /\ kheap.end \in Nat
  BY BlockSizes DEF HeapPagesInv, Extent, OnPage
<1>4. /\ \A b \in DOMAIN heap : ~heap[b].is_free => b + HEADER \in DOMAIN live
      /\ \A p \in DOMAIN live :
           /\ p \in Nat /\ HEADER <= p /\ p - HEADER \in DOMAIN heap
           /\ ~heap[p - HEADER].is_free
           /\ live[p] \in Nat /\ HEADER + live[p] <= heap[p - HEADER].size
  BY DEF HeapListInv, LiveInv
<1>5. DOMAIN live' = DOMAIN live \ {ptr} /\ \A p \in DOMAIN live' : live'[p] = live[p]
  BY <1>1
<1>6. CASE ptr = NULL
  <2>1. heap' = heap
    BY <1>6 DEF kfree
  <2>2. NULL \notin DOMAIN live
    BY <1>3, <1>4 DEF NULL
  <2>3. DOMAIN live' = DOMAIN live
    BY <1>5, <1>6, <2>2
  <2>4. LiveInv'
    BY <1>4, <1>5, <2>1, <2>3 DEF LiveInv
  <2>5. ListInv'
    BY <1>1, <2>1 DEF HeapListInv, ListInv
  <2> QED BY <1>2, <2>4, <2>5 DEF HeapListInv
<1>7. CASE ptr # NULL
  <2> DEFINE b == ptr - HEADER
             v == TRUE
             h == Mark(heap, b, v)
  <2>1. heap' = kheap_coalesce(h, b)
    BY <1>7 DEF kfree, Mark
  <2>2. b \in DOMAIN heap /\ ptr \in DOMAIN live /\ ptr = b + HEADER /\ b \in Nat
    BY <1>3, <1>4, <1>7
  <2>3. v \in BOOLEAN
    OBVIOUS
  <2>4. /\ kheap.first # NULL /\ kheap.first = KHEAP_START
        /\ Linked(heap, kheap.end) /\ Coalesced(heap)
    BY <2>2 DEF HeapListInv, ListInv
  <2> HIDE DEF b, v
  <2>5. Marked(heap, kheap.end, b, v, h)
    BY <1>3, <2>2, <2>3, <2>4, MarkKeeps
  <2> HIDE DEF h
  <2>6. /\ Linked(h, kheap.end) /\ DOMAIN h = DOMAIN heap /\ h[b].is_free
        /\ \A a \in DOMAIN heap : /\ h[a].size = heap[a].size /\ h[a].next = heap[a].next
                                  /\ a # b => h[a].is_free = heap[a].is_free
    BY <2>5 DEF Marked, v
  <2>7. ASSUME NEW a \in DOMAIN h, a # b, h[a].next # NULL, h[a].next # b
        PROVE  ~BothFree(h, a)
    <3>1. heap[a].next = h[a].next /\ heap[a].next \in DOMAIN heap
      BY <1>3, <2>4, <2>6, <2>7, NextFacts
    <3>2. ~heap[a].is_free \/ ~heap[heap[a].next].is_free
      BY <2>4, <2>6, <2>7, <3>1 DEF Coalesced
    <3> QED BY <2>6, <2>7, <3>1, <3>2 DEF BothFree
  <2>8. ASSUME h[b].next # NULL, h[h[b].next].is_free, h[h[b].next].next # NULL
        PROVE  ~h[h[h[b].next].next].is_free
    <3> DEFINE n == h[b].next
               m == h[n].next
    <3>1. n \in DOMAIN h /\ n # b /\ b < n
      BY <1>3, <2>2, <2>6, <2>8, NextFacts
    <3>2. m \in DOMAIN h /\ m # b
      BY <1>3, <2>2, <2>6, <2>8, <3>1, NextFacts
    <3>3. heap[n].is_free /\ heap[n].next = m /\ m # NULL
      BY <2>6, <2>8, <3>1
    <3>4. ~heap[m].is_free
      BY <2>4, <2>6, <3>1, <3>3 DEF Coalesced
    <3> QED BY <2>6, <3>2, <3>4
  <2>9. Joined(h, kheap.end, heap')
    BY <1>3, <2>1, <2>2, <2>6, <2>7, <2>8, CoalesceKeeps
  <2>10. ListInv'
    BY <1>1, <2>4, <2>9 DEF Joined, ListInv
  <2>11. /\ \A a \in DOMAIN heap' : a \in DOMAIN h /\ heap'[a].is_free = h[a].is_free
         /\ \A a \in DOMAIN h : ~h[a].is_free =>
              a \in DOMAIN heap' /\ heap'[a].size = h[a].size
    BY <2>9 DEF Joined
  <2>12. \A a \in DOMAIN heap : a \in Nat
    BY <1>3, <2>4, BlockFacts
  <2>13. ASSUME NEW a \in DOMAIN heap', ~heap'[a].is_free
         PROVE  a + HEADER \in DOMAIN live'
    <3>1. a \in DOMAIN heap /\ ~h[a].is_free /\ a # b
      BY <2>6, <2>11, <2>13
    <3>2. a + HEADER \in DOMAIN live
      BY <1>4, <2>6, <3>1
    <3>3. a + HEADER # ptr
      BY <1>3, <2>2, <2>12, <3>1
    <3> QED BY <1>5, <3>2, <3>3
  <2>14. ASSUME NEW p \in DOMAIN live'
         PROVE  /\ p \in Nat /\ HEADER <= p /\ p - HEADER \in DOMAIN heap'
                /\ ~heap'[p - HEADER].is_free
                /\ live'[p] \in Nat /\ HEADER + live'[p] <= heap'[p - HEADER].size
    <3>1. /\ p \in DOMAIN live /\ p # ptr /\ live'[p] = live[p]
      BY <1>5
    <3>2. /\ p \in Nat /\ HEADER <= p /\ p - HEADER \in DOMAIN heap
          /\ ~heap[p - HEADER].is_free
          /\ live[p] \in Nat /\ HEADER + live[p] <= heap[p - HEADER].size
      BY <1>4, <3>1
    <3>3. p - HEADER # b
      BY <1>3, <2>2, <3>1, <3>2
    <3>4. ~h[p - HEADER].is_free /\ h[p - HEADER].size = heap[p - HEADER].size
      BY <2>6, <3>2, <3>3
    <3> QED BY <2>6, <2>11, <3>1, <3>2, <3>4
  <2>15. LiveInv'
    BY <2>13, <2>14 DEF LiveInv
  <2> QED BY <1>2, <2>10, <2>15 DEF HeapListInv
<1> QED BY <1>6, <1>7

(* The heap before kheap_init has no block.                                *)
LEMMA HeapListInit == KHeapInit => HeapListInv
<1> SUFFICES ASSUME KHeapInit PROVE HeapListInv
  OBVIOUS
<1>1. DOMAIN heap = {} /\ DOMAIN live = {} /\ kheap.first = NULL
      /\ kheap.end = KHEAP_START /\ call.pc = "boot"
  BY DEF KHeapInit, Idle
<1> QED BY <1>1 DEF HeapListInv, ListInv, LiveInv, NeedInv, Working, ScanInv

(* A step of a call in progress keeps the list.                            *)
LEMMA CallList ==
  ASSUME HeapPagesInv, HeapListInv, CallStep PROVE HeapListInv'
BY InitList, FoundList, ScanList, ExtendList, LinkList DEF CallStep

(* One step of the specification keeps the list.                           *)
LEMMA HeapListStep ==
  ASSUME SmallRequests, HeapPagesInv, HeapListInv, [KHeapNext]_kheapVars
  PROVE  HeapListInv'
<1>1. CASE KHeapBoot
  BY <1>1, ListStutter DEF KHeapBoot
<1>2. CASE CallStep
  BY <1>2, CallList
<1>3. CASE \E size \in Sizes : kmalloc(size)
  BY <1>3, KmallocList, KHeapSizes DEF SmallRequests
<1>4. CASE \E ptr \in DOMAIN live \cup {NULL} : kfree(ptr)
  BY <1>4, KfreeList
<1>5. CASE UNCHANGED kheapVars
  BY <1>5, ListStutter DEF kheapVars
<1> QED BY <1>1, <1>2, <1>3, <1>4, <1>5 DEF KHeapNext

(* The list of blocks is right after every sequence of kmalloc and kfree,  *)
(* extensions that fail half way included, for a heap of any size.         *)
THEOREM HeapListInvariant ==
  ASSUME SmallRequests
  PROVE  KHeapSpec => []HeapListInv
<1>1. HeapPagesInv /\ HeapListInv /\ [KHeapNext]_kheapVars => HeapListInv'
  BY HeapListStep
<1> QED BY <1>1, HeapListInit, HeapPagesInvariant, PTL DEF KHeapSpec

(* What the invariant of the list says of the blocks.                      *)
LEMMA ListInvTiles ==
  ASSUME HeapPagesInv, HeapListInv PROVE ListTilesHeap
<1>1. ListInv /\ kheap.end \in Nat
  BY DEF HeapListInv, HeapPagesInv, Extent, OnPage
<1>2. CASE kheap.first = NULL
  BY <1>1, <1>2 DEF ListInv, ListTilesHeap
<1>3. CASE kheap.first # NULL
  <2>1. kheap.first = KHEAP_START /\ Linked(heap, kheap.end) /\ Coalesced(heap)
    BY <1>1, <1>3 DEF ListInv
  <2>2. KHEAP_START \in DOMAIN heap
    BY <2>1 DEF Linked
  <2>3. ASSUME NEW b \in DOMAIN heap
        PROVE  /\ heap[b].size >= KHEAP_MIN_BLOCK
               /\ b % KHEAP_ALIGN = 0
               /\ (heap[b].prev = NULL) = (b = KHEAP_START)
               /\ heap[b].next = NULL => b + heap[b].size = kheap.end
               /\ heap[b].next # NULL => /\ heap[b].next = b + heap[b].size
                                         /\ b + heap[b].size \in DOMAIN heap
                                         /\ heap[b + heap[b].size].prev = b
                                         /\ ~(heap[b].is_free
                                              /\ heap[b + heap[b].size].is_free)
               /\ \A c \in DOMAIN heap : b < c => b + heap[b].size <= c
    <3>1. BlockOK(heap, kheap.end, b) /\ heap[b].size \in Nat
      BY <1>1, <2>1, BlockFacts
    <3>2. heap[b].size >= KHEAP_MIN_BLOCK /\ b % KHEAP_ALIGN = 0
      BY <3>1, BlockSizes DEF BlockOK, Aligned
    <3>3. \A c \in DOMAIN heap : b < c => b + heap[b].size <= c
      BY <2>1 DEF Linked
    <3>4. heap[b].next # NULL => ~(heap[b].is_free /\ heap[heap[b].next].is_free)
      BY <2>1 DEF Coalesced
    <3> QED BY <3>1, <3>2, <3>3, <3>4 DEF BlockOK
  <2>4. DOMAIN heap # {}
    BY <2>2
  <2> QED BY <1>3, <2>1, <2>2, <2>3, <2>4 DEF ListTilesHeap
<1> QED BY <1>2, <1>3

(* The list tiles the heap: no gap, no overlap, no dangling link, no two   *)
(* free neighbours.                                                        *)
THEOREM HeapTiled ==
  ASSUME SmallRequests
  PROVE  KHeapSpec => []ListTilesHeap
<1>1. HeapPagesInv /\ HeapListInv => ListTilesHeap
  BY ListInvTiles
<1> QED BY <1>1, HeapListInvariant, HeapPagesInvariant, PTL

(* And of the pointers handed out.                                         *)
LEMMA ListInvFits ==
  ASSUME HeapPagesInv, HeapListInv PROVE LiveBlocksFit
<1>1. LiveInv /\ HEADER \in Nat /\ kheap.end \in Nat
  BY BlockSizes DEF HeapListInv, HeapPagesInv, Extent, OnPage
<1>2. \A b \in DOMAIN heap : b \in Nat /\ heap[b].size \in Nat
  <2> SUFFICES ASSUME NEW b \in DOMAIN heap PROVE b \in Nat /\ heap[b].size \in Nat
    OBVIOUS
  <2>1. Linked(heap, kheap.end)
    BY DEF HeapListInv, ListInv
  <2> QED BY <1>1, <2>1, BlockFacts
<1>3. ASSUME NEW p \in DOMAIN live
      PROVE  /\ p \in {b + HEADER : b \in {c \in DOMAIN heap : ~heap[c].is_free}}
             /\ p + live[p] <= (p - HEADER) + heap[p - HEADER].size
  <2>1. /\ p \in Nat /\ HEADER <= p /\ p - HEADER \in DOMAIN heap
        /\ ~heap[p - HEADER].is_free
        /\ live[p] \in Nat /\ HEADER + live[p] <= heap[p - HEADER].size
    BY <1>1 DEF LiveInv
  <2>2. p = (p - HEADER) + HEADER
    BY <1>1, <2>1
  <2>3. p + live[p] <= (p - HEADER) + heap[p - HEADER].size
    BY <1>1, <1>2, <2>1
  <2> QED BY <2>1, <2>2, <2>3
<1>4. {b + HEADER : b \in {c \in DOMAIN heap : ~heap[c].is_free}} \subseteq DOMAIN live
  BY <1>1 DEF LiveInv
<1> QED BY <1>3, <1>4 DEF LiveBlocksFit

(* Every pointer handed out owns a used block that is large enough.        *)
THEOREM HeapLiveFits ==
  ASSUME SmallRequests
  PROVE  KHeapSpec => []LiveBlocksFit
<1>1. HeapPagesInv /\ HeapListInv => LiveBlocksFit
  BY ListInvFits
<1> QED BY <1>1, HeapListInvariant, HeapPagesInvariant, PTL

(* And of the ranges of all of them.                                       *)
LEMMA ListInvTyped ==
  ASSUME HeapPagesInv, HeapListInv PROVE KHeapTypeOK
<1>1. /\ kheap.end \in Nat /\ kheap.end <= HeapEnd /\ KHEAP_START <= kheap.end
      /\ kheap = [end |-> kheap.end, first |-> kheap.first] /\ call.pc \in Pcs
  BY DEF HeapPagesInv, Extent, OnPage, CallType
<1>2. KHEAP_START \in Nat \ {0} /\ HEADER \in Nat \ {0} /\ KHEAP_MAX_BYTES \in Nat
      /\ HeapEnd = KHEAP_START + KHEAP_MAX_BYTES
  BY HeapSizes, BlockSizes DEF HeapEnd
<1>3. HeapAddrs = KHEAP_START .. HeapEnd
  BY DEF HeapAddrs, HeapEnd
<1>4. ASSUME NEW b \in DOMAIN heap
      PROVE  /\ b \in HeapAddrs /\ b + heap[b].size <= HeapEnd
             /\ heap[b] \in [size : 1 .. KHEAP_MAX_BYTES, is_free : BOOLEAN,
                             next : HeapAddrs \cup {NULL}, prev : HeapAddrs \cup {NULL}]
  <2>1. Linked(heap, kheap.end)
    BY DEF HeapListInv, ListInv
  <2>2. /\ heap[b] \in Blocks /\ b \in Nat \ {0} /\ heap[b].size \in Nat \ {0}
        /\ heap[b].is_free \in BOOLEAN /\ BlockOK(heap, kheap.end, b)
    BY <1>1, <2>1, BlockFacts
  <2>3. b + heap[b].size <= kheap.end /\ KHEAP_START <= b
    BY <2>2 DEF BlockOK
  <2>4. heap[b].size \in 1 .. KHEAP_MAX_BYTES /\ b \in HeapAddrs
    BY <1>1, <1>2, <1>3, <2>2, <2>3
  <2>5. \A a \in DOMAIN heap : a \in Nat /\ KHEAP_START <= a /\ a < kheap.end
    BY <1>1, <2>1, BlockFacts DEF BlockOK
  <2>6. DOMAIN heap \subseteq HeapAddrs
    BY <1>1, <1>2, <1>3, <2>5
  <2>7. heap[b].next \in HeapAddrs \cup {NULL} /\ heap[b].prev \in HeapAddrs \cup {NULL}
    BY <2>2, <2>6 DEF BlockOK
  <2>8. b + heap[b].size <= HeapEnd
    BY <1>1, <1>2, <2>2, <2>3
  <2> QED BY <2>2, <2>4, <2>7, <2>8 DEF Blocks
<1>5. ASSUME NEW p \in DOMAIN live PROVE p \in HeapAddrs
  <2>1. /\ p \in Nat /\ HEADER <= p /\ p - HEADER \in DOMAIN heap
        /\ live[p] \in Nat /\ HEADER + live[p] <= heap[p - HEADER].size
    BY DEF HeapListInv, LiveInv
  <2>2. p - HEADER \in HeapAddrs /\ (p - HEADER) + heap[p - HEADER].size <= HeapEnd
        /\ heap[p - HEADER].size \in Nat
    BY <1>4, <2>1
  <2> QED BY <1>2, <1>3, <2>1, <2>2
<1>6. kheap \in [end : HeapAddrs, first : {NULL, KHEAP_START}]
  <2>1. kheap.end \in HeapAddrs /\ kheap.first \in {NULL, KHEAP_START}
    BY <1>1, <1>2, <1>3 DEF HeapListInv, ListInv
  <2>2. kheap = [end |-> kheap.end, first |-> kheap.first]
    BY <1>1
  <2> QED BY <2>1, <2>2
<1> QED BY <1>1, <1>4, <1>5, <1>6 DEF KHeapTypeOK

(* Every header, link and pointer lies in the heap's range of addresses.   *)
THEOREM HeapTyped ==
  ASSUME SmallRequests
  PROVE  KHeapSpec => []KHeapTypeOK
<1>1. HeapPagesInv /\ HeapListInv => KHeapTypeOK
  BY ListInvTyped
<1> QED BY <1>1, HeapListInvariant, HeapPagesInvariant, PTL

(* A call that ends without a new pointer found no block.                  *)
LEMMA CallAnswers ==
  ASSUME HeapPagesInv, HeapListInv, CallStep, call.op = "kmalloc",
         call'.pc = "idle", live' = live
  PROVE  NoneFits
<1>1. CASE kheap_init
  BY <1>1 DEF kheap_init, Idle
<1>2. CASE kmalloc_found
  BY <1>2, FoundList
<1>3. CASE kmalloc_scan
  <2>1. call'.pc \in {"scan", "extend"}
    BY <1>3 DEF kmalloc_scan, HeapPagesInv, CallType
  <2> QED BY <2>1
<1>4. CASE kheap_extend_link
  BY <1>4, LinkList
<1>5. CASE \/ kheap_extend \/ kheap_extend_limit \/ kheap_extend_frame
           \/ kheap_extend_map \/ kheap_extend_map_fails
  <2>1. call.pc \in {"extend", "page", "map"}
    BY <1>5, ExtendList
  <2> QED BY <2>1 DEF HeapListInv, ScanInv
<1> QED BY <1>1, <1>2, <1>3, <1>4, <1>5 DEF CallStep

(* kmalloc answers NULL only when no free block is large enough.           *)
THEOREM HeapNullNoFit ==
  ASSUME SmallRequests
  PROVE  KHeapSpec => NullMeansNoFit
<1> DEFINE Answer ==
             call.op = "kmalloc" /\ call.pc # "idle" /\ call'.pc = "idle" /\ live' = live
               => \A b \in DOMAIN heap : heap[b].is_free => heap[b].size < call.needed
<1>1. HeapPagesInv /\ HeapListInv /\ [KHeapNext]_kheapVars => [Answer]_kheapVars
  <2> SUFFICES ASSUME HeapPagesInv, HeapListInv, KHeapNext, call.op = "kmalloc",
                      call.pc # "idle", call'.pc = "idle", live' = live
               PROVE  NoneFits
    BY DEF NoneFits
  <2>1. CASE KHeapBoot
    BY <2>1 DEF KHeapBoot
  <2>2. CASE \E size \in Sizes : kmalloc(size)
    BY <2>2 DEF kmalloc
  <2>3. CASE \E ptr \in DOMAIN live \cup {NULL} : kfree(ptr)
    BY <2>3 DEF kfree
  <2>4. CASE CallStep
    BY <2>4, CallAnswers
  <2> QED BY <2>1, <2>2, <2>3, <2>4 DEF KHeapNext
<1> QED BY <1>1, HeapListInvariant, HeapPagesInvariant, PTL DEF KHeapSpec, NullMeansNoFit
=============================================================================
