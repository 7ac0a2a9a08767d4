---------------------------- MODULE PagingProofs ----------------------------
(***************************************************************************)
(* Theorems about the page tables of Paging, for every page size, size of  *)
(* a table, kernel layout, memory map and set of client pages, whatever    *)
(* the client stores and whatever the processor has cached.                *)
(***************************************************************************)
EXTENDS Paging, PmmProofs

(***************************************************************************)
(* The inductive invariant.                                                *)
(***************************************************************************)
Entries == Frames \cup {NotMapped}
NewIndex == Index \ {KERNEL_PDE, REC}

(* The boot table stays at the higher half; the recursive slot is empty or *)
(* the directory itself.                                                   *)
BootEntries == mem[PD][KERNEL_PDE] = PT1 /\ mem[PD][REC] \in {NotMapped, PD}

(* A table paging_map_page has made is owned by nobody but paging.c, and   *)
(* exists only once the recursive slot does.                               *)
NewTables ==
  \A i \in NewIndex : mem[PD][i] # NotMapped =>
    /\ owners[mem[PD][i]] # 0
    /\ mem[PD][i] \notin held
    /\ mem[PD][REC] = PD

NewTablesDiffer ==
  \A i, j \in NewIndex : i # j /\ mem[PD][i] # NotMapped => mem[PD][i] # mem[PD][j]

(* What the client holds it owns, and what is owned is held or a table.    *)
HeldOwned == \A f \in held : owners[f] # 0
OwnedKnown ==
  \A f \in Frames : owners[f] # 0 => f \in held \/ \E i \in NewIndex : mem[PD][i] = f

(* The call in progress has the table it needs.  While that table is not   *)
(* cleared no page under it was ever written, and once the entry is stored *)
(* the tables give it.                                                     *)
CallInv ==
  ~Idle =>
    /\ call.v \in ClientPages
    /\ call.entry \in held \cup {NotMapped}
    /\ init.step = "ready" /\ mem[PD][REC] = PD
    /\ mem[PD][pde_idx(call.v)] # NotMapped
    /\ call.pc = "memset" => \A v \in edited : pde_idx(v) # pde_idx(call.v)
    /\ call.pc = "invlpg" => Walk(mem, call.v) = call.entry

(* The page that was written and is still to be invalidated.               *)
Pending(v) == call.pc = "invlpg" /\ v = call.v

(* But for the words of a table not yet cleared, a client's page maps a    *)
(* frame the client holds, and none if no call has written its entry.      *)
ClientMaps ==
  \A v \in ClientPages : ~Uncleared(v) =>
    /\ Walk(mem, v) \in held \cup {NotMapped}
    /\ v \in edited \/ Pending(v) \/ Walk(mem, v) = NotMapped

(* A page whose entry was written has its table, and what the processor    *)
(* has cached of it is the client's, if not up to date then pending.       *)
EditedMaps ==
  \A v \in edited :
    /\ mem[PD][pde_idx(v)] # NotMapped
    /\ tlb[v] \in held \cup {NotMapped}
    /\ Coherent(v) \/ Pending(v)

WindowCoherent == \A w \in CpuPages \ ClientPages : Coherent(w)

PagingInv ==
  /\ PmmInv
  /\ PagingTypeOK
  /\ BootEntries
  /\ NewTables
  /\ NewTablesDiffer
  /\ HeldOwned
  /\ OwnedKnown
  /\ CallInv
  /\ ClientMaps
  /\ EditedMaps
  /\ WindowCoherent

(***************************************************************************)
(* Geometry.                                                               *)
(***************************************************************************)
(* Sizes, in the form the proofs use them.                                 *)
LEMMA Geometry ==
  /\ ENTRIES \in Nat /\ ENTRIES > 2 /\ REC \in Index /\ KERNEL_PDE \in Index
  /\ KERNEL_PDE # REC /\ NotMapped \notin Frames /\ Frames \subseteq Nat
<1>1. ENTRIES \in Nat /\ ENTRIES > 2 /\ KERNEL_PDE \in 1 .. REC - 1
  BY PagingSizes
<1>2. REC = ENTRIES - 1 /\ Index = 0 .. ENTRIES - 1
  BY DEF REC, Index
<1> HIDE DEF REC, KERNEL_PDE, Index
<1>3. REC \in Index /\ KERNEL_PDE \in Index /\ KERNEL_PDE # REC
  BY <1>1, <1>2
<1> QED BY <1>1, <1>3 DEF NotMapped, Frames

(* A page is its two indices.                                              *)
LEMMA PageIndex ==
  ASSUME NEW v \in Pages
  PROVE  /\ pde_idx(v) \in Index /\ pte_idx(v) \in Index
         /\ v = ENTRIES * pde_idx(v) + pte_idx(v)
<1> DEFINE e == ENTRIES
           q == v \div e
           r == v % e
<1>1. e \in Nat \ {0} /\ v \in Nat /\ v < e * e
  <2>1. e \in Nat /\ e > 2
    BY Geometry
  <2> HIDE DEF e
  <2>2. e * e \in Nat /\ v \in 0 .. e * e - 1
    BY <2>1 DEF Pages, e
  <2> QED BY <2>1, <2>2
<1> HIDE DEF e
<1>2. r \in 0 .. e - 1 /\ v = e * q + r
  BY <1>1, DivMod
<1>3. q \in Nat /\ q * e <= v
  BY <1>1, DivBounds
<1>4. q < e
  <2> HIDE DEF q
  <2>1. CASE e <= q
    <3>1. e * e <= q * e
      BY <1>1, <1>3, <2>1
    <3> QED BY <1>1, <1>3, <3>1
  <2> QED BY <1>1, <1>3, <2>1
<1>5. q \in 0 .. e - 1
  BY <1>1, <1>3, <1>4
<1>6. pde_idx(v) = q /\ pte_idx(v) = r
  BY DEF pde_idx, pte_idx, e
<1> HIDE DEF q, r
<1> QED BY <1>2, <1>5, <1>6 DEF Index, e

(* Two different pages differ in an index.                                 *)
LEMMA PageInjective ==
  ASSUME NEW v \in Pages, NEW w \in Pages, pde_idx(v) = pde_idx(w), pte_idx(v) = pte_idx(w)
  PROVE  v = w
BY PageIndex

(* The pages of the recursive window.                                      *)
LEMMA RecPage ==
  ASSUME NEW i \in Index
  PROVE  LET w == REC * ENTRIES + i
         IN  w \in Pages /\ pde_idx(w) = REC /\ pte_idx(w) = i
<1> DEFINE e == ENTRIES
           c == REC
           w == c * e + i
<1>1. e \in Nat \ {0} /\ c \in Nat /\ c + 1 = e /\ i \in Nat /\ i < e
  BY Geometry DEF REC, Index
<1> HIDE DEF c, e
<1>2. c * e \in Nat /\ (c + 1) * e = c * e + e /\ (c + 1) * e = e * e
  BY <1>1
<1>3. w \in Nat /\ c * e <= w /\ w < (c + 1) * e /\ w < e * e
  BY <1>1, <1>2
<1>4. w \div e \in Nat /\ c <= w \div e /\ w \div e <= c
  BY <1>1, <1>3, DivUpper, DivLower, DivBounds
<1>5. w \div e = c
  BY <1>1, <1>4
<1>6. w = e * (w \div e) + (w % e) /\ w % e \in 0 .. e - 1
  BY <1>1, <1>3, DivMod
<1>7. w % e = i
  <2> DEFINE r == w % e
  <2>1. w = e * c + r /\ r \in Nat
    BY <1>1, <1>5, <1>6
  <2> HIDE DEF r
  <2>2. c * e = e * c
    BY <1>1
  <2> DEFINE k == e * c
  <2>3. k \in Nat /\ k + i = k + r
    BY <1>1, <1>2, <2>1, <2>2
  <2> HIDE DEF k
  <2>4. r = i
    BY <1>1, <2>1, <2>3
  <2> QED BY <2>4 DEF r
<1>8. w \in Pages
  <2>1. e * e \in Nat
    BY <1>1
  <2> HIDE DEF w
  <2> QED BY <1>3, <2>1 DEF Pages, e
<1> QED BY <1>5, <1>7, <1>8 DEF pde_idx, pte_idx, c, e

(* The boot tables are two frames that pmm_init reserves.                  *)
LEMMA BootFrames ==
  /\ PD \in Frames /\ PT1 \in Frames /\ PD # PT1
  /\ PD \in ReservedFrames /\ PT1 \in ReservedFrames
<1> DEFINE P == PMM_PAGE_SIZE
           a == virt_to_phys(Symbol["boot_page_directory"])
           b == virt_to_phys(Symbol["boot_page_table1"])
           d == a \div P
<1>1. a \in Nat /\ b = a + P /\ P \in Nat \ {0}
  BY PmmSizes, PmmSymbols, BootTables DEF virt_to_phys
<1>2. PD = a \div P /\ PT1 = b \div P /\ PT1 < ENTRIES - 1
  BY BootTables DEF PD, PT1, addr_to_frame
<1>3. pmm_reserve_region(a, b + P) \subseteq ReservedFrames
  BY DEF ReservedFrames
<1> HIDE DEF P, a, b
<1>4. d \in Nat /\ d * P <= a /\ a < (d + 1) * P
  BY <1>1, DivBounds
<1> HIDE DEF d
<1>5. b \in Nat /\ (d + 1) * P <= b /\ b < ((d + 1) + 1) * P
  BY <1>1, <1>4
<1>6. b \div P \in Nat /\ d + 1 <= b \div P /\ b \div P <= d + 1
  BY <1>1, <1>4, <1>5, DivUpper, DivLower, DivBounds
<1>7. PD = d /\ PT1 = d + 1
  BY <1>2, <1>4, <1>6 DEF d
<1>8. PD \in Frames /\ PT1 \in Frames
  BY <1>2, <1>4, <1>7, PagingSizes, PmmSizes DEF Frames
<1>9. pmm_reserve_region(a, b + P) = a \div P .. (b + P + P - 1) \div P
  BY <1>1 DEF pmm_reserve_region, addr_to_frame, P
<1>10. d + 1 <= (b + P + P - 1) \div P /\ (b + P + P - 1) \div P \in Nat
  <2> DEFINE z == b + P + P - 1
  <2>1. z \in Nat /\ (d + 1) * P <= z
    <3>1. (d + 1) * P \in Nat
      BY <1>1, <1>4
    <3> QED BY <1>1, <1>5, <3>1
  <2> HIDE DEF z
  <2>2. d + 1 <= z \div P /\ z \div P \in Nat
    BY <1>1, <1>4, <2>1, DivUpper, DivBounds
  <2> QED BY <2>2 DEF z
<1>11. d \in a \div P .. (b + P + P - 1) \div P /\ d + 1 \in a \div P .. (b + P + P - 1) \div P
  BY <1>2, <1>4, <1>7, <1>10
<1>12. d \in ReservedFrames /\ d + 1 \in ReservedFrames
  BY <1>3, <1>9, <1>11, Zenon
<1> QED BY <1>4, <1>7, <1>8, <1>12

(***************************************************************************)
(* What the invariant says of the tables.                                  *)
(***************************************************************************)
Tables == [Frames -> [Index -> Entries]]

(* The types, part by part.                                                *)
LEMMA PagingTypes ==
  ASSUME PagingTypeOK
  PROVE  /\ mem \in Tables /\ tlb \in [Pages -> Entries] /\ held \subseteq Frames
         /\ \A i \in Index : mem[PD][i] \in Entries
         /\ \A f \in Frames, i \in Index : mem[f][i] \in Entries
<1>1. mem \in Tables /\ tlb \in [Pages -> Entries] /\ held \subseteq Frames
  BY DEF PagingTypeOK, Tables, Entries
<1>2. \A f \in Frames, i \in Index : mem[f][i] \in Entries
  BY <1>1 DEF Tables
<1> QED BY <1>1, <1>2, BootFrames

(* A client's page lies under an entry of its own kind.                    *)
LEMMA ClientPage ==
  ASSUME NEW v \in ClientPages
  PROVE  /\ v \in Pages /\ v \in SpacePages
         /\ pde_idx(v) \in NewIndex /\ pte_idx(v) \in Index
<1>1. v \in SpacePages /\ pde_idx(v) # KERNEL_PDE
  BY PagingSizes
<1>2. v \in Pages /\ pde_idx(v) # REC
  BY <1>1 DEF SpacePages
<1> QED BY <1>1, <1>2, PageIndex DEF NewIndex

(* The pages the processor may cache: clients' pages and, in the recursive *)
(* window, the tables above them.                                          *)
LEMMA CpuPage ==
  ASSUME NEW w \in CpuPages
  PROVE  /\ w \in Pages
         /\ \/ w \in ClientPages
            \/ \E i \in NewIndex : w = REC * ENTRIES + i
<1>1. CASE w \in ClientPages
  BY <1>1, ClientPage
<1>2. CASE w \in {REC * ENTRIES + pde_idx(v) : v \in ClientPages}
  <2>1. PICK v \in ClientPages : w = REC * ENTRIES + pde_idx(v)
    BY <1>2
  <2>2. pde_idx(v) \in NewIndex /\ pde_idx(v) \in Index
    BY ClientPage DEF NewIndex
  <2>3. w \in Pages
    BY <2>1, <2>2, RecPage
  <2> QED BY <2>1, <2>2, <2>3
<1> QED BY <1>1, <1>2 DEF CpuPages

(* The page table above a client's page is in the window.                  *)
LEMMA WindowPage ==
  ASSUME NEW v \in ClientPages
  PROVE  LET w == REC * ENTRIES + pde_idx(v)
         IN  /\ w \in CpuPages \ ClientPages /\ w \in Pages
             /\ pde_idx(w) = REC /\ pte_idx(w) = pde_idx(v)
<1> DEFINE w == REC * ENTRIES + pde_idx(v)
<1>1. pde_idx(v) \in Index
  BY ClientPage DEF NewIndex
<1>2. w \in Pages /\ pde_idx(w) = REC /\ pte_idx(w) = pde_idx(v)
  BY <1>1, RecPage
<1>3. w \notin ClientPages
  BY <1>2, ClientPage DEF NewIndex
<1> QED BY <1>2, <1>3 DEF CpuPages

(* A walk through a present entry, through an empty one, and through the   *)
(* recursive slot.                                                         *)
LEMMA Walks ==
  ASSUME NEW m, NEW w
  PROVE  /\ m[PD][pde_idx(w)] # NotMapped => Walk(m, w) = m[m[PD][pde_idx(w)]][pte_idx(w)]
         /\ m[PD][pde_idx(w)] = NotMapped => Walk(m, w) = NotMapped
         /\ m[PD][REC] = PD => \A i \in Index : Walk(m, REC * ENTRIES + i) = m[PD][i]
         /\ m[PD][REC] = NotMapped => \A i \in Index : Walk(m, REC * ENTRIES + i) = NotMapped
<1>1. ASSUME NEW i \in Index
      PROVE  /\ m[PD][REC] = PD => Walk(m, REC * ENTRIES + i) = m[PD][i]
             /\ m[PD][REC] = NotMapped => Walk(m, REC * ENTRIES + i) = NotMapped
  <2>1. pde_idx(REC * ENTRIES + i) = REC /\ pte_idx(REC * ENTRIES + i) = i
    BY RecPage
  <2>2. PD # NotMapped
    BY BootFrames, Geometry
  <2> QED BY <2>1, <2>2 DEF Walk
<1> QED BY <1>1 DEF Walk

(* A walk ends at a frame or nowhere.                                      *)
LEMMA WalkType ==
  ASSUME PagingTypeOK, NEW w \in Pages
  PROVE  Walk(mem, w) \in Entries
<1>1. pde_idx(w) \in Index /\ pte_idx(w) \in Index
  BY PageIndex
<1>2. mem[PD][pde_idx(w)] \in Entries
  BY <1>1, PagingTypes
<1>3. CASE mem[PD][pde_idx(w)] = NotMapped
  BY <1>3, Walks DEF Entries
<1>4. CASE mem[PD][pde_idx(w)] # NotMapped
  <2>1. mem[PD][pde_idx(w)] \in Frames
    BY <1>2, <1>4 DEF Entries
  <2> QED BY <1>1, <1>4, <2>1, PagingTypes, Walks
<1> QED BY <1>3, <1>4

(* The tables are not the client's: an entry of the directory, if present, *)
(* is a frame the client does not hold, and different from every other.    *)
LEMMA TablesApart ==
  ASSUME PagingInv, NEW i \in Index, mem[PD][i] # NotMapped
  PROVE  /\ mem[PD][i] \in Frames /\ mem[PD][i] \notin held
         /\ \A j \in Index : i # j => mem[PD][i] # mem[PD][j]
         /\ i \in NewIndex => /\ mem[PD][i] \notin {PD, PT1} /\ owners[mem[PD][i]] # 0
                              /\ mem[PD][REC] = PD
         /\ i # REC => mem[PD][i] # PD
         /\ i \notin NewIndex => mem[PD][i] \in ReservedFrames
<1>1. mem[PD][i] \in Frames /\ held \subseteq Frames /\ PD # NotMapped /\ PT1 # NotMapped
  BY PagingTypes, BootFrames, Geometry DEF PagingInv, Entries
<1>2. \A f \in Frames : owners[f] # 0 => f \notin {PD, PT1} /\ f \notin ReservedFrames
  BY OwnedAddress, BootFrames DEF PagingInv
<1>3. ASSUME NEW k \in NewIndex, mem[PD][k] # NotMapped
      PROVE  /\ mem[PD][k] \notin {PD, PT1} /\ mem[PD][k] \notin held
             /\ owners[mem[PD][k]] # 0 /\ mem[PD][REC] = PD
  <2>1. mem[PD][k] \in Frames
    BY <1>3, PagingTypes DEF PagingInv, Entries, NewIndex
  <2> QED BY <1>2, <1>3, <2>1 DEF PagingInv, NewTables
<1>4. PD \notin held /\ PT1 \notin held
  BY <1>2, BootFrames DEF PagingInv, HeldOwned
<1>5. mem[PD][KERNEL_PDE] = PT1 /\ mem[PD][REC] \in {NotMapped, PD}
  BY DEF PagingInv, BootEntries
<1>6. CASE i \in NewIndex
  <2>1. ASSUME NEW j \in Index, i # j PROVE mem[PD][i] # mem[PD][j]
    <3>1. CASE j \in NewIndex
      BY <1>6, <2>1, <3>1 DEF PagingInv, NewTablesDiffer
    <3>2. CASE j \in {KERNEL_PDE, REC}
      BY <1>3, <1>5, <1>6, <3>2
    <3> QED BY <3>1, <3>2 DEF NewIndex
  <2> QED BY <1>1, <1>3, <1>6, <2>1
<1>7. CASE i \in {KERNEL_PDE, REC}
  <2>1. mem[PD][i] \in {PD, PT1}
    BY <1>5, <1>7
  <2>2. ASSUME NEW j \in Index, i # j PROVE mem[PD][i] # mem[PD][j]
    <3>1. CASE j \in NewIndex /\ mem[PD][j] # NotMapped
      BY <1>3, <2>1, <3>1
    <3>2. CASE j \in {KERNEL_PDE, REC}
      BY <1>1, <1>5, <1>7, <2>2, <3>2, BootFrames
    <3> QED BY <3>1, <3>2 DEF NewIndex
  <2>3. i # REC => mem[PD][i] # PD
    BY <1>5, <1>7, BootFrames
  <2>4. i \notin NewIndex
    BY <1>7 DEF NewIndex
  <2> QED BY <1>1, <1>4, <2>1, <2>2, <2>3, <2>4, BootFrames
<1> QED BY <1>6, <1>7 DEF NewIndex

(* The pointer page_table_virt makes reaches the table the directory       *)
(* names, whatever the TLB holds.                                          *)
LEMMA TableReached ==
  ASSUME PagingInv, mem[PD][REC] = PD, NEW v \in ClientPages,
         mem[PD][pde_idx(v)] # NotMapped
  PROVE  page_table_virt(mem, pde_idx(v)) = mem[PD][pde_idx(v)]
<1> DEFINE w == REC * ENTRIES + pde_idx(v)
<1>1. w \in CpuPages \ ClientPages /\ pde_idx(v) \in Index
  BY WindowPage, ClientPage DEF NewIndex
<1>2. Walk(mem, w) = mem[PD][pde_idx(v)]
  BY <1>1, Walks
<1>3. tlb[w] \in {NotMapped, Walk(mem, w)}
  BY <1>1 DEF PagingInv, WindowCoherent, Coherent
<1> QED BY <1>2, <1>3 DEF page_table_virt, Access

(* A write to a page table below the directory changes the walks under its *)
(* own entry and no other.                                                 *)
LEMMA TableWrite ==
  ASSUME PagingInv, NEW i \in NewIndex, mem[PD][i] # NotMapped,
         NEW g \in [Index -> Entries], mem' = [mem EXCEPT ![mem[PD][i]] = g]
  PROVE  /\ mem' \in Tables /\ mem'[PD] = mem[PD]
         /\ \A w \in Pages : Walk(mem', w) = IF pde_idx(w) = i THEN g[pte_idx(w)]
                                             ELSE Walk(mem, w)
<1> DEFINE t == mem[PD][i]
<1>1. i \in Index /\ i # REC
  BY DEF NewIndex
<1>2. t \in Frames \ {PD} /\ \A j \in Index : j # i => mem[PD][j] # t
  BY <1>1, TablesApart
<1>3. mem \in Tables /\ PD \in Frames
  BY PagingTypes, BootFrames DEF PagingInv
<1> HIDE DEF t
<1>4. mem' \in Tables /\ mem'[t] = g /\ \A f \in Frames \ {t} : mem'[f] = mem[f]
  BY <1>2, <1>3 DEF Tables, t
<1>5. mem'[PD] = mem[PD]
  BY <1>2, <1>3, <1>4
<1>6. ASSUME NEW w \in Pages
      PROVE  Walk(mem', w) = IF pde_idx(w) = i THEN g[pte_idx(w)] ELSE Walk(mem, w)
  <2>1. pde_idx(w) \in Index
    BY PageIndex
  <2>2. CASE pde_idx(w) = i
    BY <1>4, <1>5, <2>2 DEF Walk, t
  <2>3. CASE pde_idx(w) # i /\ mem[PD][pde_idx(w)] # NotMapped
    <3>1. mem[PD][pde_idx(w)] \in Frames \ {t}
      BY <1>2, <2>1, <2>3, TablesApart
    <3> QED BY <1>4, <1>5, <2>3, <3>1 DEF Walk
  <2>4. CASE pde_idx(w) # i /\ mem[PD][pde_idx(w)] = NotMapped
    BY <1>5, <2>4, Walks
  <2> QED BY <2>2, <2>3, <2>4
<1> QED BY <1>4, <1>5, <1>6

(***************************************************************************)
(* The steps.  Each lemma says that a step keeps the invariant and what it *)
(* does to what the pages map.                                             *)
(***************************************************************************)
SameDirectory == \A i \in Index : mem'[PD][i] = mem[PD][i]

SameMaps == \A w \in SpacePages : Maps(w)' = Maps(w)

(* The allocator's invariant is about its variables only.                  *)
LEMMA PmmStutters == PmmInv /\ UNCHANGED pmmVars => PmmInv'
BY DEF pmmVars, PmmInv, PmmTypeOK, EmptyBeforeSizing, UsedCountExact, Known,
   NoOwnerBeforeReady, ReservedMarked, OwnedMarked

(* What the invariant says of the directory is about the directory and who *)
(* has which frame.                                                        *)
LEMMA DirectorySame ==
  ASSUME PagingInv, mem'[PD] = mem[PD], held' = held, owners' = owners
  PROVE  BootEntries' /\ NewTables' /\ NewTablesDiffer' /\ HeldOwned' /\ OwnedKnown'
BY DEF PagingInv, BootEntries, NewTables, NewTablesDiffer, HeldOwned, OwnedKnown

(* The window's translations stay right while its walks do.                *)
LEMMA WindowSame ==
  ASSUME PagingInv, \A w \in CpuPages \ ClientPages :
                      tlb'[w] = tlb[w] /\ Walk(mem', w) = Walk(mem, w)
  PROVE  WindowCoherent'
BY DEF PagingInv, WindowCoherent, Coherent

(* A walk through the window ends as it did if the directory is the same.  *)
LEMMA WindowWalks ==
  ASSUME PagingInv, mem'[PD] = mem[PD], NEW w \in CpuPages \ ClientPages
  PROVE  Walk(mem', w) = Walk(mem, w)
<1>1. PICK i \in Index : w = REC * ENTRIES + i
  BY CpuPage DEF NewIndex
<1>2. mem[PD][REC] \in {NotMapped, PD}
  BY DEF PagingInv, BootEntries
<1>3. CASE mem[PD][REC] = PD
  <2>1. Walk(mem, w) = mem[PD][i]
    BY <1>1, <1>3, Walks
  <2>2. Walk(mem', w) = mem'[PD][i]
    BY <1>1, <1>3, Walks
  <2> QED BY <2>1, <2>2
<1>4. CASE mem[PD][REC] = NotMapped
  <2>1. Walk(mem, w) = NotMapped
    BY <1>1, <1>4, Walks
  <2>2. Walk(mem', w) = NotMapped
    BY <1>1, <1>4, Walks
  <2> QED BY <2>1, <2>2
<1> QED BY <1>2, <1>3, <1>4

(* The steps of pmm_init touch no table and give out no frame.             *)
LEMMA BootKeeps == PagingInv /\ PagingBoot => PagingInv'
<1> SUFFICES ASSUME PagingInv, PagingBoot PROVE PagingInv'
  OBVIOUS
<1>1. mem' = mem /\ tlb' = tlb /\ held' = held /\ call' = call /\ edited' = edited /\ PmmBoot
  BY DEF PagingBoot
<1>2. owners' = owners /\ init.step # "ready"
  BY <1>1 DEF PmmBoot, pmm_init_invalid, pmm_init_highest, pmm_init_size,
              pmm_init_region, pmm_init_reserve
<1>3. PmmInv'
  BY <1>1, InvalidPreserves, HighestPreserves, SizePreserves, RegionPreserves,
     ReservePreserves DEF PagingInv, PmmBoot
<1>4. Idle
  BY <1>2 DEF PagingInv, CallInv
<1>5. BootEntries' /\ NewTables' /\ NewTablesDiffer' /\ HeldOwned' /\ OwnedKnown'
  BY <1>1, <1>2, DirectorySame
<1>6. PagingTypeOK' /\ CallInv'
  BY <1>1, <1>4 DEF PagingInv, PagingTypeOK, CallInv, Idle
<1>7. ClientMaps' /\ EditedMaps' /\ WindowCoherent'
  BY <1>1 DEF PagingInv, ClientMaps, EditedMaps, WindowCoherent, Coherent, Pending,
     Uncleared, Walk
<1> QED BY <1>3, <1>5, <1>6, <1>7 DEF PagingInv

(* A step that changes nothing.                                            *)
LEMMA PagingStutters == PagingInv /\ UNCHANGED pagingVars => PagingInv'
<1> SUFFICES ASSUME PagingInv, UNCHANGED pagingVars PROVE PagingInv'
  OBVIOUS
<1>1. /\ UNCHANGED pmmVars /\ mem' = mem /\ tlb' = tlb /\ held' = held
      /\ call' = call /\ edited' = edited
  BY DEF pagingVars
<1>2. PmmInv'
  BY <1>1, PmmStutters DEF PagingInv
<1>3. BootEntries' /\ NewTables' /\ NewTablesDiffer' /\ HeldOwned' /\ OwnedKnown'
  BY <1>1, DirectorySame DEF pmmVars
<1>4. PagingTypeOK' /\ CallInv'
  BY <1>1 DEF PagingInv, PagingTypeOK, CallInv, Idle, Walk, pmmVars
<1>5. ClientMaps' /\ EditedMaps' /\ WindowCoherent'
  BY <1>1 DEF PagingInv, ClientMaps, EditedMaps, WindowCoherent, Coherent, Pending,
     Uncleared, Walk
<1> QED BY <1>2, <1>3, <1>4, <1>5 DEF PagingInv

(* Before paging_init there is no table but the boot table, so nothing is  *)
(* cached that the recursive slot could make wrong.                        *)
LEMMA InitKeeps ==
  ASSUME PagingInv, paging_init
  PROVE  /\ PagingInv' /\ SameMaps
         /\ \A i \in Index \ {REC} : mem'[PD][i] = mem[PD][i]
<1>1. /\ mem[PD][REC] = NotMapped /\ mem' = [mem EXCEPT ![PD][REC] = PD]
      /\ tlb' = tlb /\ held' = held /\ call' = call /\ edited' = edited
      /\ UNCHANGED pmmVars
  BY DEF paging_init
<1>2. mem \in Tables /\ PD \in Frames /\ PD # NotMapped /\ REC \in Index
      /\ KERNEL_PDE \in Index /\ KERNEL_PDE # REC
  BY PagingTypes, BootFrames, Geometry DEF PagingInv
<1>3. /\ mem'[PD][REC] = PD
      /\ \A i \in Index \ {REC} : mem'[PD][i] = mem[PD][i]
      /\ \A f \in Frames \ {PD} : mem'[f] = mem[f]
      /\ mem' \in Tables
  BY <1>1, <1>2 DEF Tables, Entries
<1>4. \A i \in NewIndex : mem[PD][i] = NotMapped /\ mem'[PD][i] = NotMapped
  BY <1>1, <1>2, <1>3 DEF PagingInv, NewTables, NewIndex
<1>5. ASSUME NEW w \in SpacePages PROVE Walk(mem', w) = Walk(mem, w)
  <2>1. pde_idx(w) \in Index \ {REC} /\ pte_idx(w) \in Index
    BY PageIndex DEF SpacePages
  <2>2. mem'[PD][pde_idx(w)] = mem[PD][pde_idx(w)]
    BY <1>3, <2>1
  <2>3. CASE mem[PD][pde_idx(w)] = NotMapped
    BY <2>2, <2>3, Walks
  <2>4. CASE mem[PD][pde_idx(w)] # NotMapped
    <3>1. mem[PD][pde_idx(w)] \in Frames \ {PD}
      BY <2>1, <2>4, TablesApart
    <3> QED BY <1>3, <2>2, <3>1 DEF Walk
  <2> QED BY <2>3, <2>4
<1>6. Idle /\ Idle' /\ SameMaps
  <2>1. Idle /\ Idle'
    BY <1>1, <1>2 DEF PagingInv, CallInv, Idle
  <2> QED BY <1>5, <2>1 DEF SameMaps, Maps, Uncleared, Idle
<1>7. edited = {}
  BY <1>4, ClientPage DEF PagingInv, EditedMaps, PagingTypeOK
<1>8. PagingTypeOK' /\ CallInv' /\ EditedMaps'
  BY <1>1, <1>3, <1>6, <1>7 DEF PagingInv, PagingTypeOK, CallInv, EditedMaps, Tables, Entries
<1>9. BootEntries'
  BY <1>2, <1>3 DEF PagingInv, BootEntries
<1>10. NewTables' /\ NewTablesDiffer' /\ HeldOwned'
  BY <1>1, <1>4 DEF PagingInv, NewTables, NewTablesDiffer, HeldOwned, pmmVars
<1>11. OwnedKnown'
  <2>1. ASSUME NEW f \in Frames, owners[f] # 0 PROVE f \in held
    BY <1>4, <2>1, Geometry DEF PagingInv, OwnedKnown
  <2> QED BY <1>1, <2>1 DEF OwnedKnown, pmmVars
<1>12. ClientMaps'
  <2>1. ASSUME NEW v \in ClientPages PROVE Walk(mem', v) = NotMapped
    BY <1>4, ClientPage, Walks
  <2> QED BY <2>1 DEF ClientMaps
<1>13. WindowCoherent'
  <2> SUFFICES ASSUME NEW w \in CpuPages \ ClientPages PROVE tlb'[w] = NotMapped
    BY DEF WindowCoherent, Coherent
  <2>1. Walk(mem, w) = NotMapped
    BY <1>1, CpuPage, Walks DEF NewIndex
  <2> QED BY <1>1, <2>1 DEF PagingInv, WindowCoherent, Coherent
<1>14. PmmInv'
  BY <1>1, PmmStutters DEF PagingInv
<1> QED
  BY <1>3, <1>6, <1>8, <1>9, <1>10, <1>11, <1>12, <1>13, <1>14 DEF PagingInv

(* A call that finds its table starts: so far it has only decided what to  *)
(* store.                                                                  *)
LEMMA StartKeeps ==
  ASSUME PagingInv, PagingReady, NEW v \in ClientPages, has_table(pde_idx(v)),
         NEW e \in held \cup {NotMapped}, call' = Call("store", v, e),
         UNCHANGED <<pmmVars, mem, tlb, held, edited>>
  PROVE  /\ PagingInv' /\ SameDirectory
         /\ \A w \in SpacePages : Maps(w)' = IF w = v THEN e ELSE Maps(w)
<1>1. /\ mem' = mem /\ tlb' = tlb /\ held' = held /\ edited' = edited
      /\ UNCHANGED pmmVars /\ owners' = owners /\ init' = init
  BY DEF pmmVars
<1>2. call'.pc = "store" /\ call'.v = v /\ call'.entry = e /\ Idle
  BY DEF Call, PagingReady
<1>3. init.step = "ready" /\ mem[PD][REC] = PD /\ mem[PD][pde_idx(v)] # NotMapped
  BY DEF PagingReady, has_table, PagingInv, BootEntries
<1>4. PagingTypeOK'
  <2>1. e \in Frames \cup {NotMapped}
    BY PagingTypes DEF PagingInv
  <2> QED BY <1>1, <2>1 DEF PagingInv, PagingTypeOK, Call
<1>5. BootEntries' /\ NewTables' /\ NewTablesDiffer' /\ HeldOwned' /\ OwnedKnown'
  BY <1>1, DirectorySame
<1>6. CallInv'
  BY <1>1, <1>2, <1>3 DEF CallInv
<1>7. ClientMaps' /\ EditedMaps'
  BY <1>1, <1>2 DEF PagingInv, ClientMaps, EditedMaps, Coherent, Pending, Uncleared,
     Walk, Idle
<1>8. WindowCoherent'
  BY <1>1, WindowSame
<1>9. PmmInv'
  BY <1>1, PmmStutters DEF PagingInv
<1>10. \A w \in SpacePages : Maps(w)' = IF w = v THEN e ELSE Maps(w)
  BY <1>1, <1>2 DEF Maps, Uncleared, Idle, Walk
<1> QED
  BY <1>1, <1>4, <1>5, <1>6, <1>7, <1>8, <1>9, <1>10 DEF PagingInv, SameDirectory

(* The first page under an entry costs a table: a frame nobody owned is    *)
(* entered in the directory, as it is.                                     *)
LEMMA NewTableKeeps ==
  ASSUME PagingInv, PagingReady, NEW v \in ClientPages, ~has_table(pde_idx(v)),
         NEW n \in Frames, owners[n] = 0, n \notin ReservedFrames,
         owners' = [owners EXCEPT ![n] = 1], init' = init, PmmInv',
         NEW e \in held, call' = Call("memset", v, e),
         mem' = [mem EXCEPT ![PD][pde_idx(v)] = n],
         UNCHANGED <<tlb, held, edited>>
  PROVE  /\ PagingInv'
         /\ \A w \in SpacePages : Maps(w)' = IF w = v THEN e ELSE Maps(w)
         /\ \A i \in Index : mem'[PD][i] = IF i = pde_idx(v) THEN n ELSE mem[PD][i]
<1> DEFINE d == pde_idx(v)
           x == REC * ENTRIES + d
<1>1. d \in NewIndex /\ d \in Index /\ d # REC /\ v \in Pages
      /\ x \in CpuPages \ ClientPages
  BY ClientPage, WindowPage DEF NewIndex
<1>2. /\ mem \in Tables /\ PD \in Frames /\ n # PD /\ n # PT1 /\ n # NotMapped
      /\ n \in Entries /\ REC \in Index
  BY PagingTypes, BootFrames, Geometry DEF PagingInv, Entries
<1>3. init.step = "ready" /\ mem[PD][REC] = PD /\ mem[PD][d] = NotMapped /\ Idle
  BY DEF PagingInv, BootEntries, PagingReady, has_table
<1>4. call'.pc = "memset" /\ call'.v = v /\ call'.entry = e
  BY DEF Call
<1> HIDE DEF d, x
<1>5. /\ mem' \in Tables /\ mem'[PD] = [mem[PD] EXCEPT ![d] = n]
      /\ \A f \in Frames \ {PD} : mem'[f] = mem[f]
  BY <1>1, <1>2 DEF Tables, d
<1>6. \A i \in Index : mem'[PD][i] = IF i = d THEN n ELSE mem[PD][i]
  <2>1. mem[PD] \in [Index -> Entries]
    BY <1>2 DEF Tables
  <2>2. \A g \in [Index -> Entries], i \in Index :
          [g EXCEPT ![d] = n][i] = IF i = d THEN n ELSE g[i]
    OBVIOUS
  <2> QED BY <1>5, <2>1, <2>2
<1>7. ASSUME NEW i \in Index, mem[PD][i] # NotMapped PROVE mem[PD][i] # n
  <2>1. CASE i \in NewIndex
    BY <1>7, <2>1, TablesApart
  <2>2. CASE i \notin NewIndex
    BY <1>7, <2>2, TablesApart
  <2> QED BY <2>1, <2>2
<1>8. ASSUME NEW w \in SpacePages, pde_idx(w) # d PROVE Walk(mem', w) = Walk(mem, w)
  <2>1. pde_idx(w) \in Index \ {REC}
    BY PageIndex DEF SpacePages
  <2>2. mem'[PD][pde_idx(w)] = mem[PD][pde_idx(w)]
    BY <1>6, <1>8, <2>1
  <2>3. CASE mem[PD][pde_idx(w)] # NotMapped
    <3>1. mem[PD][pde_idx(w)] \in Frames \ {PD}
      BY <2>1, <2>3, TablesApart
    <3> QED BY <1>5, <2>2, <3>1 DEF Walk
  <2>4. CASE mem[PD][pde_idx(w)] = NotMapped
    BY <2>2, <2>4, Walks
  <2> QED BY <2>3, <2>4
<1>9. \A u \in edited : u \in ClientPages /\ u \in SpacePages /\ pde_idx(u) # d
  BY <1>3, ClientPage DEF PagingInv, PagingTypeOK, EditedMaps
<1>10. owners \in [Frames -> Nat] /\ owners'[n] = 1
       /\ \A f \in Frames : owners[f] # 0 => f # n /\ owners'[f] = owners[f]
  BY DEF PagingInv, PmmInv, PmmTypeOK
<1>11. held \subseteq Frames /\ n \notin held
  BY <1>10, PagingTypes DEF PagingInv, HeldOwned
<1>12. PagingTypeOK'
  BY <1>5, <1>11 DEF PagingInv, PagingTypeOK, Tables, Entries, Call
<1>13. BootEntries'
  BY <1>1, <1>6, Geometry DEF PagingInv, BootEntries, NewIndex
<1>14. NewTables'
  <2> SUFFICES ASSUME NEW i \in NewIndex, mem'[PD][i] # NotMapped
               PROVE  /\ owners'[mem'[PD][i]] # 0 /\ mem'[PD][i] \notin held
                      /\ mem'[PD][REC] = PD
    BY DEF NewTables
  <2>1. i \in Index
    BY DEF NewIndex
  <2>2. mem'[PD][REC] = PD
    BY <1>1, <1>2, <1>3, <1>6
  <2>3. CASE i = d
    <3>1. mem'[PD][i] = n
      BY <1>6, <2>1, <2>3
    <3> QED BY <1>10, <1>11, <2>2, <3>1
  <2>4. CASE i # d
    <3>1. mem'[PD][i] = mem[PD][i]
      BY <1>6, <2>1, <2>4
    <3>2. /\ mem[PD][i] \in Frames /\ mem[PD][i] \notin held /\ owners[mem[PD][i]] # 0
      BY <2>1, <3>1, TablesApart
    <3> QED BY <1>10, <2>2, <3>1, <3>2
  <2> QED BY <2>3, <2>4
<1>15. NewTablesDiffer'
  <2> SUFFICES ASSUME NEW i \in NewIndex, NEW j \in NewIndex, i # j,
                      mem'[PD][i] # NotMapped, mem'[PD][i] = mem'[PD][j]
               PROVE  FALSE
    BY DEF NewTablesDiffer
  <2>1. i \in Index /\ j \in Index
    BY DEF NewIndex
  <2>2. CASE i = d \/ j = d
    BY <1>2, <1>6, <1>7, <2>1, <2>2
  <2>3. CASE i # d /\ j # d
    BY <1>6, <2>1, <2>3 DEF PagingInv, NewTablesDiffer
  <2> QED BY <2>2, <2>3
<1>16. HeldOwned'
  BY <1>10, <1>11 DEF PagingInv, HeldOwned
<1>17. OwnedKnown'
  <2> SUFFICES ASSUME NEW f \in Frames, owners'[f] # 0
               PROVE  f \in held \/ \E i \in NewIndex : mem'[PD][i] = f
    BY DEF OwnedKnown
  <2>1. CASE f = n
    BY <1>1, <1>6, <2>1
  <2>2. CASE f # n
    <3>1. owners[f] # 0
      BY <1>10, <2>2
    <3>2. f \in held \/ \E i \in NewIndex : mem[PD][i] = f
      BY <3>1 DEF PagingInv, OwnedKnown
    <3>3. ASSUME NEW i \in NewIndex, mem[PD][i] = f PROVE mem'[PD][i] = f
      BY <1>3, <1>6, <3>3, Geometry DEF NewIndex
    <3> QED BY <3>2, <3>3
  <2> QED BY <2>1, <2>2
<1>18. CallInv'
  <2>1. mem'[PD][REC] = PD /\ mem'[PD][d] # NotMapped
    BY <1>1, <1>2, <1>3, <1>6
  <2> QED BY <1>3, <1>4, <1>9, <2>1 DEF CallInv, d
<1>19. ClientMaps'
  <2> SUFFICES ASSUME NEW u \in ClientPages, pde_idx(u) # d
               PROVE  /\ Walk(mem', u) \in held \cup {NotMapped}
                      /\ u \in edited \/ Walk(mem', u) = NotMapped
    BY <1>4 DEF ClientMaps, Uncleared, d
  <2>1. Walk(mem', u) = Walk(mem, u)
    BY <1>8, ClientPage
  <2> QED BY <1>3, <2>1 DEF PagingInv, ClientMaps, Uncleared, Pending, Idle
<1>20. EditedMaps'
  <2> SUFFICES ASSUME NEW u \in edited
               PROVE  /\ mem'[PD][pde_idx(u)] # NotMapped
                      /\ tlb[u] \in held \cup {NotMapped}
                      /\ tlb[u] \in {NotMapped, Walk(mem', u)}
    BY DEF EditedMaps, Coherent
  <2>1. Walk(mem', u) = Walk(mem, u) /\ pde_idx(u) \in Index
    BY <1>8, <1>9, ClientPage DEF NewIndex
  <2>2. mem'[PD][pde_idx(u)] = mem[PD][pde_idx(u)]
    BY <1>6, <1>9, <2>1
  <2> QED BY <1>3, <2>1, <2>2 DEF PagingInv, EditedMaps, Coherent, Pending, Idle
<1>21. WindowCoherent'
  <2> SUFFICES ASSUME NEW w \in CpuPages \ ClientPages
               PROVE  tlb[w] \in {NotMapped, Walk(mem', w)}
    BY DEF WindowCoherent, Coherent
  <2>1. PICK i \in Index : w = REC * ENTRIES + i
    BY CpuPage DEF NewIndex
  <2>2. Walk(mem, w) = mem[PD][i]
    BY <1>3, <2>1, Walks
  <2>3. Walk(mem', w) = mem'[PD][i]
    <3>1. mem'[PD][REC] = PD
      BY <1>1, <1>2, <1>3, <1>6
    <3> QED BY <2>1, <3>1, Walks
  <2>4. tlb[w] \in {NotMapped, Walk(mem, w)}
    BY DEF PagingInv, WindowCoherent, Coherent
  <2> QED BY <1>3, <1>6, <2>2, <2>3, <2>4
<1>22. ASSUME NEW w \in SpacePages PROVE Maps(w)' = IF w = v THEN e ELSE Maps(w)
  <2>1. Maps(w) = Walk(mem, w)
    BY <1>3 DEF Maps, Uncleared, Idle
  <2>2. Maps(w)' = IF w = v THEN e ELSE IF pde_idx(w) = d THEN NotMapped ELSE Walk(mem', w)
    BY <1>4 DEF Maps, Uncleared, Idle, d
  <2>3. pde_idx(w) = d => Walk(mem, w) = NotMapped
    BY <1>3, Walks
  <2> QED BY <1>8, <2>1, <2>2, <2>3
<1> QED
  BY <1>6, <1>12, <1>13, <1>14, <1>15, <1>16, <1>17, <1>18, <1>19, <1>20, <1>21, <1>22
     DEF PagingInv, d

(* The facts a call in progress can rely on.                               *)
LEMMA InCall ==
  ASSUME PagingInv, ~Idle
  PROVE  /\ call.v \in ClientPages /\ pde_idx(call.v) \in NewIndex
         /\ pte_idx(call.v) \in Index /\ call.v \in Pages
         /\ call.entry \in held \cup {NotMapped} /\ call.entry \in Entries
         /\ mem[PD][REC] = PD /\ mem[PD][pde_idx(call.v)] # NotMapped
         /\ page_table_virt(mem, pde_idx(call.v)) = mem[PD][pde_idx(call.v)]
         /\ mem[PD][pde_idx(call.v)] \in Frames
<1>1. /\ call.v \in ClientPages /\ call.entry \in held \cup {NotMapped}
      /\ mem[PD][REC] = PD /\ mem[PD][pde_idx(call.v)] # NotMapped
  BY DEF PagingInv, CallInv
<1>2. /\ pde_idx(call.v) \in NewIndex /\ pte_idx(call.v) \in Index /\ call.v \in Pages
      /\ pde_idx(call.v) \in Index
  BY <1>1, ClientPage DEF NewIndex
<1>3. call.entry \in Entries
  BY <1>1, PagingTypes DEF PagingInv, Entries
<1>4. mem[PD][pde_idx(call.v)] \in Frames
  BY <1>1, <1>2, TablesApart
<1> QED BY <1>1, <1>2, <1>3, <1>4, TableReached

(* The new table is cleared, through the window: the processor has nothing *)
(* cached that would lead the memset elsewhere.                            *)
LEMMA ClearKeeps ==
  ASSUME PagingInv, paging_clear_table
  PROVE  PagingInv' /\ SameMaps /\ SameDirectory /\ UNCHANGED <<pmmVars, held>>
<1> DEFINE d == pde_idx(call.v)
<1>1. /\ call.pc = "memset" /\ tlb' = tlb /\ held' = held /\ edited' = edited
      /\ mem' = memset_table(mem, page_table_virt(mem, d))
      /\ call' = [call EXCEPT !.pc = "store"] /\ UNCHANGED pmmVars
  BY DEF paging_clear_table
<1>2. ~Idle
  BY <1>1 DEF Idle
<1>3. /\ call.v \in ClientPages /\ d \in NewIndex /\ mem[PD][d] # NotMapped
      /\ mem[PD][REC] = PD /\ page_table_virt(mem, d) = mem[PD][d]
      /\ call.entry \in held \cup {NotMapped}
  BY <1>2, InCall
<1>4. call'.pc = "store" /\ call'.v = call.v /\ call'.entry = call.entry
      /\ call' \in [pc : {"idle", "memset", "store", "invlpg"}, v : ClientPages \cup {0},
                    entry : Frames \cup {NotMapped}]
  BY <1>1 DEF PagingInv, PagingTypeOK
<1>5. EmptyTable \in [Index -> Entries]
  BY DEF EmptyTable, Entries
<1>6. mem' = [mem EXCEPT ![mem[PD][d]] = EmptyTable]
  BY <1>1, <1>3 DEF memset_table
<1> HIDE DEF d
<1>7. /\ mem' \in Tables /\ mem'[PD] = mem[PD]
      /\ \A w \in Pages : Walk(mem', w) = IF pde_idx(w) = d THEN EmptyTable[pte_idx(w)]
                                          ELSE Walk(mem, w)
  BY <1>3, <1>5, <1>6, TableWrite
<1>8. \A w \in Pages : Walk(mem', w) = IF pde_idx(w) = d THEN NotMapped ELSE Walk(mem, w)
  BY <1>7, PageIndex DEF EmptyTable
<1>9. BootEntries' /\ NewTables' /\ NewTablesDiffer' /\ HeldOwned' /\ OwnedKnown'
  BY <1>1, <1>7, DirectorySame DEF pmmVars
<1>10. PagingTypeOK'
  BY <1>1, <1>4, <1>7 DEF PagingInv, PagingTypeOK, Tables, Entries
<1>11. CallInv'
  BY <1>1, <1>2, <1>3, <1>4, <1>7 DEF PagingInv, CallInv, pmmVars, d
<1>12. ClientMaps'
  <2> SUFFICES ASSUME NEW u \in ClientPages
               PROVE  /\ Walk(mem', u) \in held \cup {NotMapped}
                      /\ u \in edited \/ Walk(mem', u) = NotMapped
    BY <1>1 DEF ClientMaps
  <2>1. Walk(mem', u) = IF pde_idx(u) = d THEN NotMapped ELSE Walk(mem, u)
    BY <1>8, ClientPage
  <2>2. CASE pde_idx(u) = d
    BY <2>1, <2>2
  <2>3. CASE pde_idx(u) # d
    BY <1>1, <2>1, <2>3 DEF PagingInv, ClientMaps, Uncleared, Pending, d
  <2> QED BY <2>2, <2>3
<1>13. EditedMaps'
  <2> SUFFICES ASSUME NEW u \in edited
               PROVE  /\ mem[PD][pde_idx(u)] # NotMapped
                      /\ tlb[u] \in held \cup {NotMapped}
                      /\ tlb[u] \in {NotMapped, Walk(mem', u)}
    BY <1>1, <1>7 DEF EditedMaps, Coherent
  <2>1. pde_idx(u) # d /\ u \in Pages
    BY <1>1, <1>2, ClientPage DEF PagingInv, PagingTypeOK, CallInv, d
  <2>2. Walk(mem', u) = Walk(mem, u)
    BY <1>8, <2>1
  <2> QED BY <1>1, <2>2 DEF PagingInv, EditedMaps, Coherent, Pending
<1>14. WindowCoherent'
  BY <1>1, <1>7, WindowWalks, WindowSame
<1>15. PmmInv'
  BY <1>1, PmmStutters DEF PagingInv
<1>16. ASSUME NEW w \in SpacePages PROVE Maps(w)' = Maps(w)
  <2>1. Walk(mem', w) = IF pde_idx(w) = d THEN NotMapped ELSE Walk(mem, w)
    BY <1>8 DEF SpacePages
  <2>2. Maps(w) = IF w = call.v THEN call.entry
                  ELSE IF pde_idx(w) = d THEN NotMapped ELSE Walk(mem, w)
    BY <1>1 DEF Maps, Uncleared, Idle, d
  <2>3. Maps(w)' = IF w = call.v THEN call.entry ELSE Walk(mem', w)
    BY <1>4 DEF Maps, Uncleared, Idle
  <2> QED BY <2>1, <2>2, <2>3
<1> QED
  BY <1>1, <1>7, <1>9, <1>10, <1>11, <1>12, <1>13, <1>14, <1>15, <1>16
     DEF PagingInv, SameMaps, SameDirectory

(* The entry is stored: one walk changes, that of the page still to be     *)
(* invalidated.                                                            *)
LEMMA EntryKeeps ==
  ASSUME PagingInv, paging_store_entry
  PROVE  PagingInv' /\ SameMaps /\ SameDirectory /\ UNCHANGED <<pmmVars, held>>
<1> DEFINE v == call.v
           e == call.entry
           d == pde_idx(v)
           t == mem[PD][d]
           g == [mem[t] EXCEPT ![pte_idx(v)] = e]
<1>1. /\ call.pc = "store" /\ tlb' = tlb /\ held' = held /\ edited' = edited
      /\ mem' = [mem EXCEPT ![page_table_virt(mem, d)][pte_idx(v)] = e]
      /\ call' = [call EXCEPT !.pc = "invlpg"] /\ UNCHANGED pmmVars
  BY DEF paging_store_entry
<1>2. ~Idle
  BY <1>1 DEF Idle
<1>3. /\ v \in ClientPages /\ v \in Pages /\ d \in NewIndex /\ pte_idx(v) \in Index
      /\ t # NotMapped /\ t \in Frames /\ mem[PD][REC] = PD /\ page_table_virt(mem, d) = t
      /\ e \in held \cup {NotMapped} /\ e \in Entries
  BY <1>2, InCall
<1>4. call'.pc = "invlpg" /\ call'.v = v /\ call'.entry = e
      /\ call' \in [pc : {"idle", "memset", "store", "invlpg"}, v : ClientPages \cup {0},
                    entry : Frames \cup {NotMapped}]
  BY <1>1 DEF PagingInv, PagingTypeOK
<1>5. mem[t] \in [Index -> Entries]
  BY <1>3, PagingTypes DEF PagingInv, Tables
<1>6. /\ g \in [Index -> Entries] /\ g[pte_idx(v)] = e
      /\ \A k \in Index : k # pte_idx(v) => g[k] = mem[t][k]
  BY <1>3, <1>5
<1>7. mem' = [mem EXCEPT ![t] = g]
  BY <1>1, <1>3
<1> HIDE DEF g, t, d, e, v
<1>8. /\ mem' \in Tables /\ mem'[PD] = mem[PD]
      /\ \A w \in Pages : Walk(mem', w) = IF pde_idx(w) = d THEN g[pte_idx(w)]
                                          ELSE Walk(mem, w)
  BY <1>3, <1>6, <1>7, TableWrite DEF t
<1>9. ASSUME NEW w \in Pages PROVE Walk(mem', w) = IF w = v THEN e ELSE Walk(mem, w)
  <2>1. pte_idx(w) \in Index
    BY PageIndex
  <2>2. CASE w = v
    BY <1>6, <1>8, <2>2 DEF d
  <2>3. CASE w # v /\ pde_idx(w) = d
    <3>1. pte_idx(w) # pte_idx(v)
      BY <1>3, <2>3, PageInjective DEF d
    <3>2. Walk(mem, w) = mem[t][pte_idx(w)]
      BY <1>3, <2>3, Walks DEF t
    <3> QED BY <1>6, <1>8, <2>1, <2>3, <3>1, <3>2
  <2>4. CASE w # v /\ pde_idx(w) # d
    BY <1>8, <2>4
  <2> QED BY <2>2, <2>3, <2>4
<1>10. BootEntries' /\ NewTables' /\ NewTablesDiffer' /\ HeldOwned' /\ OwnedKnown'
  BY <1>1, <1>8, DirectorySame DEF pmmVars
<1>11. PagingTypeOK'
  BY <1>1, <1>4, <1>8 DEF PagingInv, PagingTypeOK, Tables, Entries
<1>12. CallInv'
  <2>1. Walk(mem', v) = e
    BY <1>3, <1>9
  <2> QED BY <1>1, <1>2, <1>3, <1>4, <1>8, <2>1 DEF PagingInv, CallInv, pmmVars, t, d
<1>13. ClientMaps'
  <2> SUFFICES ASSUME NEW u \in ClientPages
               PROVE  /\ Walk(mem', u) \in held \cup {NotMapped}
                      /\ u \in edited \/ u = v \/ Walk(mem', u) = NotMapped
    BY <1>1, <1>4 DEF ClientMaps, Pending
  <2>1. Walk(mem', u) = IF u = v THEN e ELSE Walk(mem, u)
    BY <1>9, ClientPage
  <2>2. /\ Walk(mem, u) \in held \cup {NotMapped}
        /\ u \in edited \/ Walk(mem, u) = NotMapped
    BY <1>1 DEF PagingInv, ClientMaps, Uncleared, Pending
  <2> QED BY <1>3, <2>1, <2>2
<1>14. EditedMaps'
  <2> SUFFICES ASSUME NEW u \in edited
               PROVE  /\ mem[PD][pde_idx(u)] # NotMapped
                      /\ tlb[u] \in held \cup {NotMapped}
                      /\ u = v \/ tlb[u] \in {NotMapped, Walk(mem', u)}
    BY <1>1, <1>4, <1>8 DEF EditedMaps, Coherent, Pending
  <2>1. u \in Pages
    BY ClientPage DEF PagingInv, PagingTypeOK
  <2>2. u # v => Walk(mem', u) = Walk(mem, u)
    BY <1>9, <2>1
  <2> QED BY <1>1, <2>2 DEF PagingInv, EditedMaps, Coherent, Pending
<1>15. WindowCoherent'
  BY <1>1, <1>8, WindowWalks, WindowSame
<1>16. PmmInv'
  BY <1>1, PmmStutters DEF PagingInv
<1>17. ASSUME NEW w \in SpacePages PROVE Maps(w)' = Maps(w)
  <2>1. Walk(mem', w) = IF w = v THEN e ELSE Walk(mem, w)
    BY <1>9 DEF SpacePages
  <2>2. Maps(w) = IF w = v THEN e ELSE Walk(mem, w)
    BY <1>1 DEF Maps, Uncleared, Idle, v, e
  <2>3. Maps(w)' = IF w = v THEN e ELSE Walk(mem', w)
    BY <1>4 DEF Maps, Uncleared, Idle
  <2> QED BY <2>1, <2>2, <2>3
<1> QED
  BY <1>1, <1>8, <1>10, <1>11, <1>12, <1>13, <1>14, <1>15, <1>16, <1>17
     DEF PagingInv, SameMaps, SameDirectory

(* invlpg drops the one translation that may be stale.                     *)
LEMMA ReturnKeeps ==
  ASSUME PagingInv, paging_return
  PROVE  PagingInv' /\ SameMaps /\ SameDirectory /\ UNCHANGED <<pmmVars, held>>
<1> DEFINE v == call.v
<1>1. /\ call.pc = "invlpg" /\ tlb' = invlpg(tlb, v) /\ edited' = edited \cup {v}
      /\ call' = NoCall /\ mem' = mem /\ held' = held /\ UNCHANGED pmmVars
  BY DEF paging_return
<1>2. ~Idle
  BY <1>1 DEF Idle
<1>3. /\ v \in ClientPages /\ v \in Pages /\ mem[PD][pde_idx(v)] # NotMapped
      /\ call.entry \in held \cup {NotMapped} /\ Walk(mem, v) = call.entry
  BY <1>1, <1>2, InCall DEF PagingInv, CallInv
<1>4. call'.pc = "idle" /\ Idle' /\ call' \in [pc : {"idle", "memset", "store", "invlpg"},
        v : ClientPages \cup {0}, entry : Frames \cup {NotMapped}]
  BY <1>1 DEF NoCall, Call, Idle
<1> HIDE DEF v
<1>5. /\ tlb' \in [Pages -> Entries]
      /\ \A w \in Pages : tlb'[w] = IF w = v THEN NotMapped ELSE tlb[w]
  BY <1>1, PagingTypes DEF PagingInv, invlpg, Entries
<1>6. \A w : Walk(mem', w) = Walk(mem, w)
  BY <1>1 DEF Walk
<1>7. BootEntries' /\ NewTables' /\ NewTablesDiffer' /\ HeldOwned' /\ OwnedKnown'
  BY <1>1, DirectorySame DEF pmmVars
<1>8. PagingTypeOK' /\ CallInv'
  BY <1>1, <1>3, <1>4, <1>5 DEF PagingInv, PagingTypeOK, CallInv, Entries
<1>9. ClientMaps'
  <2> SUFFICES ASSUME NEW u \in ClientPages
               PROVE  /\ Walk(mem, u) \in held \cup {NotMapped}
                      /\ u \in edited \cup {v} \/ Walk(mem, u) = NotMapped
    BY <1>1, <1>6 DEF ClientMaps
  <2> QED BY <1>1 DEF PagingInv, ClientMaps, Uncleared, Pending, v
<1>10. EditedMaps'
  <2> SUFFICES ASSUME NEW u \in edited \cup {v}
               PROVE  /\ mem[PD][pde_idx(u)] # NotMapped
                      /\ tlb'[u] \in held \cup {NotMapped}
                      /\ tlb'[u] \in {NotMapped, Walk(mem, u)}
    BY <1>1, <1>6 DEF EditedMaps, Coherent
  <2>1. u \in Pages
    BY <1>3, ClientPage DEF PagingInv, PagingTypeOK
  <2>2. CASE u = v
    BY <1>3, <1>5, <2>1, <2>2
  <2>3. CASE u # v
    BY <1>5, <2>1, <2>3 DEF PagingInv, EditedMaps, Coherent, Pending, v
  <2> QED BY <2>2, <2>3
<1>11. WindowCoherent'
  <2>1. \A w \in CpuPages \ ClientPages : tlb'[w] = tlb[w]
    BY <1>3, <1>5, CpuPage
  <2> QED BY <1>6, <2>1, WindowSame
<1>12. PmmInv'
  BY <1>1, PmmStutters DEF PagingInv
<1>13. ASSUME NEW w \in SpacePages PROVE Maps(w)' = Maps(w)
  <2>1. Maps(w) = IF w = v THEN call.entry ELSE Walk(mem, w)
    BY <1>1 DEF Maps, Uncleared, Idle, v
  <2>2. Maps(w)' = Walk(mem', w)
    BY <1>4 DEF Maps, Uncleared, Idle
  <2> QED BY <1>3, <1>6, <2>1, <2>2
<1> QED
  BY <1>1, <1>7, <1>8, <1>9, <1>10, <1>11, <1>12, <1>13
     DEF PagingInv, SameMaps, SameDirectory

(* pmm_alloc_frame for the client: the frame is in nobody's hands yet.     *)
LEMMA TakeKeeps == PagingInv /\ TakeFrame => PagingInv'
<1> SUFFICES ASSUME PagingInv, TakeFrame PROVE PagingInv'
  OBVIOUS
<1>1. /\ Idle /\ ClientAlloc /\ mem' = mem /\ tlb' = tlb /\ call' = call /\ edited' = edited
      /\ held' = held \cup {f \in Frames : owners'[f] > owners[f]}
  BY DEF TakeFrame
<1>2. PmmInv /\ PmmInv' /\ owners \in [Frames -> Nat]
  BY <1>1, AllocPreserves DEF PagingInv, PmmInv, PmmTypeOK
<1>3. CallInv' /\ WindowCoherent'
  BY <1>1 DEF PagingInv, CallInv, Idle, WindowCoherent, Coherent, Walk
<1>4. CASE owners' = owners
  <2>1. held' = held
    BY <1>1, <1>2, <1>4
  <2>2. BootEntries' /\ NewTables' /\ NewTablesDiffer' /\ HeldOwned' /\ OwnedKnown'
    BY <1>1, <1>4, <2>1, DirectorySame
  <2>3. PagingTypeOK' /\ ClientMaps' /\ EditedMaps'
    BY <1>1, <2>1 DEF PagingInv, PagingTypeOK, ClientMaps, EditedMaps, Coherent, Pending,
       Uncleared, Walk
  <2> QED BY <1>2, <1>3, <2>2, <2>3 DEF PagingInv
<1>5. CASE owners' # owners
  <2>1. PICK n \in Frames : owners[n] = 0 /\ owners' = [owners EXCEPT ![n] = 1]
    BY <1>1, <1>2, <1>5, AllocOwners
  <2>2. owners'[n] = 1 /\ \A f \in Frames \ {n} : owners'[f] = owners[f]
    BY <1>2, <2>1
  <2>3. held' = held \cup {n}
    BY <1>1, <1>2, <2>1, <2>2
  <2>4. held \subseteq Frames
    BY PagingTypes DEF PagingInv
  <2>5. PagingTypeOK' /\ BootEntries' /\ NewTablesDiffer'
    BY <1>1, <2>3, <2>4 DEF PagingInv, PagingTypeOK, BootEntries, NewTablesDiffer
  <2>6. ASSUME NEW i \in NewIndex, mem[PD][i] # NotMapped
        PROVE  /\ owners'[mem[PD][i]] # 0 /\ mem[PD][i] \notin held' /\ mem[PD][REC] = PD
    <3>1. /\ mem[PD][i] \in Frames /\ mem[PD][i] \notin held /\ owners[mem[PD][i]] # 0
          /\ mem[PD][REC] = PD
      BY <2>6, TablesApart DEF NewIndex
    <3> QED BY <2>1, <2>2, <2>3, <3>1
  <2>7. NewTables'
    BY <1>1, <2>6 DEF NewTables
  <2>8. HeldOwned' /\ OwnedKnown'
    BY <1>1, <2>1, <2>2, <2>3, <2>4 DEF PagingInv, HeldOwned, OwnedKnown
  <2>9. ClientMaps' /\ EditedMaps'
    BY <1>1, <2>3 DEF PagingInv, ClientMaps, EditedMaps, Coherent, Pending, Uncleared, Walk
  <2> QED BY <1>2, <1>3, <2>5, <2>7, <2>8, <2>9 DEF PagingInv
<1> QED BY <1>4, <1>5

(* paging_get_physical tells the frame a client's page maps, 0 if none.    *)
LEMMA GetPhysical ==
  ASSUME PagingInv, PagingReady, NEW v \in ClientPages
  PROVE  paging_get_physical(v) = IF Walk(mem, v) = NotMapped THEN 0
                                  ELSE Walk(mem, v) * PMM_PAGE_SIZE
<1>1. CASE mem[PD][pde_idx(v)] = NotMapped
  BY <1>1, Walks DEF paging_get_physical, has_table
<1>2. CASE mem[PD][pde_idx(v)] # NotMapped
  <2>1. mem[PD][REC] = PD
    BY DEF PagingInv, BootEntries, PagingReady
  <2>2. has_table(pde_idx(v)) /\ page_table_virt(mem, pde_idx(v)) = mem[PD][pde_idx(v)]
    BY <1>2, <2>1, TableReached DEF has_table
  <2> QED BY <1>2, <2>2, Walks DEF paging_get_physical
<1> QED BY <1>1, <1>2

(* A page of the client that is mapped was written by a call, and what the *)
(* processor has cached of it is up to date.                               *)
LEMMA MappedPage ==
  ASSUME PagingInv, Idle, NEW v \in ClientPages, Walk(mem, v) # NotMapped
  PROVE  /\ v \in edited /\ Coherent(v) /\ Access(mem, v) = Walk(mem, v)
         /\ Walk(mem, v) \in held
<1>1. v \in edited /\ Walk(mem, v) \in held
  BY DEF PagingInv, ClientMaps, Uncleared, Pending, Idle
<1>2. Coherent(v)
  BY <1>1 DEF PagingInv, EditedMaps, Pending, Idle
<1> QED BY <1>1, <1>2 DEF Access, Coherent

(* A frame goes back that no page of the client maps.                      *)
LEMMA GiveKeeps ==
  ASSUME PagingInv, NEW f \in held, GiveFrame(f)
  PROVE  /\ PagingInv'
         /\ \A v \in ClientPages : Walk(mem, v) # f
<1>1. /\ PagingReady /\ ClientFree(f * PMM_PAGE_SIZE) /\ held' = held \ {f}
      /\ mem' = mem /\ tlb' = tlb /\ call' = call /\ edited' = edited /\ Idle
  BY DEF GiveFrame, PagingReady
<1>2. f \in Frames /\ owners[f] # 0 /\ held \subseteq Frames /\ f # NotMapped
  BY PagingTypes, Geometry DEF PagingInv, HeldOwned
<1>3. PmmInv' /\ owners' = [owners EXCEPT ![f] = 0] /\ owners \in [Frames -> Nat]
  BY <1>1, <1>2, FreeOwners DEF PagingInv, PmmInv, PmmTypeOK
<1>4. \A v \in ClientPages : Walk(mem, v) # f
  BY <1>1, <1>2, GetPhysical DEF GiveFrame
<1>5. owners'[f] = 0 /\ \A g \in Frames \ {f} : owners'[g] = owners[g]
  BY <1>2, <1>3
<1>6. PagingTypeOK' /\ BootEntries' /\ NewTablesDiffer'
  BY <1>1, <1>2 DEF PagingInv, PagingTypeOK, BootEntries, NewTablesDiffer
<1>7. CallInv' /\ WindowCoherent'
  BY <1>1 DEF PagingInv, CallInv, Idle, WindowCoherent, Coherent, Walk
<1>8. ASSUME NEW i \in NewIndex, mem[PD][i] # NotMapped
      PROVE  /\ owners'[mem[PD][i]] # 0 /\ mem[PD][i] \notin held' /\ mem[PD][REC] = PD
  <2>1. /\ mem[PD][i] \in Frames /\ mem[PD][i] \notin held /\ owners[mem[PD][i]] # 0
        /\ mem[PD][REC] = PD
    BY <1>8, TablesApart DEF NewIndex
  <2> QED BY <1>1, <1>5, <2>1
<1>9. NewTables'
  BY <1>1, <1>8 DEF NewTables
<1>10. HeldOwned'
  BY <1>1, <1>2, <1>5 DEF PagingInv, HeldOwned
<1>11. OwnedKnown'
  BY <1>1, <1>5 DEF PagingInv, OwnedKnown
<1>12. ClientMaps'
  BY <1>1, <1>4 DEF PagingInv, ClientMaps, Uncleared, Pending, Walk
<1>13. EditedMaps'
  <2> SUFFICES ASSUME NEW u \in edited
               PROVE  /\ mem[PD][pde_idx(u)] # NotMapped
                      /\ tlb[u] \in (held \ {f}) \cup {NotMapped}
                      /\ tlb[u] \in {NotMapped, Walk(mem, u)}
    BY <1>1 DEF EditedMaps, Coherent, Walk
  <2>1. u \in ClientPages
    BY DEF PagingInv, PagingTypeOK
  <2>2. /\ mem[PD][pde_idx(u)] # NotMapped /\ tlb[u] \in held \cup {NotMapped}
        /\ tlb[u] \in {NotMapped, Walk(mem, u)}
    BY <1>1 DEF PagingInv, EditedMaps, Coherent, Pending, Idle
  <2> QED BY <1>2, <1>4, <2>1, <2>2
<1> QED
  BY <1>3, <1>4, <1>6, <1>7, <1>9, <1>10, <1>11, <1>12, <1>13 DEF PagingInv

(* A store lands in a frame the client holds, never in a table.            *)
LEMMA StoreKeeps ==
  ASSUME PagingInv, NEW v \in ClientPages, Store(v)
  PROVE  PagingInv' /\ SameMaps /\ SameDirectory
<1> DEFINE a == Access(mem, v)
<1>1. /\ PagingReady /\ Idle /\ mem' = [mem EXCEPT ![a] = Garbage]
      /\ tlb' = tlb /\ held' = held /\ call' = call /\ edited' = edited
      /\ UNCHANGED pmmVars
  BY DEF Store, PagingReady
<1>2. a \in held
  <2>1. Walk(mem, v) # NotMapped
    BY <1>1, GetPhysical DEF Store
  <2> QED BY <1>1, <2>1, MappedPage
<1> HIDE DEF a
<1>3. a \in Frames /\ a \notin {PD, PT1} /\ mem \in Tables /\ PD \in Frames
  BY <1>2, PagingTypes, OwnedAddress, BootFrames DEF PagingInv, HeldOwned
<1>4. Garbage \in [Index -> Entries]
  BY AnyGarbage DEF Entries
<1>5. mem' \in Tables /\ \A f \in Frames \ {a} : mem'[f] = mem[f]
  BY <1>1, <1>3, <1>4 DEF Tables
<1>6. mem'[PD] = mem[PD]
  BY <1>3, <1>5
<1>7. ASSUME NEW w \in Pages PROVE Walk(mem', w) = Walk(mem, w)
  <2>1. pde_idx(w) \in Index /\ pte_idx(w) \in Index
    BY PageIndex
  <2>2. CASE mem[PD][pde_idx(w)] = NotMapped
    BY <1>6, <2>2, Walks
  <2>3. CASE mem[PD][pde_idx(w)] # NotMapped
    <3>1. mem[PD][pde_idx(w)] \in Frames \ {a}
      BY <1>2, <2>1, <2>3, TablesApart
    <3> QED BY <1>5, <1>6, <3>1 DEF Walk
  <2> QED BY <2>2, <2>3
<1>8. PagingTypeOK' /\ CallInv'
  BY <1>1, <1>5 DEF PagingInv, PagingTypeOK, CallInv, Idle, Tables, Entries
<1>9. BootEntries' /\ NewTables' /\ NewTablesDiffer' /\ HeldOwned' /\ OwnedKnown'
  BY <1>1, <1>6, DirectorySame DEF pmmVars
<1>10. ClientMaps'
  <2>1. \A u \in ClientPages : Walk(mem', u) = Walk(mem, u)
    BY <1>7, ClientPage
  <2> QED BY <1>1, <2>1 DEF PagingInv, ClientMaps, Uncleared, Pending
<1>11. EditedMaps'
  <2>1. \A u \in edited : Walk(mem', u) = Walk(mem, u)
    BY <1>7, ClientPage DEF PagingInv, PagingTypeOK
  <2> QED BY <1>1, <1>6, <2>1 DEF PagingInv, EditedMaps, Coherent, Pending
<1>12. WindowCoherent'
  BY <1>1, <1>6, WindowWalks, WindowSame
<1>13. PmmInv'
  BY <1>1, PmmStutters DEF PagingInv
<1>14. SameMaps
  BY <1>1, <1>7 DEF SameMaps, Maps, Uncleared, Idle, SpacePages
<1> QED
  BY <1>6, <1>8, <1>9, <1>10, <1>11, <1>12, <1>13, <1>14 DEF PagingInv, SameDirectory

(* The processor caches what its walk finds, also in the middle of a call, *)
(* or forgets.                                                             *)
LEMMA CpuKeeps ==
  ASSUME PagingInv, NEW v \in CpuPages, CpuFill(v) \/ CpuEvict(v)
  PROVE  PagingInv'
<1>1. mem' = mem /\ held' = held /\ call' = call /\ edited' = edited /\ UNCHANGED pmmVars
  BY DEF CpuFill, CpuEvict
<1>2. PICK e \in {NotMapped, Walk(mem, v)} : tlb' = [tlb EXCEPT ![v] = e]
  BY DEF CpuFill, CpuEvict
<1>3. v \in Pages /\ e \in Entries /\ tlb \in [Pages -> Entries]
  BY <1>2, CpuPage, WalkType, PagingTypes DEF PagingInv, Entries
<1>4. /\ tlb' \in [Pages -> Entries]
      /\ \A w \in Pages : tlb'[w] = IF w = v THEN e ELSE tlb[w]
  BY <1>2, <1>3
<1>5. PagingTypeOK' /\ CallInv'
  BY <1>1, <1>4 DEF PagingInv, PagingTypeOK, CallInv, Idle, Entries, Walk, pmmVars
<1>6. BootEntries' /\ NewTables' /\ NewTablesDiffer' /\ HeldOwned' /\ OwnedKnown'
  BY <1>1, DirectorySame DEF pmmVars
<1>7. ClientMaps'
  BY <1>1 DEF PagingInv, ClientMaps, Uncleared, Pending, Walk
<1>8. EditedMaps'
  <2> SUFFICES ASSUME NEW u \in edited
               PROVE  /\ mem[PD][pde_idx(u)] # NotMapped
                      /\ tlb'[u] \in held \cup {NotMapped}
                      /\ tlb'[u] \in {NotMapped, Walk(mem, u)} \/ Pending(u)
    BY <1>1 DEF EditedMaps, Coherent, Pending, Walk
  <2>1. u \in ClientPages /\ u \in Pages
    BY ClientPage DEF PagingInv, PagingTypeOK
  <2>2. CASE u = v
    <3>1. ~Uncleared(u)
      BY DEF PagingInv, CallInv, Uncleared, Idle
    <3>2. Walk(mem, u) \in held \cup {NotMapped}
      BY <2>1, <3>1 DEF PagingInv, ClientMaps
    <3> QED BY <1>2, <1>4, <2>1, <2>2, <3>2 DEF PagingInv, EditedMaps
  <2>3. CASE u # v
    BY <1>4, <2>1, <2>3 DEF PagingInv, EditedMaps, Coherent
  <2> QED BY <2>2, <2>3
<1>9. WindowCoherent'
  BY <1>1, <1>2, <1>4, CpuPage DEF PagingInv, WindowCoherent, Coherent, Walk
<1>10. PmmInv'
  BY <1>1, PmmStutters DEF PagingInv
<1> QED BY <1>5, <1>6, <1>7, <1>8, <1>9, <1>10 DEF PagingInv

(* paging_map_page promises the page its frame, under a new table if need  *)
(* be.                                                                     *)
LEMMA MapKeeps ==
  ASSUME PagingInv, NEW v \in ClientPages, NEW f \in held,
         paging_map_page(v, f * PMM_PAGE_SIZE)
  PROVE  /\ PagingInv'
         /\ init.step = "ready" /\ held' = held
         /\ \A w \in SpacePages : Maps(w)' = IF w = v THEN f ELSE Maps(w)
         /\ \A i \in Index : (mem'[PD][i] # NotMapped)
                               <=> (mem[PD][i] # NotMapped \/ i = pde_idx(v))
         /\ IF mem[PD][pde_idx(v)] # NotMapped THEN UNCHANGED pmmVars
            ELSE Allocatable(pmm) # {} /\ ClientAlloc
<1> DEFINE d == pde_idx(v)
<1>1. f \in Frames /\ d \in Index
  BY PagingTypes, ClientPage DEF PagingInv, NewIndex
<1>2. pte(f * PMM_PAGE_SIZE) = f
  BY <1>1, FrameRoundTrip DEF pte
<1>3. PagingReady /\ init.step = "ready" /\ UNCHANGED <<tlb, held, edited>>
  BY DEF paging_map_page, PagingReady
<1>4. CASE has_table(d)
  <2>1. mem' = mem /\ UNCHANGED pmmVars /\ call' = Call("store", v, f)
    BY <1>2, <1>4 DEF paging_map_page
  <2>2. /\ PagingInv' /\ SameDirectory
        /\ \A w \in SpacePages : Maps(w)' = IF w = v THEN f ELSE Maps(w)
    BY <1>3, <1>4, <2>1, StartKeeps
  <2> QED BY <1>1, <1>3, <1>4, <2>1, <2>2 DEF SameDirectory, has_table
<1>5. CASE ~has_table(d)
  <2> DEFINE addr == pmm_alloc_frame(pmm).addr
             n == addr_to_frame(addr)
  <2>1. /\ addr # 0 /\ ClientAlloc /\ call' = Call("memset", v, f)
        /\ mem' = [mem EXCEPT ![PD][d] = n]
    BY <1>2, <1>5 DEF paging_map_page
  <2>2. PmmInv /\ PmmInv' /\ init' = init
    BY <2>1, AllocPreserves DEF PagingInv, ClientAlloc
  <2>3. /\ n \in Frames /\ owners[n] = 0 /\ n \notin ReservedFrames
        /\ owners' = [owners EXCEPT ![n] = 1] /\ Allocatable(pmm) # {}
    BY <2>1, <2>2, AllocOwners
  <2> HIDE DEF n
  <2>4. /\ PagingInv'
        /\ \A w \in SpacePages : Maps(w)' = IF w = v THEN f ELSE Maps(w)
        /\ \A i \in Index : mem'[PD][i] = IF i = d THEN n ELSE mem[PD][i]
    BY <1>3, <1>5, <2>1, <2>2, <2>3, NewTableKeeps
  <2>5. n # NotMapped
    BY <2>3, Geometry
  <2> QED BY <1>1, <1>3, <1>5, <2>1, <2>3, <2>4, <2>5 DEF has_table
<1> QED BY <1>4, <1>5

(* paging_unmap_page takes the page's frame away, or finds no table.       *)
LEMMA UnmapKeeps ==
  ASSUME PagingInv, NEW v \in ClientPages, paging_unmap_page(v)
  PROVE  /\ PagingInv'
         /\ init.step = "ready" /\ held' = held /\ UNCHANGED pmmVars
         /\ \A w \in SpacePages : Maps(w)' = IF w = v THEN NotMapped ELSE Maps(w)
         /\ SameDirectory
<1> DEFINE d == pde_idx(v)
<1>1. PagingReady /\ init.step = "ready" /\ UNCHANGED <<pmmVars, mem, tlb, held, edited>>
  BY DEF paging_unmap_page, PagingReady
<1>2. CASE has_table(d)
  <2>1. call' = Call("store", v, NotMapped)
    BY <1>2 DEF paging_unmap_page
  <2> QED BY <1>1, <1>2, <2>1, StartKeeps
<1>3. CASE ~has_table(d)
  <2>1. UNCHANGED pagingVars /\ Idle
    BY <1>1, <1>3 DEF paging_unmap_page, pagingVars, PagingReady
  <2>2. Walk(mem, v) = NotMapped
    BY <1>3, Walks DEF has_table
  <2>3. PagingInv'
    BY <2>1, PagingStutters
  <2>4. \A w \in SpacePages : Maps(w)' = Maps(w) /\ Maps(w) = Walk(mem, w)
    BY <2>1 DEF Maps, Uncleared, Idle, Walk, pagingVars
  <2> QED BY <1>1, <2>2, <2>3, <2>4 DEF SameDirectory
<1> QED BY <1>2, <1>3

(* What boot.S leaves behind satisfies the invariant.                      *)
LEMMA PagingInitEstablishes == PagingInit => PagingInv
<1> SUFFICES ASSUME PagingInit PROVE PagingInv
  OBVIOUS
<1>1. PmmInv /\ owners = [f \in Frames |-> 0]
  BY PmmInitEstablishes DEF PagingInit, PmmInit, PmmStatics
<1>2. /\ mem = [f \in Frames |-> CASE f = PD  -> [EmptyTable EXCEPT ![KERNEL_PDE] = PT1]
                                   [] f = PT1 -> BootTable
                                   [] OTHER   -> Garbage]
      /\ tlb = [v \in Pages |-> NotMapped] /\ held = {} /\ call = NoCall /\ edited = {}
  BY DEF PagingInit
<1>3. EmptyTable \in [Index -> Entries] /\ Garbage \in [Index -> Entries]
      /\ BootTable \in [Index -> Entries]
  <2>1. Garbage \in [Index -> Entries]
    BY AnyGarbage DEF Entries
  <2>2. BootTable \in [Index -> Entries]
    <3>1. ASSUME NEW i \in Index, i # ENTRIES - 1 PROVE i \in Frames
      BY <3>1, PagingSizes, PmmSizes DEF Index, Frames
    <3>2. VGA_FRAME \in Frames
      BY PagingSizes
    <3> QED BY <3>1, <3>2 DEF BootTable, Entries
  <2> QED BY <2>1, <2>2 DEF EmptyTable, Entries
<1>4. PT1 \in Entries /\ PD \in Frames /\ KERNEL_PDE \in Index
  BY BootFrames, Geometry DEF Entries
<1>5. mem \in Tables /\ mem[PD] = [EmptyTable EXCEPT ![KERNEL_PDE] = PT1]
  <2> DEFINE dir == [EmptyTable EXCEPT ![KERNEL_PDE] = PT1]
  <2>1. dir \in [Index -> Entries]
    BY <1>3, <1>4
  <2> HIDE DEF dir
  <2>2. mem = [f \in Frames |-> CASE f = PD  -> dir
                                  [] f = PT1 -> BootTable
                                  [] OTHER   -> Garbage]
    BY <1>2 DEF dir
  <2> DEFINE t(f) == CASE f = PD -> dir [] f = PT1 -> BootTable [] OTHER -> Garbage
  <2>a. \A f \in Frames : t(f) \in [Index -> Entries]
    BY <1>3, <2>1
  <2>b. t(PD) = dir
    BY BootFrames
  <2>c. mem = [f \in Frames |-> t(f)]
    BY <2>2
  <2> HIDE DEF t
  <2>3. mem \in Tables /\ mem[PD] = dir
    BY <1>4, <2>a, <2>b, <2>c DEF Tables
  <2> QED BY <2>3 DEF dir
<1>6. \A i \in Index : mem[PD][i] = IF i = KERNEL_PDE THEN PT1 ELSE NotMapped
  BY <1>4, <1>5 DEF EmptyTable
<1>7. PagingTypeOK /\ CallInv /\ EditedMaps
  BY <1>2, <1>5 DEF PagingTypeOK, CallInv, EditedMaps, NoCall, Call, Idle, Tables, Entries
<1>8. BootEntries /\ NewTables /\ NewTablesDiffer
  BY <1>6, Geometry DEF BootEntries, NewTables, NewTablesDiffer, NewIndex
<1>9. HeldOwned /\ OwnedKnown
  BY <1>1, <1>2 DEF HeldOwned, OwnedKnown
<1>10. ClientMaps
  BY <1>6, ClientPage, Walks DEF ClientMaps, NewIndex
<1>11. WindowCoherent
  BY <1>2, CpuPage DEF WindowCoherent, Coherent
<1> QED BY <1>1, <1>7, <1>8, <1>9, <1>10, <1>11 DEF PagingInv

(***************************************************************************)
(* The theorems.                                                           *)
(***************************************************************************)
(* PagingInv holds through every sequence of maps, remaps, unmaps, stores, *)
(* allocations and frees, whatever the TLB keeps or drops.                 *)
THEOREM PagingInvariant == PagingSpec => []PagingInv
<1>1. PagingInv /\ [PagingNext]_pagingVars => PagingInv'
  <2> SUFFICES ASSUME PagingInv, [PagingNext]_pagingVars PROVE PagingInv'
    OBVIOUS
  <2>1. ASSUME NEW v \in ClientPages, NEW f \in held,
               \/ paging_map_page(v, f * PMM_PAGE_SIZE)
               \/ \E off \in {0, 1} : paging_map_page_fails(v, f * PMM_PAGE_SIZE + off)
        PROVE  PagingInv'
    <3>1. CASE paging_map_page(v, f * PMM_PAGE_SIZE)
      BY <3>1, MapKeeps
    <3>2. CASE \E off \in {0, 1} : paging_map_page_fails(v, f * PMM_PAGE_SIZE + off)
      BY <3>2, PagingStutters DEF paging_map_page_fails
    <3> QED BY <2>1, <3>1, <3>2
  <2>2. ASSUME NEW v \in ClientPages, paging_unmap_page(v) \/ Store(v) PROVE PagingInv'
    BY <2>2, UnmapKeeps, StoreKeeps
  <2>3. ASSUME NEW v \in CpuPages, CpuFill(v) \/ CpuEvict(v) PROVE PagingInv'
    BY <2>3, CpuKeeps
  <2>4. ASSUME NEW f \in held, GiveFrame(f) PROVE PagingInv'
    BY <2>4, GiveKeeps
  <2>5. CASE PagingBoot
    BY <2>5, BootKeeps
  <2>6. CASE paging_init
    BY <2>6, InitKeeps
  <2>7. CASE TakeFrame
    BY <2>7, TakeKeeps
  <2>8. CASE paging_clear_table \/ paging_store_entry \/ paging_return
    BY <2>8, ClearKeeps, EntryKeeps, ReturnKeeps
  <2>9. CASE UNCHANGED pagingVars
    BY <2>9, PagingStutters
  <2> QED BY <2>1, <2>2, <2>3, <2>4, <2>5, <2>6, <2>7, <2>8, <2>9 DEF PagingNext
<1> QED BY <1>1, PagingInitEstablishes, PTL DEF PagingSpec

(* Every entry of every table is a frame of the machine or not present.    *)
THEOREM PagingTypesHold == PagingSpec => []PagingTypeOK
<1>1. PagingInv => PagingTypeOK
  BY DEF PagingInv
<1> QED BY <1>1, PagingInvariant, PTL

(* No stale translation of a page a call has written, but while that call  *)
(* is about to invalidate it, nor of the window through which paging.c     *)
(* edits the tables: the processor may read the tables at any moment.      *)
THEOREM PagingEditedCoherent == PagingSpec => []EditedPagesCoherent
<1>1. PagingInv => EditedPagesCoherent
  BY DEF PagingInv, EditedMaps, WindowCoherent, EditedPagesCoherent, Pending
<1> QED BY <1>1, PagingInvariant, PTL

(* Only paging.c reaches a page table.                                     *)
THEOREM PagingTablesPrivate == PagingSpec => []TablesPrivate
<1>1. PagingInv => TablesPrivate
  <2> SUFFICES ASSUME PagingInv PROVE TablesPrivate
    OBVIOUS
  <2>1. held \cap TableFrames = {} /\ NotMapped \notin TableFrames
    BY TablesApart DEF TableFrames
  <2>2. \A i, j \in Index : i # j /\ mem[PD][i] # NotMapped => mem[PD][i] # mem[PD][j]
    BY TablesApart
  <2>3. ASSUME NEW v \in edited PROVE {Walk(mem, v), tlb[v]} \cap TableFrames = {}
    <3>1. v \in ClientPages /\ ~Uncleared(v)
      BY DEF PagingInv, PagingTypeOK, CallInv, Uncleared, Idle
    <3>2. Walk(mem, v) \in held \cup {NotMapped} /\ tlb[v] \in held \cup {NotMapped}
      BY <3>1 DEF PagingInv, ClientMaps, EditedMaps
    <3> QED BY <2>1, <3>2
  <2>4. ASSUME Idle, NEW v \in ClientPages \ edited PROVE Walk(mem, v) = NotMapped
    BY <2>4, MappedPage
  <2> QED BY <2>1, <2>2, <2>3, <2>4 DEF TablesPrivate
<1> QED BY <1>1, PagingInvariant, PTL

(* Every frame handed out is held by the client or is a table in use.      *)
THEOREM PagingFramesAccounted == PagingSpec => []FramesAccounted
<1>1. PagingInv => FramesAccounted
  <2> SUFFICES ASSUME PagingInv PROVE FramesAccounted
    OBVIOUS
  <2>1. ASSUME NEW f \in Frames, owners[f] # 0 PROVE f \in held \cup (TableFrames \ {PD, PT1})
    <3>1. CASE f \in held
      BY <3>1
    <3>2. CASE \E i \in NewIndex : mem[PD][i] = f
      <4>1. PICK i \in NewIndex : mem[PD][i] = f
        BY <3>2
      <4>2. f # NotMapped /\ i \in Index
        BY Geometry DEF NewIndex
      <4>3. f \in TableFrames
        BY <4>1, <4>2 DEF TableFrames
      <4>4. f \notin {PD, PT1}
        BY <4>1, <4>2, TablesApart
      <4> QED BY <4>3, <4>4
    <3> QED BY <2>1, <3>1, <3>2 DEF PagingInv, OwnedKnown
  <2>2. ASSUME NEW f \in held PROVE f \in Frames /\ owners[f] # 0
    BY PagingTypes DEF PagingInv, HeldOwned
  <2>3. ASSUME NEW f \in TableFrames \ {PD, PT1} PROVE f \in Frames /\ owners[f] # 0
    <3>1. PICK i \in Index : mem[PD][i] = f /\ f # NotMapped
      BY DEF TableFrames
    <3>2. i \in NewIndex
      BY <3>1 DEF PagingInv, BootEntries, NewIndex
    <3> QED BY <3>1, <3>2, TablesApart
  <2>4. \A f : f \in {g \in Frames : owners[g] # 0} <=> f \in held \cup (TableFrames \ {PD, PT1})
    BY <2>1, <2>2, <2>3
  <2> QED BY <2>4 DEF FramesAccounted
<1> QED BY <1>1, PagingInvariant, PTL

(***************************************************************************)
(* The refinement.                                                         *)
(***************************************************************************)
(* The allocator of the abstract address space is the same one: its        *)
(* definitions, helper by helper, ...                                      *)
LEMMA SameHelpers ==
  /\ AS!Frames = Frames
  /\ \A a : AS!addr_to_frame(a) = addr_to_frame(a)
  /\ \A p, F, u : AS!pmm_set_used(p, F, u) = pmm_set_used(p, F, u)
  /\ \A p : AS!Allocatable(p) = Allocatable(p)
  /\ \A p : AS!pmm_alloc_frame(p) = pmm_alloc_frame(p)
  /\ \A p, a : AS!pmm_free_frame(p, a) = pmm_free_frame(p, a)
  /\ \A a, n : AS!RegionFrames(a, n) = RegionFrames(a, n)
  /\ \A a, b : AS!pmm_mark_highest(a, b) = pmm_mark_highest(a, b)
  /\ \A a : AS!FrameCount(a) = FrameCount(a)
  /\ \A a : AS!pmm_region_usable(a) = pmm_region_usable(a)
  /\ AS!ReservedFrames = ReservedFrames
<1>1. AS!Frames = Frames
  BY DEF AS!Frames, Frames
<1>2. \A a : AS!addr_to_frame(a) = addr_to_frame(a)
  BY DEF AS!addr_to_frame, addr_to_frame
<1>0. \A S : AS!Cardinality(S) = Cardinality(S) /\ AS!Min(S) = Min(S)
  BY Zenon DEF AS!Cardinality, Cardinality, AS!Min, Min
<1>3. \A p, F, u : AS!pmm_set_used(p, F, u) = pmm_set_used(p, F, u)
  BY <1>0, Zenon DEF AS!pmm_set_used, pmm_set_used
<1>4. \A p : AS!Allocatable(p) = Allocatable(p)
  BY DEF AS!Allocatable, Allocatable
<1>5. \A p : AS!pmm_alloc_frame(p) = pmm_alloc_frame(p)
  BY <1>0, <1>3, <1>4, Zenon DEF AS!pmm_alloc_frame, pmm_alloc_frame
<1>6. \A p, a : AS!pmm_free_frame(p, a) = pmm_free_frame(p, a)
  BY <1>2, <1>3, Zenon DEF AS!pmm_free_frame, pmm_free_frame
<1>7. \A a, n : AS!RegionFrames(a, n) = RegionFrames(a, n)
  BY <1>2, Zenon DEF AS!RegionFrames, RegionFrames, AS!region_start_frame,
     region_start_frame, AS!region_end_frame, region_end_frame
<1>8. \A a, b : AS!pmm_mark_highest(a, b) = pmm_mark_highest(a, b)
  BY Zenon DEF AS!pmm_mark_highest, pmm_mark_highest
<1>9. \A a : AS!FrameCount(a) = FrameCount(a)
  BY <1>2, Zenon DEF AS!FrameCount, FrameCount
<1>10. \A a : AS!pmm_region_usable(a) = pmm_region_usable(a)
  BY Zenon DEF AS!pmm_region_usable, pmm_region_usable
<1>11. AS!ReservedFrames = ReservedFrames
  BY <1>2, Zenon DEF AS!ReservedFrames, ReservedFrames, AS!pmm_reserve_region,
     pmm_reserve_region, AS!virt_to_phys, virt_to_phys
<1> QED BY <1>1, <1>2, <1>3, <1>4, <1>5, <1>6, <1>7, <1>8, <1>9, <1>10, <1>11

(* ... and so its actions.                                                 *)
LEMMA SameAllocator ==
  /\ AS!ClientAlloc <=> ClientAlloc
  /\ \A a : AS!ClientFree(a) <=> ClientFree(a)
  /\ AS!PmmInit <=> PmmInit
  /\ PmmBoot => AS!PmmBoot
  /\ AS!pmmVars = pmmVars
<1>1. AS!ClientAlloc <=> ClientAlloc
  BY SameHelpers, Zenon DEF AS!ClientAlloc, ClientAlloc
<1>2. \A a : AS!ClientFree(a) <=> ClientFree(a)
  BY SameHelpers, Zenon DEF AS!ClientFree, ClientFree
<1>3. AS!PmmInit <=> PmmInit
  BY SameHelpers, Zenon DEF AS!PmmInit, PmmInit, AS!PmmStatics, PmmStatics
<1>4. AS!pmmVars = pmmVars
  BY DEF AS!pmmVars, pmmVars
<1>5. PmmBoot => AS!PmmBoot
  <2>1. pmm_init_invalid => AS!pmm_init_invalid
    BY Zenon DEF AS!pmm_init_invalid, pmm_init_invalid
  <2>2. pmm_init_highest => AS!pmm_init_highest
    BY SameHelpers, Zenon DEF AS!pmm_init_highest, pmm_init_highest
  <2>3. pmm_init_size => AS!pmm_init_size
    BY SameHelpers, Zenon DEF AS!pmm_init_size, pmm_init_size
  <2>4. pmm_init_region => AS!pmm_init_region
    BY SameHelpers, Zenon DEF AS!pmm_init_region, pmm_init_region
  <2>5. pmm_init_reserve => AS!pmm_init_reserve
    BY SameHelpers, Zenon DEF AS!pmm_init_reserve, pmm_init_reserve
  <2> QED BY <2>1, <2>2, <2>3, <2>4, <2>5 DEF PmmBoot, AS!PmmBoot
<1> QED BY <1>1, <1>2, <1>3, <1>4, <1>5

(* So is the geometry.                                                     *)
LEMMA SameGeometry ==
  /\ AS!SpacePages = SpacePages /\ AS!Index = Index /\ AS!NotMapped = NotMapped
  /\ \A v : AS!pde_idx(v) = pde_idx(v) /\ AS!pte_idx(v) = pte_idx(v)
  /\ AS!KERNEL_PDE = KERNEL_PDE /\ AS!BootTable = BootTable
BY Zenon DEF AS!SpacePages, SpacePages, AS!Index, Index, AS!NotMapped, NotMapped,
   AS!pde_idx, pde_idx, AS!pte_idx, pte_idx, AS!KERNEL_PDE, KERNEL_PDE,
   AS!BootTable, BootTable, AS!Pages, Pages, AS!REC, REC

Space == [v \in SpacePages |-> Maps(v)]
WithTable == {pde \in Index \ {REC} : mem[PD][pde] # NotMapped}

(* When neither what a page maps nor the set of tables changes, the        *)
(* address space does not.                                                 *)
LEMMA SpaceSame ==
  ASSUME SameMaps,
         \A i \in Index \ {REC} : mem'[PD][i] = mem[PD][i]
  PROVE  Space' = Space /\ WithTable' = WithTable
BY DEF SameMaps, Space, WithTable

(* What the abstract state is made of determines it.                       *)
LEMMA SpaceStutters ==
  ASSUME UNCHANGED pmmVars, Space' = Space, WithTable' = WithTable, held' = held
  PROVE  UNCHANGED AS!asVars
<1>1. [v \in SpacePages |-> Maps(v)]' = [v \in SpacePages |-> Maps(v)]
  BY DEF Space
<1>2. {pde \in Index \ {REC} : mem[PD][pde] # NotMapped}'
        = {pde \in Index \ {REC} : mem[PD][pde] # NotMapped}
  BY DEF WithTable
<1>3. UNCHANGED AS!pmmVars
  BY Zenon DEF AS!pmmVars, pmmVars
<1> QED BY <1>1, <1>2, <1>3, SameGeometry, Zenon DEF AS!asVars

(* In particular a step that leaves the memory and the call alone.         *)
LEMMA SpaceUnchanged ==
  ASSUME UNCHANGED pmmVars, mem' = mem, call' = call, held' = held
  PROVE  UNCHANGED AS!asVars
<1>1. Space' = Space /\ WithTable' = WithTable
  BY DEF Space, WithTable, Maps, Uncleared, Idle, Walk
<1> QED BY <1>1, SpaceStutters

(* Every step of paging.c, of its client or of the processor is a step of  *)
(* the address space or changes nothing of it.                             *)
LEMMA SpaceStep ==
  ASSUME PagingInv, PagingNext
  PROVE  AS!ASNext \/ UNCHANGED AS!asVars
<1>1. ASSUME mem' = mem, call' = call PROVE Space' = Space /\ WithTable' = WithTable
  BY <1>1 DEF Space, WithTable, Maps, Uncleared, Idle, Walk
<1>2. CASE PagingBoot
  <2>1. AS!ASBoot
    BY <1>1, <1>2, SameAllocator DEF PagingBoot, AS!ASBoot, Space, WithTable
  <2> QED BY <2>1 DEF AS!ASNext
<1>3. CASE paging_init
  <2>1. Space' = Space /\ WithTable' = WithTable
    BY <1>3, InitKeeps, SpaceSame
  <2> QED BY SpaceStutters, <1>3, <2>1 DEF paging_init
<1>4. CASE TakeFrame
  <2>1. AS!TakeFrame
    BY <1>1, <1>4, SameAllocator, SameHelpers DEF TakeFrame, AS!TakeFrame, Space, WithTable
  <2> QED BY <2>1 DEF AS!ASNext
<1>5. ASSUME NEW f \in held, GiveFrame(f) PROVE AS!ASNext
  <2>1. \A v \in ClientPages : Space[v] # f
    <3>1. Idle
      BY <1>5 DEF GiveFrame, PagingReady
    <3>2. \A v \in SpacePages : Maps(v) = Walk(mem, v)
      BY <3>1 DEF Maps, Uncleared, Idle
    <3> QED BY <1>5, <3>2, GiveKeeps, ClientPage DEF Space
  <2>2. AS!GiveFrame(f)
    BY <1>1, <1>5, <2>1, SameAllocator DEF GiveFrame, AS!GiveFrame, Space, WithTable
  <2> QED BY <2>2 DEF AS!ASNext
<1>6. ASSUME NEW v \in ClientPages, NEW f \in held, paging_map_page(v, f * PMM_PAGE_SIZE)
      PROVE  AS!ASNext
  <2>1. /\ init.step = "ready" /\ held' = held
        /\ \A w \in SpacePages : Maps(w)' = IF w = v THEN f ELSE Maps(w)
        /\ \A i \in Index : (mem'[PD][i] # NotMapped)
                              <=> (mem[PD][i] # NotMapped \/ i = pde_idx(v))
        /\ IF mem[PD][pde_idx(v)] # NotMapped THEN UNCHANGED pmmVars
           ELSE Allocatable(pmm) # {} /\ ClientAlloc
    BY <1>6, MapKeeps
  <2>2. v \in SpacePages /\ pde_idx(v) \in Index \ {REC}
    BY ClientPage DEF NewIndex
  <2>3. Space' = [Space EXCEPT ![v] = f]
    BY <2>1, <2>2 DEF Space
  <2>4. WithTable' = WithTable \cup {pde_idx(v)}
    BY <2>1, <2>2 DEF WithTable
  <2>5. pde_idx(v) \in WithTable <=> mem[PD][pde_idx(v)] # NotMapped
    BY <2>2 DEF WithTable
  <2>6. IF pde_idx(v) \in WithTable THEN UNCHANGED pmmVars
        ELSE Allocatable(pmm) # {} /\ ClientAlloc
    BY <2>1, <2>5
  <2>7. IF AS!pde_idx(v) \in WithTable THEN UNCHANGED AS!pmmVars
        ELSE AS!Allocatable(pmm) # {} /\ AS!ClientAlloc
    <3>1. UNCHANGED pmmVars => UNCHANGED AS!pmmVars
      BY Zenon DEF AS!pmmVars, pmmVars
    <3>2. AS!pde_idx(v) = pde_idx(v)
      BY SameGeometry
    <3>3. AS!Allocatable(pmm) = Allocatable(pmm)
      BY SameHelpers
    <3>4. AS!ClientAlloc <=> ClientAlloc
      BY SameAllocator
    <3> QED BY <2>6, <3>1, <3>2, <3>3, <3>4, Zenon
  <2>8. WithTable' = WithTable \cup {AS!pde_idx(v)}
    BY <2>4, SameGeometry
  <2>9. AS!ASMap(v, f)
    BY <2>1, <2>3, <2>7, <2>8, Zenon DEF AS!ASMap, Space, WithTable
  <2> QED BY <2>9 DEF AS!ASNext
<1>7. ASSUME NEW v \in ClientPages, paging_unmap_page(v) PROVE AS!ASNext
  <2>1. /\ init.step = "ready" /\ held' = held /\ UNCHANGED pmmVars
        /\ \A w \in SpacePages : Maps(w)' = IF w = v THEN NotMapped ELSE Maps(w)
        /\ SameDirectory
    BY <1>7, UnmapKeeps
  <2>2. v \in SpacePages
    BY ClientPage
  <2>3. Space' = [Space EXCEPT ![v] = NotMapped]
    BY <2>1, <2>2 DEF Space
  <2>4. WithTable' = WithTable
    BY <2>1 DEF WithTable, SameDirectory
  <2>5. AS!ASUnmap(v)
    <3>1. UNCHANGED AS!pmmVars
      BY <2>1, Zenon DEF AS!pmmVars, pmmVars
    <3>2. Space' = [Space EXCEPT ![v] = AS!NotMapped]
      BY <2>3, SameGeometry
    <3> QED BY <2>1, <2>4, <3>1, <3>2, Zenon DEF AS!ASUnmap, Space, WithTable
  <2> QED BY <2>5 DEF AS!ASNext
<1>8. ASSUME NEW v \in ClientPages, Store(v) PROVE UNCHANGED AS!asVars
  <2>1. Space' = Space /\ WithTable' = WithTable
    BY <1>8, StoreKeeps, SpaceSame DEF SameDirectory
  <2> QED BY SpaceStutters, <1>8, <2>1 DEF Store
<1>9. ASSUME NEW v \in CpuPages, CpuFill(v) \/ CpuEvict(v) PROVE UNCHANGED AS!asVars
  BY SpaceStutters, <1>1, <1>9 DEF CpuFill, CpuEvict
<1>10. ASSUME NEW v \in ClientPages, NEW f \in held, NEW off \in {0, 1},
              paging_map_page_fails(v, f * PMM_PAGE_SIZE + off)
       PROVE  UNCHANGED AS!asVars
  BY SpaceStutters, <1>1, <1>10 DEF paging_map_page_fails, pagingVars
<1>11. CASE paging_clear_table \/ paging_store_entry \/ paging_return
  <2>1. SameMaps /\ SameDirectory /\ UNCHANGED <<pmmVars, held>>
    BY <1>11, ClearKeeps, EntryKeeps, ReturnKeeps
  <2>2. Space' = Space /\ WithTable' = WithTable
    BY <2>1, SpaceSame DEF SameDirectory
  <2> QED BY <2>1, <2>2, SpaceStutters
<1> QED
  BY <1>2, <1>3, <1>4, <1>5, <1>6, <1>7, <1>8, <1>9, <1>10, <1>11 DEF PagingNext

(* paging.c gives its callers the address space AddressSpace promises: a   *)
(* call changes the page it names and no other.                            *)
THEOREM PagingIsAddressSpace == PagingSpec => ImplementsAddressSpace
<1>1. PagingInit => AS!ASInit
  <2> SUFFICES ASSUME PagingInit PROVE AS!ASInit
    OBVIOUS
  <2>1. PagingInv
    BY PagingInitEstablishes
  <2>2. PmmInit /\ held = {}
    BY DEF PagingInit
  <2>3. \A i \in Index : mem[PD][i] = IF i = KERNEL_PDE THEN PT1 ELSE NotMapped
    BY BootFrames, Geometry DEF PagingInit, EmptyTable
  <2>4. mem[PT1] = BootTable
    BY BootFrames DEF PagingInit
  <2>5. ASSUME NEW v \in SpacePages
        PROVE  Walk(mem, v) = IF pde_idx(v) = KERNEL_PDE THEN BootTable[pte_idx(v)]
                              ELSE NotMapped
    <3>1. pde_idx(v) \in Index
      BY PageIndex DEF SpacePages
    <3>2. PT1 # NotMapped
      BY BootFrames, Geometry
    <3> QED BY <2>3, <2>4, <3>1, <3>2, Walks
  <2>6. Space = [v \in SpacePages |-> IF pde_idx(v) = KERNEL_PDE
                                      THEN BootTable[pte_idx(v)] ELSE NotMapped]
    <3>1. call.pc = "idle"
      BY DEF PagingInit, NoCall, Call
    <3>2. \A v \in SpacePages : Maps(v) = Walk(mem, v)
      BY <3>1 DEF Maps, Uncleared, Idle
    <3> QED BY <2>5, <3>2 DEF Space
  <2>7. WithTable = {KERNEL_PDE}
    <3>1. PT1 # NotMapped /\ KERNEL_PDE \in Index \ {REC}
      BY BootFrames, Geometry
    <3> QED BY <2>3, <3>1 DEF WithTable
  <2> QED
    BY <2>2, <2>6, <2>7, SameAllocator, SameGeometry DEF AS!ASInit, Space, WithTable
<1>2. PagingInv /\ [PagingNext]_pagingVars => [AS!ASNext]_(AS!asVars)
  <2> SUFFICES ASSUME PagingInv, [PagingNext]_pagingVars
               PROVE  AS!ASNext \/ UNCHANGED AS!asVars
    OBVIOUS
  <2>1. CASE UNCHANGED pagingVars
    <3>1. UNCHANGED pmmVars /\ mem' = mem /\ call' = call /\ held' = held
      BY <2>1, Zenon DEF pagingVars
    <3> QED BY <3>1, SpaceUnchanged
  <2> QED BY <2>1, SpaceStep
<1> QED
  BY <1>1, <1>2, PagingInvariant, PTL DEF PagingSpec, ImplementsAddressSpace, AS!ASSpec
=============================================================================
