----------------------------- MODULE PmmProofs -----------------------------
(***************************************************************************)
(* Theorems about the frame allocator of Pmm, for every page size, bitmap  *)
(* capacity, kernel layout and memory map.                                 *)
(***************************************************************************)
EXTENDS Pmm, TLAPS, FiniteSetTheorems, WellFoundedInduction

(***************************************************************************)
(* Arithmetic of frames and addresses.                                     *)
(***************************************************************************)
(* Min of a non-empty set of naturals is its least element.                *)
LEMMA MinNat ==
  ASSUME NEW S \in SUBSET Nat, S # {}
  PROVE  Min(S) \in S /\ \A y \in S : Min(S) <= y
<1> DEFINE R == {ss \in Nat \X Nat : ss[1] < ss[2]}
<1>0. IsWellFoundedOn(R, Nat)
  BY NatLessThanWellFounded, Zenon DEF OpToRel
<1>1. PICK x \in S : \A y \in S : ~(<<y, x>> \in R)
  BY <1>0, WFMin, Zenon
<1>2. ASSUME NEW y \in S, y < x PROVE FALSE
  <2>1. <<y, x>> \in Nat \X Nat /\ <<y, x>>[1] < <<y, x>>[2]
    BY <1>2
  <2> QED BY <1>1, <2>1, Zenon
<1>3. x \in Nat /\ \A y \in S : y \in Nat
  OBVIOUS
<1>4. \A y \in S : x <= y
  BY <1>2, <1>3
<1> QED
  BY <1>4 DEF Min

(* Division by the page size, as the two inequalities that define it.      *)
LEMMA DivBounds ==
  ASSUME NEW a \in Nat, NEW p \in Nat \ {0}
  PROVE  /\ a \div p \in Nat
         /\ (a \div p) * p <= a
         /\ a < (a \div p + 1) * p
OBVIOUS

(* Quotient and remainder.                                                 *)
LEMMA DivMod ==
  ASSUME NEW a \in Nat, NEW p \in Nat \ {0}
  PROVE  a % p \in 0 .. p - 1 /\ a = p * (a \div p) + (a % p)
OBVIOUS

(* Frame f is at or below the frame of a when it starts at or below a.     *)
LEMMA DivUpper ==
  ASSUME NEW a \in Nat, NEW p \in Nat \ {0}, NEW f \in Nat, f * p <= a
  PROVE  f <= a \div p
<1> DEFINE q == a \div p
<1>1. q \in Nat /\ a < (q + 1) * p
  BY DivBounds
<1> HIDE DEF q
<1>2. CASE q + 1 <= f
  <2>1. (q + 1) * p <= f * p
    BY <1>1, <1>2
  <2> QED BY <1>1, <2>1
<1> QED BY <1>1, <1>2 DEF q

(* Frame f is at or above the frame of a when it ends after a.             *)
LEMMA DivLower ==
  ASSUME NEW a \in Nat, NEW p \in Nat \ {0}, NEW f \in Nat, a < (f + 1) * p
  PROVE  a \div p <= f
<1> DEFINE q == a \div p
<1>1. q \in Nat /\ q * p <= a
  BY DivBounds
<1> HIDE DEF q
<1>2. CASE f + 1 <= q
  <2>1. (f + 1) * p <= q * p
    BY <1>1, <1>2
  <2> QED BY <1>1, <2>1
<1> QED BY <1>1, <1>2 DEF q

(* A multiple of p leaves no remainder, and is p times its quotient.       *)
LEMMA Multiple ==
  ASSUME NEW n \in Nat, NEW p \in Nat \ {0}
  PROVE  /\ n * p \in Nat /\ (n * p) \div p = n /\ (n * p) % p = 0
<1> DEFINE a == n * p
<1>1. a \in Nat /\ (n + 1) * p = a + p /\ p * n = a
  OBVIOUS
<1> HIDE DEF a
<1>2. a \div p \in Nat /\ a \div p <= n
  BY <1>1, DivLower, DivBounds
<1>3. n * p <= a
  BY <1>1 DEF a
<1>4. n <= a \div p
  BY <1>1, <1>3, DivUpper
<1>5. a \div p = n
  BY <1>2, <1>4
<1>6. a % p \in 0 .. p - 1 /\ a = p * (a \div p) + (a % p)
  BY <1>1, DivMod
<1>7. a % p = 0
  BY <1>1, <1>5, <1>6
<1> QED BY <1>1, <1>5, <1>7 DEF a

(* A number without remainder is a multiple.                               *)
LEMMA NoRemainder ==
  ASSUME NEW a \in Nat, NEW p \in Nat \ {0}, a % p = 0
  PROVE  a \div p \in Nat /\ a = (a \div p) * p
<1>1. a \div p \in Nat
  BY DivBounds
<1>2. a = p * (a \div p) + (a % p)
  BY DivMod
<1> DEFINE q == a \div p
<1> HIDE DEF q
<1>3. q \in Nat /\ a = p * q
  BY <1>1, <1>2 DEF q
<1> QED BY <1>3 DEF q

(* Multiples of p are closed under sums and differences.                   *)
LEMMA MultipleSum ==
  ASSUME NEW a \in Nat, NEW b \in Nat, NEW p \in Nat \ {0}, a % p = 0, b % p = 0
  PROVE  /\ (a + b) % p = 0
         /\ (a + b) \div p = a \div p + b \div p
         /\ a <= b => (b - a) % p = 0
<1> DEFINE m == a \div p
           n == b \div p
<1>1. m \in Nat /\ n \in Nat /\ a = m * p /\ b = n * p
  BY NoRemainder
<1> HIDE DEF m, n
<1>2. a + b = (m + n) * p /\ m + n \in Nat
  BY <1>1
<1>3. (a + b) % p = 0 /\ (a + b) \div p = m + n
  BY <1>2, Multiple
<1>4. ASSUME a <= b PROVE (b - a) % p = 0
  <2>1. m <= n
    <3>1. CASE n + 1 <= m
      <4>1. (n + 1) * p <= m * p /\ (n + 1) * p = n * p + p
        BY <1>1, <3>1
      <4> QED BY <1>1, <1>4, <4>1
    <3> QED BY <1>1, <3>1
  <2>2. b - a = (n - m) * p /\ n - m \in Nat
    BY <1>1, <2>1
  <2> QED BY <2>2, Multiple
<1> QED BY <1>3, <1>4 DEF m, n

(* The next multiple of p is p away.                                       *)
LEMMA MultipleGap ==
  ASSUME NEW a \in Nat, NEW b \in Nat, NEW p \in Nat \ {0}, a % p = 0, b % p = 0, a < b
  PROVE  a + p <= b /\ a \div p < b \div p
<1> DEFINE m == a \div p
           n == b \div p
<1>1. m \in Nat /\ n \in Nat /\ a = m * p /\ b = n * p
  BY NoRemainder
<1> HIDE DEF m, n
<1>2. m + 1 <= n
  <2>1. CASE n <= m
    <3>1. n * p <= m * p
      BY <1>1, <2>1
    <3> QED BY <1>1, <3>1
  <2> QED BY <1>1, <2>1
<1>3. (m + 1) * p <= n * p /\ (m + 1) * p = m * p + p
  BY <1>1, <1>2
<1> QED BY <1>1, <1>2, <1>3 DEF m, n

(* What is a multiple of a multiple is a multiple.                         *)
LEMMA MultipleTrans ==
  ASSUME NEW a \in Nat, NEW p \in Nat \ {0}, NEW q \in Nat \ {0}, a % p = 0, p % q = 0
  PROVE  a % q = 0
<1> DEFINE m == a \div p
           n == p \div q
<1>1. m \in Nat /\ n \in Nat /\ a = m * p /\ p = n * q
  BY NoRemainder
<1> HIDE DEF m, n
<1>2. a = (m * n) * q /\ m * n \in Nat
  BY <1>1
<1> QED BY <1>2, Multiple

(* pmm_alloc_frame's address never wraps and leads back to its frame.      *)
LEMMA FrameRoundTrip ==
  ASSUME NEW f \in Frames
  PROVE  /\ (f * PMM_PAGE_SIZE) % U32 = f * PMM_PAGE_SIZE
         /\ addr_to_frame(f * PMM_PAGE_SIZE) = f
         /\ f * PMM_PAGE_SIZE = 0 => f = 0
<1> DEFINE P == PMM_PAGE_SIZE
<1>1. P \in Nat \ {0} /\ U32 \in Nat \ {0} /\ f \in Nat /\ f + 1 <= PMM_MAX_FRAMES
      /\ PMM_MAX_FRAMES \in Nat /\ PMM_MAX_FRAMES * P <= U32
  BY PmmSizes DEF Frames
<1> HIDE DEF P
<1>2. (f + 1) * P <= PMM_MAX_FRAMES * P
  BY <1>1
<1>3. f * P \in Nat /\ f * P < (f + 1) * P
  BY <1>1
<1>4. f * P \in Nat /\ f * P < U32
  BY <1>1, <1>2, <1>3
<1>5. (f * P) % U32 = f * P
  <2> DEFINE x == f * P
  <2>1. x \in Nat /\ x < U32
    BY <1>4
  <2> HIDE DEF x
  <2>2. x % U32 = x
    BY <1>1, <2>1
  <2> QED BY <2>2 DEF x
<1>6. (f * P) \div P = f
  <2>1. f <= (f * P) \div P
    BY <1>1, <1>3, DivUpper
  <2>2. (f * P) \div P <= f
    BY <1>1, <1>3, DivLower
  <2>3. (f * P) \div P \in Nat
    BY <1>1, <1>3, DivBounds
  <2> QED BY <1>1, <2>1, <2>2, <2>3
<1>7. f * P = 0 => f = 0
  BY <1>1
<1> QED BY <1>5, <1>6, <1>7 DEF P, addr_to_frame

(***************************************************************************)
(* The allocator's counter.                                                *)
(***************************************************************************)
(* An interval of frames is finite, with the obvious cardinality.          *)
LEMMA IntervalCard ==
  ASSUME NEW n \in Nat
  PROVE  IsFiniteSet(0 .. n - 1) /\ Cardinality(0 .. n - 1) = n
<1>1. n - 1 \in Int /\ 0 \in Int
  OBVIOUS
<1>2. /\ IsFiniteSet(0 .. n - 1)
      /\ Cardinality(0 .. n - 1) = IF 0 > n - 1 THEN 0 ELSE (n - 1) - 0 + 1
  BY <1>1, FS_Interval
<1> QED BY <1>2

(* Adding a set to another adds the elements that are new.                 *)
LEMMA CardinalityOfAdded ==
  ASSUME NEW A, NEW K, IsFiniteSet(A), IsFiniteSet(K)
  PROVE  Cardinality(A \cup K) = Cardinality(A) + Cardinality(K \ A)
<1>1. IsFiniteSet(K \ A)
  BY FS_Difference
<1> DEFINE B == K \ A
<1>2. A \cup B = A \cup K /\ A \cap B = {}
  OBVIOUS
<1>3. Cardinality(A) \in Nat /\ Cardinality(B) \in Nat /\ Cardinality({}) = 0
  BY <1>1, FS_CardinalityType, FS_EmptySet
<1> HIDE DEF B
<1>4. Cardinality(A \cup B) = Cardinality(A) + Cardinality(B) - Cardinality(A \cap B)
  BY <1>1, FS_Union DEF B
<1>5. Cardinality(A \cup K) = Cardinality(A) + Cardinality(B) - Cardinality({})
  BY <1>2, <1>4
<1> QED BY <1>3, <1>5 DEF B

Allocators == [bitmap : SUBSET Frames, frame_count : 0 .. PMM_MAX_FRAMES,
               used_count : 0 .. PMM_MAX_FRAMES]

Known(p) == 0 .. p.frame_count - 1

UsedCountExact(p) == p.used_count = Cardinality(p.bitmap \cap Known(p))

(* pmm_set_used, called for any set of frames in either direction, keeps   *)
(* the counter equal to the number of bits set below frame_count.          *)
LEMMA SetUsedExact ==
  ASSUME NEW p \in Allocators, UsedCountExact(p),
         NEW F \in SUBSET Nat, NEW used \in BOOLEAN
  PROVE  LET q == pmm_set_used(p, F, used)
             known == {f \in F : f < p.frame_count}
         IN  /\ q \in Allocators
             /\ UsedCountExact(q)
             /\ q.frame_count = p.frame_count
             /\ q.bitmap = IF used THEN p.bitmap \cup known
                                   ELSE p.bitmap \ known
<1> DEFINE q == pmm_set_used(p, F, used)
           known == {f \in F : f < p.frame_count}
           D == Known(p)
           A == p.bitmap \cap D
<1>1. /\ p.frame_count \in Nat /\ p.frame_count <= PMM_MAX_FRAMES
      /\ PMM_MAX_FRAMES \in Nat /\ p.bitmap \in SUBSET Frames
      /\ p.used_count \in Nat
  BY PmmSizes DEF Allocators
<1>2. IsFiniteSet(D) /\ Cardinality(D) = p.frame_count
  BY <1>1, IntervalCard DEF Known
<1>3. known \subseteq D /\ D \subseteq Frames
  <2>1. ASSUME NEW f \in known PROVE f \in D
    BY <1>1 DEF Known
  <2>2. ASSUME NEW f \in D PROVE f \in Frames
    BY <1>1 DEF Known, Frames
  <2> QED BY <2>1, <2>2
<1>4. IsFiniteSet(A) /\ IsFiniteSet(known) /\ IsFiniteSet(known \ A)
  BY <1>2, <1>3, FS_Subset
<1>5. p.used_count = Cardinality(A)
  BY DEF UsedCountExact
<1>6. CASE used
  <2>1. q = [p EXCEPT !.bitmap = p.bitmap \cup known,
                      !.used_count = p.used_count + Cardinality(known \ p.bitmap)]
    BY <1>6 DEF pmm_set_used
  <2>2. known \ p.bitmap = known \ A /\ A \cup known = (p.bitmap \cup known) \cap D
    BY <1>3
  <2> HIDE DEF A, D, known
  <2>3. Cardinality((p.bitmap \cup known) \cap D)
          = Cardinality(A) + Cardinality(known \ p.bitmap)
    BY <1>4, <2>2, CardinalityOfAdded
  <2>4. Cardinality((p.bitmap \cup known) \cap D) \in 0 .. PMM_MAX_FRAMES
    <3>1. (p.bitmap \cup known) \cap D \subseteq D
      OBVIOUS
    <3>2. /\ IsFiniteSet((p.bitmap \cup known) \cap D)
          /\ Cardinality((p.bitmap \cup known) \cap D) <= Cardinality(D)
      BY <1>2, <3>1, FS_Subset
    <3> QED BY <1>1, <1>2, <3>2, FS_CardinalityType
  <2> HIDE DEF q
  <2>5. /\ q.bitmap = p.bitmap \cup known
        /\ q.frame_count = p.frame_count
        /\ q.used_count = Cardinality((p.bitmap \cup known) \cap D)
        /\ q \in Allocators
    BY <1>1, <1>3, <1>5, <2>1, <2>3, <2>4 DEF Allocators
  <2>6. UsedCountExact(q)
    BY <2>5 DEF UsedCountExact, Known, D
  <2> QED BY <1>6, <2>5, <2>6 DEF q, known
<1>7. CASE ~used
  <2>1. q = [p EXCEPT !.bitmap = p.bitmap \ known,
                      !.used_count = p.used_count - Cardinality(known \cap p.bitmap)]
    BY <1>7 DEF pmm_set_used
  <2>2. known \cap p.bitmap = A \cap known /\ A \ known = (p.bitmap \ known) \cap D
    BY <1>3
  <2> HIDE DEF A, D, known
  <2>3. Cardinality((p.bitmap \ known) \cap D)
          = Cardinality(A) - Cardinality(known \cap p.bitmap)
    <3>1. Cardinality(A \ known) = Cardinality(A) - Cardinality(A \cap known)
      BY <1>4, FS_Difference
    <3> QED BY <2>2, <3>1, Zenon
  <2>4. Cardinality((p.bitmap \ known) \cap D) \in 0 .. PMM_MAX_FRAMES
    <3>1. (p.bitmap \ known) \cap D \subseteq D
      OBVIOUS
    <3>2. /\ IsFiniteSet((p.bitmap \ known) \cap D)
          /\ Cardinality((p.bitmap \ known) \cap D) <= Cardinality(D)
      BY <1>2, <3>1, FS_Subset
    <3> QED BY <1>1, <1>2, <3>2, FS_CardinalityType
  <2> HIDE DEF q
  <2>5. /\ q.bitmap = p.bitmap \ known
        /\ q.frame_count = p.frame_count
        /\ q.used_count = Cardinality((p.bitmap \ known) \cap D)
        /\ q \in Allocators
    BY <1>1, <1>3, <1>5, <2>1, <2>3, <2>4 DEF Allocators
  <2>6. UsedCountExact(q)
    BY <2>5 DEF UsedCountExact, Known, D
  <2> QED BY <1>7, <2>5, <2>6 DEF q, known
<1> QED BY <1>6, <1>7

(***************************************************************************)
(* The inductive invariant.  The properties speak of the counter and the   *)
(* owners only once pmm_init has ended; they hold then because, from the   *)
(* first step on, the counter is exact, nobody owns anything before the    *)
(* end, and at the end every reserved frame that exists has its bit set.   *)
(***************************************************************************)
NoOwnerBeforeReady == init.step # "ready" => \A f \in Frames : owners[f] = 0

ReservedMarked ==
  init.step = "ready" =>
    \A f \in ReservedFrames : f < pmm.frame_count => f \in pmm.bitmap

OwnedMarked ==
  \A f \in Frames : owners[f] # 0 =>
    /\ owners[f] = 1
    /\ f \in pmm.bitmap
    /\ f < pmm.frame_count
    /\ f \notin ReservedFrames

EmptyBeforeSizing == init.step = "highest" => pmm.frame_count = 0

PmmInv ==
  /\ PmmTypeOK
  /\ EmptyBeforeSizing
  /\ UsedCountExact(pmm)
  /\ NoOwnerBeforeReady
  /\ ReservedMarked
  /\ OwnedMarked

(***************************************************************************)
(* The sets of frames pmm_init works on.                                   *)
(***************************************************************************)
(* The frames of a region of the memory map are naturals.                  *)
LEMMA RegionFramesNat ==
  ASSUME NEW addr \in Nat, NEW len \in Nat
  PROVE  RegionFrames(addr, len) \in SUBSET Nat
<1>1. addr % U32 \in Nat /\ PMM_PAGE_SIZE \in Nat \ {0}
  BY PmmSizes
<1>2. region_start_frame(addr) \in Nat
  BY <1>1, DivBounds DEF region_start_frame, addr_to_frame
<1>3. \A n \in RegionFrames(addr, len) : n \in Nat
  BY <1>2 DEF RegionFrames
<1> QED BY <1>3

(* The frames pmm_reserve_region marks are naturals.                       *)
LEMMA ReserveRegionNat ==
  ASSUME NEW start \in Nat, NEW end \in Int
  PROVE  pmm_reserve_region(start, end) \in SUBSET Nat
<1>1. addr_to_frame(start) \in Nat
  BY PmmSizes, DivBounds DEF addr_to_frame
<1>2. \A n \in pmm_reserve_region(start, end) : n \in Nat
  BY <1>1 DEF pmm_reserve_region
<1> QED BY <1>2

(* So are all the frames pmm_init reserves at its end.                     *)
LEMMA ReservedFramesNat == ReservedFrames \in SUBSET Nat
<1> DEFINE phys(s) == virt_to_phys(Symbol[s])
<1>1. /\ phys("_kernel_end") \in Nat
      /\ phys("boot_page_directory") \in Nat /\ phys("boot_page_table1") \in Nat
      /\ phys("stack_bottom") \in Nat /\ phys("stack_top") \in Nat
      /\ phys("pmm_bitmap") \in Nat
  BY PmmSymbols, PmmSizes DEF virt_to_phys
<1>2. phys("boot_page_table1") + PMM_PAGE_SIZE \in Int
      /\ phys("pmm_bitmap") + PMM_MAX_FRAMES \div 8 \in Int
      /\ KERNEL_PHYSICAL_START \in Nat
  BY <1>1, PmmSizes
<1> HIDE DEF phys
<1>3. /\ pmm_reserve_region(KERNEL_PHYSICAL_START, phys("_kernel_end")) \in SUBSET Nat
      /\ pmm_reserve_region(phys("boot_page_directory"),
                            phys("boot_page_table1") + PMM_PAGE_SIZE) \in SUBSET Nat
      /\ pmm_reserve_region(phys("stack_bottom"), phys("stack_top")) \in SUBSET Nat
      /\ pmm_reserve_region(phys("pmm_bitmap"),
                            phys("pmm_bitmap") + PMM_MAX_FRAMES \div 8) \in SUBSET Nat
  BY <1>1, <1>2, ReserveRegionNat
<1> QED BY <1>3 DEF ReservedFrames, phys

(* A frame that is not reserved holds no byte of the kernel image.         *)
LEMMA KernelReserved ==
  ASSUME NEW f \in Frames, f \notin ReservedFrames
  PROVE  /\ f # 0
         /\ \/ (f + 1) * PMM_PAGE_SIZE <= KERNEL_PHYSICAL_START
            \/ f * PMM_PAGE_SIZE >= virt_to_phys(Symbol["_kernel_end"])
<1> DEFINE start == KERNEL_PHYSICAL_START
           end == virt_to_phys(Symbol["_kernel_end"])
           P == PMM_PAGE_SIZE
<1>1. start \in Nat /\ end \in Nat /\ end > start /\ P \in Nat \ {0} /\ f \in Nat
  BY PmmSizes, PmmSymbols DEF virt_to_phys, Frames
<1>2. f # 0 /\ f \notin pmm_reserve_region(start, end)
  BY DEF ReservedFrames
<1> HIDE DEF start, end, P
<1>3. f \notin addr_to_frame(start) .. addr_to_frame(end + P - 1)
  BY <1>1, <1>2 DEF pmm_reserve_region, P
<1>4. CASE start < (f + 1) * P /\ f * P < end
  <2>1. addr_to_frame(start) <= f /\ addr_to_frame(start) \in Nat
    BY <1>1, <1>4, DivLower, DivBounds DEF addr_to_frame, P
  <2>2. end + P - 1 \in Nat /\ f * P <= end + P - 1
    <3>1. f * P \in Nat
      BY <1>1
    <3> QED BY <1>1, <1>4, <3>1
  <2>3. f <= addr_to_frame(end + P - 1) /\ addr_to_frame(end + P - 1) \in Nat
    BY <1>1, <2>2, DivUpper, DivBounds DEF addr_to_frame, P
  <2> QED BY <1>1, <1>3, <2>1, <2>3
<1>5. f * P \in Nat /\ (f + 1) * P \in Nat
  BY <1>1
<1> QED BY <1>1, <1>2, <1>4, <1>5 DEF start, end, P

(***************************************************************************)
(* What pmm_alloc_frame and pmm_free_frame do to an exact allocator.       *)
(***************************************************************************)
(* What pmm_alloc_frame returns: null, or the frame it has marked used.    *)
LEMMA AllocFrame ==
  ASSUME NEW p \in Allocators, UsedCountExact(p), Allocatable(p) # {}
  PROVE  \E f \in Allocatable(p) :
           LET r == pmm_alloc_frame(p) IN
           /\ f \in Frames
           /\ f # 0
           /\ r.addr = f * PMM_PAGE_SIZE
           /\ r.addr # 0
           /\ addr_to_frame(r.addr) = f
           /\ r.pmm \in Allocators
           /\ UsedCountExact(r.pmm)
           /\ r.pmm.frame_count = p.frame_count
           /\ r.pmm.bitmap = p.bitmap \cup {f}
<1> DEFINE f == Min(Allocatable(p))
           q == pmm_set_used(p, {f}, TRUE)
<1>1. p.frame_count \in Nat /\ p.frame_count <= PMM_MAX_FRAMES /\ PMM_MAX_FRAMES \in Nat
  BY PmmSizes DEF Allocators
<1>2. Allocatable(p) \in SUBSET Nat
  BY <1>1 DEF Allocatable
<1>3. f \in Allocatable(p)
  BY <1>2, MinNat
<1> HIDE DEF f
<1>4. f \in Frames /\ f # 0 /\ f < p.frame_count /\ f \in Nat
  BY <1>1, <1>3 DEF Allocatable, Frames
<1>5. /\ q \in Allocators /\ UsedCountExact(q)
      /\ q.frame_count = p.frame_count
      /\ q.bitmap = p.bitmap \cup {g \in {f} : g < p.frame_count}
  BY <1>4, SetUsedExact, ZenonT(30)
<1>6. {g \in {f} : g < p.frame_count} = {f}
  BY <1>4
<1> HIDE DEF q
<1>7. pmm_alloc_frame(p) = [addr |-> (f * PMM_PAGE_SIZE) % U32, pmm |-> q]
  BY DEF pmm_alloc_frame, f, q
<1>8. /\ (f * PMM_PAGE_SIZE) % U32 = f * PMM_PAGE_SIZE
      /\ addr_to_frame(f * PMM_PAGE_SIZE) = f
      /\ f * PMM_PAGE_SIZE = 0 => f = 0
  BY <1>4, FrameRoundTrip
<1> WITNESS f \in Allocatable(p)
<1> QED BY <1>4, <1>5, <1>6, <1>7, <1>8

(* What pmm_free_frame changes: the bit of one frame, or nothing.          *)
LEMMA FreeFrame ==
  ASSUME NEW p \in Allocators, UsedCountExact(p), NEW addr \in Nat,
         addr # 0, addr % PMM_PAGE_SIZE = 0,
         addr_to_frame(addr) < p.frame_count
  PROVE  LET q == pmm_free_frame(p, addr) IN
         /\ q \in Allocators
         /\ UsedCountExact(q)
         /\ q.frame_count = p.frame_count
         /\ q.bitmap = p.bitmap \ {addr_to_frame(addr)}
<1> DEFINE f == addr_to_frame(addr)
           q == pmm_set_used(p, {f}, FALSE)
<1>1. f \in Nat
  BY PmmSizes, DivBounds DEF addr_to_frame
<1>2. f < p.frame_count
  OBVIOUS
<1>3. pmm_free_frame(p, addr) = q
  BY DEF pmm_free_frame
<1> HIDE DEF f
<1>4. /\ q \in Allocators /\ UsedCountExact(q)
      /\ q.frame_count = p.frame_count
      /\ q.bitmap = p.bitmap \ {g \in {f} : g < p.frame_count}
  BY <1>1, SetUsedExact, ZenonT(30)
<1>5. {g \in {f} : g < p.frame_count} = {f}
  BY <1>2
<1> QED BY <1>3, <1>4, <1>5 DEF f

(***************************************************************************)
(* The invariant is inductive: one step per action.                        *)
(***************************************************************************)
(* The zeroed statics satisfy the invariant, whatever the memory map.      *)
LEMMA StaticsEstablish ==
  ASSUME multiboot \in MultibootStatics, PmmStatics
  PROVE  PmmInv
<1>1. PmmTypeOK
  BY PmmSizes DEF PmmStatics, PmmTypeOK, Frames
<1>2. pmm.bitmap \cap Known(pmm) = {} /\ pmm.used_count = 0
  BY DEF PmmStatics
<1>3. UsedCountExact(pmm)
  BY <1>2, FS_EmptySet DEF UsedCountExact
<1> QED BY <1>1, <1>3 DEF PmmStatics, PmmInv, EmptyBeforeSizing, NoOwnerBeforeReady,
                          ReservedMarked, OwnedMarked

(* So do the initial states.                                               *)
LEMMA PmmInitEstablishes == PmmInit => PmmInv
BY PmmInputs, StaticsEstablish DEF PmmInit

(* Before "ready" nobody owns a frame and nothing need be marked.          *)
LEMMA InvBeforeReady ==
  ASSUME PmmInv, init.step # "ready", init'.step # "ready", UNCHANGED owners,
         PmmTypeOK', EmptyBeforeSizing', UsedCountExact(pmm')
  PROVE  PmmInv'
BY DEF PmmInv, NoOwnerBeforeReady, ReservedMarked, OwnedMarked, EmptyBeforeSizing

(* An index within its length selects an element of a sequence.            *)
LEMMA SeqElement ==
  ASSUME NEW S, NEW s \in Seq(S), NEW k \in 1 .. Len(s)
  PROVE  s[k] \in S
OBVIOUS

Progress == [step : {"highest", "regions", "ready"}, i : Nat \ {0},
             highest : Nat, freed_any : BOOLEAN]

(* The types of the memory map's fields.                                   *)
LEMMA MultibootTypes ==
  ASSUME PmmTypeOK
  PROVE  /\ multiboot.mem_upper_kb \in Nat
         /\ \A k \in Nat \ {0} : k <= Len(multiboot.mmap) =>
              multiboot.mmap[k].addr \in Nat /\ multiboot.mmap[k].len \in Nat
<1>1. multiboot.mem_upper_kb \in Nat
      /\ multiboot.mmap \in Seq([addr : Nat, len : Nat, type : Nat])
  BY DEF PmmTypeOK, MultibootStatics
<1> DEFINE mm == multiboot.mmap
<1> HIDE DEF mm
<1>2. ASSUME NEW k \in Nat \ {0}, k <= Len(mm)
      PROVE  mm[k].addr \in Nat /\ mm[k].len \in Nat
  <2>1. mm \in Seq([addr : Nat, len : Nat, type : Nat])
    BY <1>1 DEF mm
  <2>2. k \in 1 .. Len(mm)
    BY <1>2, <2>1
  <2>3. mm[k] \in [addr : Nat, len : Nat, type : Nat]
    BY <2>1, <2>2, SeqElement, Zenon
  <2> QED BY <2>3
<1> QED BY <1>1, <1>2 DEF mm

(* The loop over the ends of the regions keeps the invariant.              *)
LEMMA HighestPreserves == PmmInv /\ pmm_init_highest => PmmInv'
<1> SUFFICES ASSUME PmmInv, pmm_init_highest PROVE PmmInv'
  OBVIOUS
<1> DEFINE entry == multiboot.mmap[init.i]
           end == (entry.addr + entry.len) % U64
<1>1. PmmTypeOK /\ UsedCountExact(pmm)
  BY DEF PmmInv
<1>2. init.i \in Nat \ {0} /\ init.i + 1 \in Nat \ {0} /\ init.highest \in Nat
      /\ init \in Progress
  BY <1>1 DEF PmmTypeOK, Progress
<1>3. entry.addr \in Nat /\ entry.len \in Nat
  BY <1>1, <1>2, MultibootTypes DEF pmm_init_highest
<1>4. end \in Nat
  BY <1>3, PmmSizes
<1> HIDE DEF end
<1>5. pmm_mark_highest(end, init.highest) \in Nat
  BY <1>2, <1>4 DEF pmm_mark_highest
<1>6. init' = [init EXCEPT !.i = init.i + 1,
                           !.highest = pmm_mark_highest(end, init.highest)]
  BY DEF pmm_init_highest, end
<1>7. init.step = "highest" /\ init'.step = "highest"
  BY <1>1, <1>6 DEF pmm_init_highest, PmmTypeOK
<1>8. PmmTypeOK'
  <2>1. init' \in Progress
    BY <1>2, <1>5, <1>6, Zenon DEF Progress
  <2> QED BY <1>1, <2>1 DEF pmm_init_highest, PmmTypeOK, Progress
<1>9. UsedCountExact(pmm') /\ EmptyBeforeSizing'
  BY <1>1, <1>7 DEF pmm_init_highest, PmmInv, EmptyBeforeSizing
<1> QED BY <1>7, <1>8, <1>9, InvBeforeReady DEF pmm_init_highest

(* So does the early return without a memory map.                          *)
LEMMA InvalidPreserves == PmmInv /\ pmm_init_invalid => PmmInv'
<1> SUFFICES ASSUME PmmInv, pmm_init_invalid PROVE PmmInv'
  OBVIOUS
<1>1. PmmTypeOK'
  BY DEF PmmInv, PmmTypeOK, pmm_init_invalid
<1>2. init.step = "highest" /\ init'.step = "ready" /\ pmm.frame_count = 0
      /\ pmm' = pmm /\ owners' = owners
  BY DEF PmmInv, PmmTypeOK, EmptyBeforeSizing, pmm_init_invalid
<1>3. ReservedMarked'
  BY <1>2, ReservedFramesNat DEF ReservedMarked
<1> QED BY <1>1, <1>2, <1>3 DEF PmmInv, EmptyBeforeSizing, NoOwnerBeforeReady, OwnedMarked

(* Sizing marks everything used, with the counter to match.                *)
LEMMA SizePreserves == PmmInv /\ pmm_init_size => PmmInv'
<1> SUFFICES ASSUME PmmInv, pmm_init_size PROVE PmmInv'
  OBVIOUS
<1> DEFINE kb == multiboot.mem_upper_kb
           highest == IF kb = 0 THEN init.highest
                      ELSE pmm_mark_highest(KERNEL_PHYSICAL_START + kb * KIB,
                                            init.highest)
           count == FrameCount(highest)
           bits == 0 .. 8 * ((count + 7) \div 8) - 1
<1>1. PmmTypeOK
  BY DEF PmmInv
<1>2. highest \in Nat
  <2>1. kb \in Nat /\ init.highest \in Nat /\ KIB \in Nat /\ KERNEL_PHYSICAL_START \in Nat
    BY <1>1, MultibootTypes, PmmSizes DEF PmmTypeOK
  <2>2. kb * KIB \in Nat
    BY <2>1
  <2> QED BY <2>1, <2>2 DEF pmm_mark_highest
<1> HIDE DEF highest
<1>3. count \in Nat /\ count <= PMM_MAX_FRAMES
  <2>1. highest % U32 \in Nat
    BY <1>2, PmmSizes
  <2>2. addr_to_frame(highest % U32) \in Nat
    BY <2>1, PmmSizes, DivBounds DEF addr_to_frame
  <2> QED BY <2>2, PmmSizes DEF FrameCount
<1> HIDE DEF count
<1>4. 8 * ((count + 7) \div 8) <= PMM_MAX_FRAMES /\ count <= 8 * ((count + 7) \div 8)
      /\ (count + 7) \div 8 \in Nat
  BY <1>3, PmmSizes
<1>5. bits \in SUBSET Frames /\ bits \cap (0 .. count - 1) = 0 .. count - 1
  <2>1. \A n \in bits : n \in Frames
    BY <1>4, PmmSizes DEF Frames
  <2>2. \A n \in 0 .. count - 1 : n \in bits
    BY <1>3, <1>4
  <2> QED BY <2>1, <2>2
<1> HIDE DEF bits
<1>6. pmm' = [bitmap |-> bits, frame_count |-> count, used_count |-> count]
      /\ init' = [init EXCEPT !.step = "regions", !.i = 1, !.highest = highest]
  BY DEF pmm_init_size, bits, count, highest
<1>7. pmm' \in Allocators
  BY <1>3, <1>5, <1>6, PmmSizes DEF Allocators
<1>8. UsedCountExact(pmm')
  <2>1. Known(pmm') = 0 .. count - 1 /\ pmm'.bitmap = bits /\ pmm'.used_count = count
    BY <1>6 DEF Known
  <2> QED BY <1>3, <1>5, <2>1, IntervalCard DEF UsedCountExact
<1>9. init' \in Progress
  <2>1. init \in Progress /\ 1 \in Nat \ {0}
    BY <1>1 DEF PmmTypeOK, Progress
  <2> QED BY <1>2, <1>6, <2>1, Zenon DEF Progress
<1>10. PmmTypeOK'
  BY <1>1, <1>7, <1>9 DEF PmmTypeOK, Progress, Allocators, pmm_init_size
<1>11. init.step = "highest" /\ init'.step = "regions" /\ EmptyBeforeSizing'
  BY <1>1, <1>6 DEF PmmTypeOK, pmm_init_size, EmptyBeforeSizing
<1> QED BY <1>8, <1>10, <1>11, InvBeforeReady DEF pmm_init_size

(* Freeing or reserving one region keeps the counter exact.                *)
LEMMA RegionPreserves == PmmInv /\ pmm_init_region => PmmInv'
<1> SUFFICES ASSUME PmmInv, pmm_init_region PROVE PmmInv'
  OBVIOUS
<1> DEFINE entry == multiboot.mmap[init.i]
           usable == pmm_region_usable(entry.type)
           F == RegionFrames(entry.addr, entry.len)
<1>1. PmmTypeOK /\ UsedCountExact(pmm) /\ pmm \in Allocators
  BY DEF PmmInv, PmmTypeOK, Allocators
<1>2. init.i \in Nat \ {0} /\ init.i + 1 \in Nat \ {0} /\ usable \in BOOLEAN
      /\ init \in Progress
  BY <1>1 DEF PmmTypeOK, Progress, pmm_region_usable
<1>3. entry.addr \in Nat /\ entry.len \in Nat
  BY <1>1, <1>2, MultibootTypes DEF pmm_init_region
<1>4. F \in SUBSET Nat
  BY <1>3, RegionFramesNat
<1> HIDE DEF F, usable
<1>5. /\ pmm' = pmm_set_used(pmm, F, ~usable)
      /\ init' = [init EXCEPT !.i = init.i + 1, !.freed_any = init.freed_any \/ usable]
  BY DEF pmm_init_region, F, usable
<1>6. pmm' \in Allocators /\ UsedCountExact(pmm')
  BY <1>1, <1>2, <1>4, <1>5, SetUsedExact
<1>7. init' \in Progress
  BY <1>2, <1>5, Zenon DEF Progress
<1>8. PmmTypeOK'
  BY <1>1, <1>6, <1>7 DEF PmmTypeOK, Progress, Allocators, pmm_init_region
<1>9. init.step = "regions" /\ init'.step = "regions" /\ EmptyBeforeSizing'
  BY <1>1, <1>5 DEF PmmTypeOK, pmm_init_region, EmptyBeforeSizing
<1> QED BY <1>6, <1>8, <1>9, InvBeforeReady DEF pmm_init_region

(* The reservations leave every reserved frame marked used.                *)
LEMMA ReservePreserves == PmmInv /\ pmm_init_reserve => PmmInv'
<1> SUFFICES ASSUME PmmInv, pmm_init_reserve PROVE PmmInv'
  OBVIOUS
<1> DEFINE kb == multiboot.mem_upper_kb
           F == RegionFrames(KERNEL_PHYSICAL_START, kb * KIB)
           freed == IF ~init.freed_any /\ kb # 0
                    THEN pmm_set_used(pmm, F, FALSE) ELSE pmm
<1>1. PmmTypeOK /\ UsedCountExact(pmm) /\ pmm \in Allocators
  BY DEF PmmInv, PmmTypeOK, Allocators
<1>2. F \in SUBSET Nat
  <2>1. kb \in Nat /\ KIB \in Nat /\ KERNEL_PHYSICAL_START \in Nat
    BY <1>1, MultibootTypes, PmmSizes
  <2>2. kb * KIB \in Nat
    BY <2>1
  <2> QED BY <2>1, <2>2, RegionFramesNat
<1>3. freed \in Allocators /\ UsedCountExact(freed)
  BY <1>1, <1>2, SetUsedExact
<1>4. pmm' = pmm_set_used(freed, ReservedFrames, TRUE)
      /\ init' = [init EXCEPT !.step = "ready"]
      /\ owners' = owners /\ init.step = "regions"
  BY DEF pmm_init_reserve
<1> HIDE DEF freed
<1>5. /\ pmm' \in Allocators /\ UsedCountExact(pmm')
      /\ pmm'.frame_count = freed.frame_count
      /\ pmm'.bitmap = freed.bitmap \cup {f \in ReservedFrames : f < freed.frame_count}
  BY <1>3, <1>4, ReservedFramesNat, SetUsedExact
<1>6. init \in Progress
  BY <1>1 DEF PmmTypeOK, Progress
<1>7. init' \in Progress /\ init'.step = "ready"
  BY <1>4, <1>6, Zenon DEF Progress
<1>8. PmmTypeOK'
  BY <1>1, <1>5, <1>7 DEF PmmTypeOK, Progress, Allocators, pmm_init_reserve
<1>9. \A f \in Frames : owners'[f] = 0
  BY <1>4 DEF PmmInv, NoOwnerBeforeReady
<1>10. ReservedMarked'
  BY <1>5 DEF ReservedMarked
<1>11. EmptyBeforeSizing' /\ NoOwnerBeforeReady' /\ OwnedMarked'
  BY <1>7, <1>9 DEF EmptyBeforeSizing, NoOwnerBeforeReady, OwnedMarked
<1> QED BY <1>5, <1>8, <1>10, <1>11 DEF PmmInv

(* pmm_alloc_frame gives a frame nobody owns, and marks it.                *)
LEMMA AllocPreserves == PmmInv /\ ClientAlloc => PmmInv'
<1> SUFFICES ASSUME PmmInv, ClientAlloc PROVE PmmInv'
  OBVIOUS
<1> DEFINE r == pmm_alloc_frame(pmm)
<1>1. PmmTypeOK /\ UsedCountExact(pmm) /\ pmm \in Allocators /\ owners \in [Frames -> Nat]
  BY DEF PmmInv, PmmTypeOK, Allocators
<1>2. /\ init.step = "ready" /\ init' = init /\ multiboot' = multiboot
      /\ pmm' = r.pmm
      /\ owners' = IF r.addr = 0 THEN owners
                   ELSE [owners EXCEPT ![addr_to_frame(r.addr)] = @ + 1]
  BY DEF ClientAlloc
<1>3. CASE Allocatable(pmm) = {}
  <2>1. pmm' = pmm /\ owners' = owners
    BY <1>2, <1>3 DEF pmm_alloc_frame
  <2> QED BY <1>2, <2>1 DEF PmmInv, PmmTypeOK, EmptyBeforeSizing, NoOwnerBeforeReady,
                            ReservedMarked, OwnedMarked
<1>4. CASE Allocatable(pmm) # {}
  <2>1. PICK f \in Allocatable(pmm) :
          /\ f \in Frames
          /\ r.addr # 0
          /\ addr_to_frame(r.addr) = f
          /\ r.pmm \in Allocators
          /\ UsedCountExact(r.pmm)
          /\ r.pmm.frame_count = pmm.frame_count
          /\ r.pmm.bitmap = pmm.bitmap \cup {f}
    BY <1>1, <1>4, AllocFrame
  <2> HIDE DEF r
  <2>2. owners' = [owners EXCEPT ![f] = owners[f] + 1] /\ owners' \in [Frames -> Nat]
    BY <1>1, <1>2, <2>1
  <2>3. f \notin pmm.bitmap /\ f < pmm.frame_count /\ f \in Nat
    BY <1>1, <2>1 DEF Allocatable, Allocators
  <2>4. owners[f] = 0 /\ f \notin ReservedFrames
    BY <1>2, <2>1, <2>3 DEF PmmInv, OwnedMarked, ReservedMarked
  <2>5. PmmTypeOK'
    BY <1>1, <1>2, <2>1, <2>2 DEF PmmTypeOK, Allocators
  <2>6. OwnedMarked'
    BY <1>1, <1>2, <2>1, <2>2, <2>3, <2>4 DEF PmmInv, OwnedMarked
  <2>7. ReservedMarked' /\ EmptyBeforeSizing' /\ NoOwnerBeforeReady' /\ UsedCountExact(pmm')
    BY <1>2, <2>1 DEF PmmInv, ReservedMarked, EmptyBeforeSizing, NoOwnerBeforeReady
  <2> QED BY <2>5, <2>6, <2>7 DEF PmmInv
<1> QED BY <1>3, <1>4

(* A frame that is owned and returned: its bit and its owner go together.  *)
LEMMA FreePreserves ==
  ASSUME PmmInv, NEW addr \in Nat, addr < PMM_MAX_FRAMES * PMM_PAGE_SIZE,
         ClientFree(addr)
  PROVE  PmmInv'
<1> DEFINE f == addr_to_frame(addr)
<1>1. PmmTypeOK /\ UsedCountExact(pmm) /\ pmm \in Allocators /\ owners \in [Frames -> Nat]
  BY DEF PmmInv, PmmTypeOK, Allocators
<1>2. /\ init.step = "ready" /\ init' = init /\ multiboot' = multiboot
      /\ pmm' = pmm_free_frame(pmm, addr)
  BY DEF ClientFree
<1>3. CASE addr = 0 \/ addr % PMM_PAGE_SIZE # 0
  <2>1. pmm' = pmm /\ owners' = owners
    BY <1>2, <1>3 DEF ClientFree, pmm_free_frame
  <2> QED BY <1>2, <2>1 DEF PmmInv, PmmTypeOK, EmptyBeforeSizing, NoOwnerBeforeReady,
                            ReservedMarked, OwnedMarked
<1>4. CASE addr # 0 /\ addr % PMM_PAGE_SIZE = 0
  <2>1. f \in Frames
    <3>1. f \in Nat /\ f * PMM_PAGE_SIZE <= addr
      BY PmmSizes, DivBounds DEF addr_to_frame
    <3> HIDE DEF f
    <3>2. CASE PMM_MAX_FRAMES <= f
      <4>1. PMM_MAX_FRAMES * PMM_PAGE_SIZE <= f * PMM_PAGE_SIZE
        BY <3>1, <3>2, PmmSizes
      <4> QED BY <3>1, <4>1, PmmSizes
    <3> QED BY <3>1, <3>2, PmmSizes DEF Frames
  <2>2. owners[f] > 0 /\ owners' = [owners EXCEPT ![f] = owners[f] - 1]
    BY <1>4 DEF ClientFree
  <2>3. owners[f] = 1 /\ f < pmm.frame_count /\ f \notin ReservedFrames
    BY <1>1, <2>1, <2>2 DEF PmmInv, OwnedMarked
  <2>4. /\ pmm' \in Allocators /\ UsedCountExact(pmm')
        /\ pmm'.frame_count = pmm.frame_count
        /\ pmm'.bitmap = pmm.bitmap \ {f}
    BY <1>1, <1>2, <1>4, <2>3, FreeFrame
  <2> HIDE DEF f
  <2>5. owners' \in [Frames -> Nat] /\ owners'[f] = 0
    BY <1>1, <2>1, <2>2, <2>3
  <2>6. PmmTypeOK'
    BY <1>1, <1>2, <2>4, <2>5 DEF PmmTypeOK, Allocators
  <2>7. OwnedMarked'
    BY <1>1, <2>1, <2>2, <2>4, <2>5 DEF PmmInv, OwnedMarked
  <2>8. ReservedMarked' /\ EmptyBeforeSizing' /\ NoOwnerBeforeReady'
    BY <1>2, <2>3, <2>4 DEF PmmInv, ReservedMarked, EmptyBeforeSizing, NoOwnerBeforeReady
  <2> QED BY <2>4, <2>6, <2>7, <2>8 DEF PmmInv
<1> QED BY <1>3, <1>4

(***************************************************************************)
(* What a client sees of the two calls.                                    *)
(***************************************************************************)
(* pmm_alloc_frame answers null and changes nothing, or gives a frame that *)
(* nobody owned and nothing reserves.                                      *)
LEMMA AllocOwners ==
  ASSUME PmmInv, ClientAlloc
  PROVE  LET addr == pmm_alloc_frame(pmm).addr IN
         \/ addr = 0 /\ Allocatable(pmm) = {} /\ owners' = owners
         \/ /\ addr # 0 /\ Allocatable(pmm) # {}
            /\ \E f \in Frames :
                 /\ addr = f * PMM_PAGE_SIZE /\ addr_to_frame(addr) = f
                 /\ owners[f] = 0 /\ f \notin ReservedFrames
                 /\ owners' = [owners EXCEPT ![f] = 1]
<1> DEFINE r == pmm_alloc_frame(pmm)
<1>1. pmm \in Allocators /\ UsedCountExact(pmm) /\ owners \in [Frames -> Nat]
  BY DEF PmmInv, PmmTypeOK, Allocators
<1>2. /\ init.step = "ready"
      /\ owners' = IF r.addr = 0 THEN owners
                   ELSE [owners EXCEPT ![addr_to_frame(r.addr)] = @ + 1]
  BY DEF ClientAlloc
<1>3. CASE Allocatable(pmm) = {}
  BY <1>2, <1>3 DEF pmm_alloc_frame
<1>4. CASE Allocatable(pmm) # {}
  <2>1. PICK f \in Allocatable(pmm) :
          /\ f \in Frames /\ r.addr = f * PMM_PAGE_SIZE /\ r.addr # 0
          /\ addr_to_frame(r.addr) = f
    BY <1>1, <1>4, AllocFrame
  <2>2. f \notin pmm.bitmap /\ f < pmm.frame_count
    BY <1>1 DEF Allocatable, Allocators
  <2>3. owners[f] = 0 /\ f \notin ReservedFrames
    BY <1>2, <2>1, <2>2 DEF PmmInv, OwnedMarked, ReservedMarked
  <2> HIDE DEF r
  <2>4. owners' = [owners EXCEPT ![f] = 1]
    <3>1. owners' = [owners EXCEPT ![f] = owners[f] + 1]
      BY <1>2, <2>1
    <3> QED BY <2>3, <3>1
  <2> QED BY <1>4, <2>1, <2>3, <2>4 DEF r
<1> QED BY <1>3, <1>4

(* A frame that is owned is not frame 0, and its address is the address    *)
(* pmm_free_frame takes for it.                                            *)
LEMMA OwnedAddress ==
  ASSUME PmmInv, NEW f \in Frames, owners[f] # 0
  PROVE  /\ f # 0 /\ f \notin ReservedFrames /\ owners[f] = 1
         /\ f * PMM_PAGE_SIZE \in Nat \ {0}
         /\ f * PMM_PAGE_SIZE < PMM_MAX_FRAMES * PMM_PAGE_SIZE
         /\ (f * PMM_PAGE_SIZE) % PMM_PAGE_SIZE = 0
         /\ addr_to_frame(f * PMM_PAGE_SIZE) = f
<1>1. owners[f] = 1 /\ f \notin ReservedFrames
  BY DEF PmmInv, OwnedMarked
<1>2. f # 0
  BY <1>1, KernelReserved
<1> DEFINE P == PMM_PAGE_SIZE
           a == f * P
<1>3. P \in Nat \ {0} /\ f \in Nat /\ f + 1 <= PMM_MAX_FRAMES /\ PMM_MAX_FRAMES \in Nat
  BY PmmSizes DEF Frames
<1>4. addr_to_frame(a) = f /\ (a = 0 => f = 0)
  BY FrameRoundTrip
<1> HIDE DEF P
<1>5. a \in Nat /\ a < (f + 1) * P /\ (f + 1) * P <= PMM_MAX_FRAMES * P
  BY <1>3
<1>6. a % P = 0
  <2>1. a \div P = f /\ P * f = a
    BY <1>3, <1>4 DEF addr_to_frame, P
  <2> HIDE DEF a
  <2>2. a % P \in 0 .. P - 1 /\ a = P * (a \div P) + (a % P)
    BY <1>3, <1>5, DivMod
  <2> QED BY <1>3, <1>5, <2>1, <2>2
<1> QED BY <1>1, <1>2, <1>3, <1>4, <1>5, <1>6 DEF P

(* Returning an owned frame leaves it without an owner.                    *)
LEMMA FreeOwners ==
  ASSUME PmmInv, NEW f \in Frames, owners[f] # 0, ClientFree(f * PMM_PAGE_SIZE)
  PROVE  PmmInv' /\ owners' = [owners EXCEPT ![f] = 0]
<1> DEFINE a == f * PMM_PAGE_SIZE
<1>1. /\ owners[f] = 1 /\ a \in Nat /\ a # 0 /\ a < PMM_MAX_FRAMES * PMM_PAGE_SIZE
      /\ a % PMM_PAGE_SIZE = 0 /\ addr_to_frame(a) = f
  BY OwnedAddress
<1>2. ClientFree(a)
  OBVIOUS
<1> HIDE DEF a
<1>3. owners' = [owners EXCEPT ![f] = owners[f] - 1]
  BY <1>1, <1>2 DEF ClientFree
<1> QED BY <1>1, <1>2, <1>3, FreePreserves

(***************************************************************************)
(* Where the frames come from.  Before a client can take a frame, pmm_init *)
(* has freed it, and then some usable region (or mem_upper, when there is  *)
(* none) contains it; a region that is not usable only takes frames away.  *)
(***************************************************************************)
Regions == DOMAIN multiboot.mmap
Usable(k) == pmm_region_usable(multiboot.mmap[k].type)
FramesOf(k) == RegionFrames(multiboot.mmap[k].addr, multiboot.mmap[k].len)

UpperFrames == RegionFrames(KERNEL_PHYSICAL_START, multiboot.mem_upper_kb * KIB)

IsFree(f) == f < pmm.frame_count /\ f \notin pmm.bitmap

(* Declared usable by one of the first regions, up to region i.            *)
Seen(i, f) == \E k \in Regions : k < i /\ Usable(k) /\ f \in FramesOf(k)

Declared(f) ==
  \/ \E k \in Regions : Usable(k) /\ f \in FramesOf(k)
  \/ (\A k \in Regions : ~Usable(k)) /\ f \in UpperFrames

RamInv ==
  /\ init.step = "highest" => ~init.freed_any
  /\ init.step = "regions" =>
       /\ \A f \in Frames : IsFree(f) => Seen(init.i, f)
       /\ init.freed_any = \E k \in Regions : k < init.i /\ Usable(k)
  /\ init.step = "ready" =>
       \A f \in Frames : IsFree(f) \/ owners[f] # 0 => Declared(f)

(* The map and its regions.                                                *)
LEMMA RegionTypes ==
  ASSUME PmmTypeOK
  PROVE  /\ Regions = 1 .. Len(multiboot.mmap) /\ Len(multiboot.mmap) \in Nat
         /\ \A k \in Regions : /\ multiboot.mmap[k].addr \in Nat
                               /\ multiboot.mmap[k].len \in Nat
                               /\ FramesOf(k) \in SUBSET Nat
         /\ UpperFrames \in SUBSET Nat
<1>1. multiboot.mmap \in Seq([addr : Nat, len : Nat, type : Nat])
      /\ multiboot.mem_upper_kb \in Nat
  BY DEF PmmTypeOK, MultibootStatics
<1>2. Regions = 1 .. Len(multiboot.mmap) /\ Len(multiboot.mmap) \in Nat
  BY <1>1 DEF Regions
<1>3. \A k \in Regions : multiboot.mmap[k].addr \in Nat /\ multiboot.mmap[k].len \in Nat
  BY <1>2, MultibootTypes
<1>4. \A k \in Regions : FramesOf(k) \in SUBSET Nat
  BY <1>3, RegionFramesNat DEF FramesOf
<1>5. UpperFrames \in SUBSET Nat
  <2>1. multiboot.mem_upper_kb * KIB \in Nat /\ KERNEL_PHYSICAL_START \in Nat
    BY <1>1, PmmSizes
  <2> QED BY <2>1, RegionFramesNat DEF UpperFrames
<1> QED BY <1>2, <1>3, <1>4, <1>5

(* The first loop and the sizing free nothing.                             *)
LEMMA RamSize ==
  ASSUME PmmInv, RamInv, pmm_init_size
  PROVE  RamInv'
<1> DEFINE kb == multiboot.mem_upper_kb
           highest == IF kb = 0 THEN init.highest
                      ELSE pmm_mark_highest(KERNEL_PHYSICAL_START + kb * KIB,
                                            init.highest)
           count == FrameCount(highest)
           bits == 0 .. 8 * ((count + 7) \div 8) - 1
<1>1. /\ pmm' = [bitmap |-> bits, frame_count |-> count, used_count |-> count]
      /\ init' = [init EXCEPT !.step = "regions", !.i = 1, !.highest = highest]
      /\ multiboot' = multiboot
  BY DEF pmm_init_size
<1>2. pmm' \in Allocators /\ PmmTypeOK'
  BY SizePreserves DEF PmmInv, PmmTypeOK, Allocators
<1> HIDE DEF highest
<1>3. pmm'.frame_count = count /\ pmm'.bitmap = bits /\ count \in Nat
  BY <1>1, <1>2, PmmSizes DEF Allocators
<1> HIDE DEF count
<1>4. \A f \in Frames : f < count => f \in bits
  <2>1. count <= 8 * ((count + 7) \div 8)
    BY <1>3
  <2> QED BY <1>3, <2>1 DEF Frames
<1> HIDE DEF bits
<1>5. init'.i = 1 /\ init'.step = "regions" /\ init'.freed_any = init.freed_any
  BY <1>1 DEF PmmInv, PmmTypeOK
<1>6. init.freed_any = FALSE
  BY DEF PmmInv, PmmTypeOK, RamInv, pmm_init_size
<1>7. \A k \in Regions : ~(k < 1)
  BY RegionTypes DEF PmmInv
<1>8. \A f \in Frames : ~IsFree(f)'
  BY <1>3, <1>4 DEF IsFree
<1> QED BY <1>1, <1>5, <1>6, <1>7, <1>8 DEF RamInv, Regions, Usable

(* One region: usable, it frees its frames; else it takes them away.       *)
LEMMA RamRegion ==
  ASSUME PmmInv, RamInv, pmm_init_region
  PROVE  RamInv'
<1> DEFINE i == init.i
           entry == multiboot.mmap[i]
           usable == pmm_region_usable(entry.type)
           F == RegionFrames(entry.addr, entry.len)
<1>1. PmmTypeOK /\ UsedCountExact(pmm) /\ pmm \in Allocators
  BY DEF PmmInv, PmmTypeOK, Allocators
<1>2. i \in Nat \ {0} /\ i \in Regions /\ usable = Usable(i) /\ F = FramesOf(i)
      /\ init.freed_any \in BOOLEAN /\ usable \in BOOLEAN
  BY <1>1, RegionTypes DEF PmmTypeOK, pmm_init_region, Usable, FramesOf, pmm_region_usable
<1>3. F \in SUBSET Nat
  BY <1>1, <1>2, RegionTypes
<1> HIDE DEF F, usable
<1>4. /\ pmm' = pmm_set_used(pmm, F, ~usable) /\ multiboot' = multiboot
      /\ init' = [init EXCEPT !.i = i + 1, !.freed_any = init.freed_any \/ usable]
      /\ init.step = "regions"
  BY DEF pmm_init_region, F, usable
<1>5. init'.step = "regions" /\ init'.i = i + 1
      /\ init'.freed_any = (init.freed_any \/ usable)
  BY <1>1, <1>4 DEF PmmTypeOK
<1>6. /\ pmm'.frame_count = pmm.frame_count
      /\ pmm'.bitmap = IF ~usable THEN pmm.bitmap \cup {f \in F : f < pmm.frame_count}
                       ELSE pmm.bitmap \ {f \in F : f < pmm.frame_count}
  BY <1>1, <1>2, <1>3, <1>4, SetUsedExact
<1>7. \A k \in Regions : k \in Nat /\ (k < i + 1 <=> k < i \/ k = i)
  BY <1>1, <1>2, RegionTypes
<1>8. Regions' = Regions /\ \A k : Usable(k)' = Usable(k) /\ FramesOf(k)' = FramesOf(k)
  BY <1>4 DEF Regions, Usable, FramesOf
<1> HIDE DEF i
<1>9. ASSUME NEW f \in Frames, IsFree(f)' PROVE Seen(i + 1, f)
  <2>1. CASE IsFree(f)
    <3>1. Seen(i, f)
      BY <1>4, <2>1 DEF RamInv, i
    <3> QED BY <1>7, <3>1 DEF Seen
  <2>2. CASE ~IsFree(f)
    <3>1. usable /\ f \in F
      BY <1>2, <1>6, <1>9, <2>2 DEF IsFree
    <3> QED BY <1>2, <1>7, <3>1 DEF Seen
  <2> QED BY <2>1, <2>2
<1>10. (init.freed_any \/ usable) = \E k \in Regions : k < i + 1 /\ Usable(k)
  <2>1. init.freed_any = \E k \in Regions : k < i /\ Usable(k)
    BY <1>4 DEF RamInv, i
  <2> QED BY <1>2, <1>7, <2>1
<1>11. \A f \in Frames : IsFree(f)' => Seen(init.i, f)'
  BY <1>5, <1>8, <1>9 DEF Seen
<1>12. init'.freed_any = \E k \in Regions' : k < init'.i /\ Usable(k)'
  BY <1>5, <1>8, <1>10
<1> QED BY <1>5, <1>11, <1>12 DEF RamInv

(* mem_upper stands in when no region was usable.                          *)
LEMMA RamReserve ==
  ASSUME PmmInv, RamInv, pmm_init_reserve
  PROVE  RamInv'
<1> DEFINE kb == multiboot.mem_upper_kb
           F == UpperFrames
           freed == IF ~init.freed_any /\ kb # 0
                    THEN pmm_set_used(pmm, F, FALSE) ELSE pmm
<1>1. PmmTypeOK /\ UsedCountExact(pmm) /\ pmm \in Allocators /\ F \in SUBSET Nat
  BY RegionTypes DEF PmmInv, PmmTypeOK, Allocators
<1>2. /\ pmm' = pmm_set_used(freed, ReservedFrames, TRUE)
      /\ init' = [init EXCEPT !.step = "ready"] /\ multiboot' = multiboot
      /\ owners' = owners /\ init.step = "regions" /\ init.i > Len(multiboot.mmap)
  BY DEF pmm_init_reserve, UpperFrames
<1> HIDE DEF F
<1>3. /\ freed \in Allocators /\ UsedCountExact(freed)
      /\ freed.frame_count = pmm.frame_count
      /\ freed = pmm \/ (~init.freed_any
                         /\ freed.bitmap = pmm.bitmap \ {f \in F : f < pmm.frame_count})
  <2> DEFINE v == FALSE
             q == pmm_set_used(pmm, F, v)
  <2>1. v \in BOOLEAN
    OBVIOUS
  <2> HIDE DEF v
  <2>2. /\ q \in Allocators /\ UsedCountExact(q) /\ q.frame_count = pmm.frame_count
        /\ q.bitmap = IF v THEN pmm.bitmap \cup {f \in F : f < pmm.frame_count}
                      ELSE pmm.bitmap \ {f \in F : f < pmm.frame_count}
    BY <1>1, <2>1, SetUsedExact, ZenonT(30)
  <2>3. freed = pmm \/ (~init.freed_any /\ freed = q)
    BY DEF v
  <2>4. ~v
    BY DEF v
  <2> HIDE DEF q, freed
  <2> QED BY <1>1, <2>2, <2>3, <2>4
<1> HIDE DEF freed
<1>4. /\ pmm'.frame_count = freed.frame_count
      /\ pmm'.bitmap = freed.bitmap \cup {f \in ReservedFrames : f < freed.frame_count}
  BY <1>2, <1>3, ReservedFramesNat, SetUsedExact
<1>5. init'.step = "ready"
  BY <1>1, <1>2 DEF PmmTypeOK
<1>6. /\ \A f \in Frames : IsFree(f) => Seen(init.i, f)
      /\ init.freed_any = \E k \in Regions : k < init.i /\ Usable(k)
      /\ \A k \in Regions : k < init.i
  <2>1. /\ \A f \in Frames : IsFree(f) => Seen(init.i, f)
        /\ init.freed_any = \E k \in Regions : k < init.i /\ Usable(k)
    BY <1>2 DEF RamInv
  <2>2. init.i \in Nat /\ Len(multiboot.mmap) \in Nat
    BY <1>1 DEF PmmTypeOK
  <2>3. ASSUME NEW k \in Regions PROVE k < init.i
    <3>1. k \in 1 .. Len(multiboot.mmap)
      BY <1>1, <2>3, <2>2 DEF Regions, PmmTypeOK
    <3> QED BY <1>2, <2>2, <3>1
  <2> QED BY <2>1, <2>3
<1>7. \A f \in Frames : owners'[f] = 0
  BY <1>2 DEF PmmInv, NoOwnerBeforeReady
<1>8. ASSUME NEW f \in Frames, IsFree(f)' PROVE Declared(f)
  <2>1. CASE IsFree(f)
    BY <1>6, <2>1 DEF Seen, Declared
  <2>2. CASE ~IsFree(f)
    <3>1. ~init.freed_any /\ f \in F
      BY <1>3, <1>4, <1>8, <2>2 DEF IsFree
    <3> QED BY <1>6, <3>1 DEF Declared, F
  <2> QED BY <2>1, <2>2
<1>9. \A f \in Frames : Declared(f)' = Declared(f)
  BY <1>2 DEF Declared, Regions, Usable, FramesOf, UpperFrames
<1> QED BY <1>5, <1>7, <1>8, <1>9 DEF RamInv

(* A frame taken was free, and a frame returned was taken.                 *)
LEMMA RamClient ==
  ASSUME PmmInv, RamInv,
         \/ ClientAlloc
         \/ \E addr \in 0 .. PMM_MAX_FRAMES * PMM_PAGE_SIZE - 1 : ClientFree(addr)
  PROVE  RamInv'
<1>1. init.step = "ready" /\ init' = init /\ multiboot' = multiboot
  BY DEF ClientAlloc, ClientFree
<1>2. \A f \in Frames : Declared(f)' = Declared(f)
  BY <1>1 DEF Declared, Regions, Usable, FramesOf, UpperFrames
<1>3. \A f \in Frames : IsFree(f)' \/ owners'[f] # 0 => IsFree(f) \/ owners[f] # 0
  <2>1. CASE ClientAlloc
    <3> DEFINE r == pmm_alloc_frame(pmm)
    <3>1. pmm \in Allocators /\ UsedCountExact(pmm) /\ owners \in [Frames -> Nat]
      BY DEF PmmInv, PmmTypeOK, Allocators
    <3>2. /\ pmm' = r.pmm
          /\ owners' = IF r.addr = 0 THEN owners
                       ELSE [owners EXCEPT ![addr_to_frame(r.addr)] = @ + 1]
      BY <2>1 DEF ClientAlloc
    <3>3. CASE Allocatable(pmm) = {}
      BY <3>2, <3>3 DEF pmm_alloc_frame, IsFree
    <3>4. CASE Allocatable(pmm) # {}
      <4>1. PICK g \in Allocatable(pmm) :
              /\ r.addr # 0 /\ addr_to_frame(r.addr) = g
              /\ r.pmm.frame_count = pmm.frame_count /\ r.pmm.bitmap = pmm.bitmap \cup {g}
        BY <3>1, <3>4, AllocFrame
      <4> HIDE DEF r
      <4>2. owners' = [owners EXCEPT ![g] = owners[g] + 1]
        BY <3>2, <4>1
      <4>3. IsFree(g)
        BY <3>1, <4>1 DEF Allocatable, IsFree, Allocators
      <4> QED BY <3>1, <3>2, <4>1, <4>2, <4>3 DEF IsFree
    <3> QED BY <3>3, <3>4
  <2>2. ASSUME NEW addr \in 0 .. PMM_MAX_FRAMES * PMM_PAGE_SIZE - 1, ClientFree(addr)
        PROVE  \A f \in Frames : IsFree(f)' \/ owners'[f] # 0 => IsFree(f) \/ owners[f] # 0
    <3> SUFFICES ASSUME NEW f \in Frames, IsFree(f)' \/ owners'[f] # 0,
                        ~IsFree(f), owners[f] = 0
                 PROVE  FALSE
      OBVIOUS
    <3> DEFINE g == addr_to_frame(addr)
    <3>1. pmm \in Allocators /\ UsedCountExact(pmm) /\ owners \in [Frames -> Nat]
          /\ addr \in Nat
      BY PmmSizes DEF PmmInv, PmmTypeOK, Allocators
    <3>2. pmm' = pmm_free_frame(pmm, addr)
      BY <2>2 DEF ClientFree
    <3>3. CASE addr = 0 \/ addr % PMM_PAGE_SIZE # 0
      BY <2>2, <3>2, <3>3 DEF ClientFree, pmm_free_frame, IsFree
    <3>4. CASE addr # 0 /\ addr % PMM_PAGE_SIZE = 0
      <4>1. owners[g] > 0 /\ owners' = [owners EXCEPT ![g] = owners[g] - 1]
        BY <2>2, <3>4 DEF ClientFree
      <4>2. f # g
        BY <4>1
      <4>3. owners'[f] = owners[f]
        BY <3>1, <4>1, <4>2
      <4>4. pmm' = pmm_set_used(pmm, {g}, FALSE) /\ g \in Nat
        BY <3>1, <3>2, <3>4, PmmSizes, DivBounds DEF pmm_free_frame, addr_to_frame
      <4> DEFINE v == FALSE
      <4>5. v \in BOOLEAN /\ pmm' = pmm_set_used(pmm, {g}, v)
        BY <4>4
      <4> HIDE DEF v, g
      <4>6. /\ pmm'.frame_count = pmm.frame_count
            /\ pmm'.bitmap = IF v THEN pmm.bitmap \cup {n \in {g} : n < pmm.frame_count}
                             ELSE pmm.bitmap \ {n \in {g} : n < pmm.frame_count}
        <5> DEFINE G == {g}
        <5>1. G \in SUBSET Nat /\ pmm' = pmm_set_used(pmm, G, v)
          BY <4>4, <4>5
        <5> HIDE DEF G
        <5> DEFINE q == pmm_set_used(pmm, G, v)
        <5>2. /\ q.frame_count = pmm.frame_count
              /\ q.bitmap = IF v THEN pmm.bitmap \cup {n \in G : n < pmm.frame_count}
                            ELSE pmm.bitmap \ {n \in G : n < pmm.frame_count}
          <6>1. pmm \in Allocators /\ UsedCountExact(pmm) /\ v \in BOOLEAN
                /\ G \in SUBSET Nat
            BY <3>1, <4>5, <5>1
          <6> QED BY ONLY <6>1, SetUsedExact, ZenonT(30)
        <5> QED BY <5>1, <5>2 DEF G
      <4>7. ~v
        BY DEF v
      <4> QED BY <4>2, <4>3, <4>6, <4>7 DEF IsFree
    <3> QED BY <3>3, <3>4
  <2> QED BY <2>1, <2>2
<1> QED BY <1>1, <1>2, <1>3 DEF RamInv

(* Every step keeps track of where free and owned frames come from.        *)
LEMMA RamStep ==
  ASSUME PmmInv, RamInv, [PmmNext]_pmmVars
  PROVE  RamInv'
<1>1. CASE pmm_init_invalid
  <2>1. init.step = "highest" /\ init'.step = "ready" /\ pmm.frame_count = 0
        /\ pmm' = pmm /\ owners' = owners
    BY <1>1 DEF PmmInv, PmmTypeOK, EmptyBeforeSizing, pmm_init_invalid
  <2>2. \A f \in Frames : ~IsFree(f)' /\ owners'[f] = 0
    BY <2>1 DEF IsFree, Frames, PmmInv, NoOwnerBeforeReady
  <2> QED BY <2>1, <2>2 DEF RamInv
<1>2. CASE pmm_init_highest
  <2>1. init'.step = "highest" /\ init'.freed_any = init.freed_any
        /\ init.step = "highest"
    BY <1>2 DEF PmmInv, PmmTypeOK, pmm_init_highest
  <2> QED BY <2>1 DEF RamInv
<1>3. CASE UNCHANGED pmmVars
  BY <1>3 DEF pmmVars, RamInv, IsFree, Seen, Declared, Regions, Usable, FramesOf,
              UpperFrames
<1> QED BY <1>1, <1>2, <1>3, RamSize, RamRegion, RamReserve, RamClient DEF PmmNext

(* The bytes of a frame of an aligned region are bytes of the region.      *)
LEMMA FrameInRegion ==
  ASSUME NEW addr \in Nat, NEW len \in Nat, addr % PMM_PAGE_SIZE = 0,
         len % PMM_PAGE_SIZE = 0, addr < U32, NEW f \in RegionFrames(addr, len)
  PROVE  f * PMM_PAGE_SIZE .. (f + 1) * PMM_PAGE_SIZE - 1 \subseteq addr .. addr + len - 1
<1> DEFINE S == PMM_PAGE_SIZE
           end == (addr + len) % U64
           last == (end - 1) % U32
<1>1. /\ S \in Nat \ {0} /\ U32 \in Nat \ {0} /\ U64 \in Nat \ {0}
  BY PmmSizes
<1>2. /\ end \in Nat /\ end <= addr + len
  <2>1. addr + len \in Nat
    OBVIOUS
  <2> DEFINE x == addr + len
  <2> HIDE DEF x
  <2>2. x \in Nat => x % U64 \in Nat /\ x % U64 <= x
    <3>1. CASE x \in Nat
      <4>1. x % U64 \in 0 .. U64 - 1 /\ x = U64 * (x \div U64) + (x % U64) /\ x \div U64 \in Nat
        BY <1>1, <3>1, DivMod, DivBounds
      <4>2. U64 * (x \div U64) \in Nat
        BY <1>1, <4>1
      <4> QED BY <1>1, <3>1, <4>1, <4>2
    <3> QED BY <3>1
  <2> QED BY <2>1, <2>2 DEF x
<1>3. addr % U32 = addr
  BY <1>1
<1>4. region_start_frame(addr) = addr \div S
  BY <1>3 DEF region_start_frame, addr_to_frame
<1> HIDE DEF end
<1>5. end # 0 /\ f \in addr \div S .. last \div S
  <2>1. region_end_frame(addr, len) = IF end = 0 THEN 0 ELSE last \div S + 1
    BY DEF region_end_frame, addr_to_frame, end
  <2>2. addr \div S \in Nat
    BY <1>1, DivBounds
  <2>3. f \in addr \div S .. region_end_frame(addr, len) - 1
    BY <1>4 DEF RegionFrames
  <2>4. end # 0
    BY <2>1, <2>2, <2>3
  <2>5. last \in Nat
    BY <1>1, <1>2, <2>4
  <2>6. last \div S \in Nat
    BY <1>1, <2>5, DivBounds
  <2> HIDE DEF last
  <2> QED BY <2>1, <2>2, <2>3, <2>4, <2>6
<1>6. last \in Nat /\ last <= end - 1
  <2> DEFINE y == end - 1
  <2>1. y \in Nat
    BY <1>2, <1>5
  <2> HIDE DEF y
  <2>2. y % U32 \in 0 .. U32 - 1 /\ y = U32 * (y \div U32) + (y % U32) /\ y \div U32 \in Nat
    BY <1>1, <2>1, DivMod, DivBounds
  <2>3. U32 * (y \div U32) \in Nat
    BY <1>1, <2>2
  <2>4. y % U32 \in Nat /\ y % U32 <= y
    BY <1>1, <2>1, <2>2, <2>3
  <2> QED BY <2>4 DEF y
<1> HIDE DEF last
<1>7. /\ addr \div S \in Nat /\ addr = (addr \div S) * S
      /\ last \div S \in Nat /\ (last \div S) * S <= last
  BY <1>1, <1>6, DivBounds, NoRemainder
<1> DEFINE a == addr \div S
           l == last \div S
<1> HIDE DEF a, l
<1>8. a \in Nat /\ addr = a * S /\ l \in Nat /\ l * S <= last /\ f \in a .. l
  BY <1>5, <1>7 DEF a, l
<1>9. f \in Nat /\ a <= f /\ f <= l
  BY <1>8
<1>10. addr <= f * S /\ f * S <= l * S /\ f * S \in Nat
  BY <1>1, <1>8, <1>9
<1>11. f * S < addr + len
  <2> DEFINE b == f * S
             m == l * S
             t == addr + len
  <2>1. b \in Nat /\ m \in Nat /\ t \in Nat /\ b <= m /\ m <= last /\ end <= t
    BY <1>1, <1>2, <1>8, <1>10
  <2> HIDE DEF b, m, t
  <2>2. b < t
    BY <1>2, <1>5, <1>6, <2>1
  <2> QED BY <2>2 DEF b, t
<1>12. (f * S) % S = 0 /\ (addr + len) % S = 0
  <2>1. (f * S) % S = 0
    BY <1>1, <1>9, Multiple
  <2>2. (addr + len) % S = 0
    BY <1>1, MultipleSum
  <2> QED BY <2>1, <2>2
<1>13. f * S + S <= addr + len
  <2> DEFINE x == f * S
             y == addr + len
  <2>1. x \in Nat /\ y \in Nat /\ x < y /\ x % S = 0 /\ y % S = 0
    BY <1>10, <1>11, <1>12
  <2> HIDE DEF x, y
  <2>2. x + S <= y
    BY <1>1, <2>1, MultipleGap
  <2> QED BY <2>2 DEF x, y
<1>14. (f + 1) * S = f * S + S
  BY <1>1, <1>9
<1> DEFINE b == f * S
<1>15. b \in Nat /\ addr <= b /\ b + S <= addr + len /\ (f + 1) * S = b + S
  BY <1>10, <1>13, <1>14
<1> HIDE DEF b
<1>16. b .. (b + S) - 1 \subseteq addr .. addr + len - 1
  BY <1>1, <1>15
<1> QED BY <1>15, <1>16 DEF b

(* Every step preserves the invariant.                                     *)
LEMMA PmmStep ==
  ASSUME PmmInv, [PmmNext]_pmmVars
  PROVE  PmmInv'
<1>1. CASE \E addr \in 0 .. PMM_MAX_FRAMES * PMM_PAGE_SIZE - 1 : ClientFree(addr)
  <2>1. PICK addr \in 0 .. PMM_MAX_FRAMES * PMM_PAGE_SIZE - 1 : ClientFree(addr)
    BY <1>1
  <2>2. addr \in Nat /\ addr < PMM_MAX_FRAMES * PMM_PAGE_SIZE
    BY <2>1, PmmSizes
  <2> QED BY <2>1, <2>2, FreePreserves
<1>2. CASE UNCHANGED pmmVars
  BY <1>2 DEF pmmVars, PmmInv, PmmTypeOK, EmptyBeforeSizing, UsedCountExact, Known,
              NoOwnerBeforeReady, ReservedMarked, OwnedMarked
<1> QED BY <1>1, <1>2, InvalidPreserves, HighestPreserves, SizePreserves,
           RegionPreserves, ReservePreserves, AllocPreserves DEF PmmNext

(***************************************************************************)
(* The theorems.                                                           *)
(***************************************************************************)
(* PmmInv holds in every state of the allocator of pmm.c, from the first   *)
(* loop of pmm_init through every sequence of allocations and frees.       *)
THEOREM PmmInvariant == PmmSpec => []PmmInv
<1>1. PmmInit => PmmInv
  BY PmmInitEstablishes
<1>2. PmmInv /\ [PmmNext]_pmmVars => PmmInv'
  BY PmmStep
<1> QED BY <1>1, <1>2, PTL DEF PmmSpec

(* The statics of pmm.c keep their types: the bitmap's bits and both       *)
(* counters stay within PMM_MAX_FRAMES.                                    *)
THEOREM PmmTypes == PmmSpec => []PmmTypeOK
<1>1. PmmInv => PmmTypeOK
  BY DEF PmmInv
<1> QED BY <1>1, PmmInvariant, PTL

(* Once pmm_init is done, pmm_free_frames() is the number of allocations   *)
(* that will still succeed.                                                *)
THEOREM PmmFreeCount == PmmSpec => []FreeCountIsAllocatable
<1>1. PmmInv => FreeCountIsAllocatable
  <2> SUFFICES ASSUME PmmInv, init.step = "ready"
               PROVE  pmm_free_frames(pmm) = Cardinality(Allocatable(pmm))
    BY DEF FreeCountIsAllocatable
  <2> DEFINE n == pmm.frame_count
             D == 0 .. n - 1
             A == pmm.bitmap \cap D
  <2>1. n \in Nat /\ pmm.used_count = Cardinality(A)
    BY PmmSizes DEF PmmInv, PmmTypeOK, UsedCountExact, Known
  <2>2. IsFiniteSet(D) /\ Cardinality(D) = n
    BY <2>1, IntervalCard
  <2>3. IsFiniteSet(A) /\ Cardinality(A) <= Cardinality(D) /\ Cardinality(A) \in Nat
    <3>1. A \in SUBSET D
      OBVIOUS
    <3> QED BY <2>2, <3>1, FS_Subset, FS_CardinalityType
  <2>4. D \cap A = A
    OBVIOUS
  <2>5. Cardinality(D \ A) = Cardinality(D) - Cardinality(D \cap A)
    BY <2>2, FS_Difference
  <2>6. Allocatable(pmm) = D \ A
    <3>1. 0 < n => 0 \in pmm.bitmap
      BY DEF PmmInv, ReservedMarked, ReservedFrames
    <3>2. ASSUME NEW f PROVE f \in Allocatable(pmm) <=> f \in D \ A
      BY <2>1, <3>1 DEF Allocatable
    <3> QED BY <3>2
  <2>7. pmm_free_frames(pmm) = n - Cardinality(A)
    BY <2>1, <2>2, <2>3 DEF pmm_free_frames
  <2> HIDE DEF D, A, n
  <2> QED BY <2>2, <2>4, <2>5, <2>6, <2>7
<1> QED BY <1>1, PmmInvariant, PTL

(* No frame has two owners, and an owned frame is marked used.             *)
THEOREM PmmExclusive == PmmSpec => []ExclusiveOwnership
<1>1. PmmInv => ExclusiveOwnership
  BY DEF PmmInv, OwnedMarked, ExclusiveOwnership
<1> QED BY <1>1, PmmInvariant, PTL

(* No frame of the kernel image, and not frame 0, is ever handed out,      *)
(* whatever memory map the boot loader passed.                             *)
THEOREM PmmKernelSafe == PmmSpec => []KernelNeverHandedOut
<1>1. PmmInv => KernelNeverHandedOut
  BY KernelReserved DEF PmmInv, OwnedMarked, KernelNeverHandedOut
<1> QED BY <1>1, PmmInvariant, PTL

(* Once pmm_init is done, a bit of the bitmap changes exactly when the     *)
(* owner of its frame does.                                                *)
THEOREM PmmBitmapFollows == PmmSpec => BitmapFollowsOwners
<1> DEFINE Follows == init.step = "ready" =>
      \A f \in Frames : (f \in pmm.bitmap) # (f \in pmm'.bitmap)
                          <=> owners'[f] # owners[f]
<1>1. PmmInv /\ [PmmNext]_pmmVars => [Follows]_pmmVars
  <2> SUFFICES ASSUME PmmInv, PmmNext, init.step = "ready", NEW g \in Frames
               PROVE  (g \in pmm.bitmap) # (g \in pmm'.bitmap) <=> owners'[g] # owners[g]
    OBVIOUS
  <2>1. PmmTypeOK /\ UsedCountExact(pmm) /\ pmm \in Allocators /\ owners \in [Frames -> Nat]
    BY DEF PmmInv, PmmTypeOK, Allocators
  <2>2. CASE ClientAlloc /\ Allocatable(pmm) = {}
    BY <2>2 DEF ClientAlloc, pmm_alloc_frame
  <2>3. CASE ClientAlloc /\ Allocatable(pmm) # {}
    <3> DEFINE r == pmm_alloc_frame(pmm)
    <3>1. PICK f \in Allocatable(pmm) :
            /\ r.addr # 0 /\ addr_to_frame(r.addr) = f
            /\ r.pmm.bitmap = pmm.bitmap \cup {f}
      BY <2>1, <2>3, AllocFrame
    <3>2. pmm' = r.pmm /\ owners' = [owners EXCEPT ![f] = owners[f] + 1]
      BY <2>3, <3>1 DEF ClientAlloc
    <3>3. f \notin pmm.bitmap
      BY DEF Allocatable
    <3> HIDE DEF r
    <3> QED BY <2>1, <3>1, <3>2, <3>3
  <2>4. ASSUME NEW addr \in 0 .. PMM_MAX_FRAMES * PMM_PAGE_SIZE - 1, ClientFree(addr)
        PROVE  (g \in pmm.bitmap) # (g \in pmm'.bitmap) <=> owners'[g] # owners[g]
    <3> DEFINE f == addr_to_frame(addr)
    <3>1. CASE addr = 0 \/ addr % PMM_PAGE_SIZE # 0
      BY <2>4, <3>1 DEF ClientFree, pmm_free_frame
    <3>2. CASE addr # 0 /\ addr % PMM_PAGE_SIZE = 0
      <4>1. owners[f] > 0 /\ owners' = [owners EXCEPT ![f] = owners[f] - 1]
        BY <2>4, <3>2 DEF ClientFree
      <4>2. addr \in Nat
        BY PmmSizes
      <4>3. CASE f \in Frames
        <5>1. f \in pmm.bitmap /\ f < pmm.frame_count /\ owners[f] \in Nat
          BY <2>1, <4>1, <4>3 DEF PmmInv, OwnedMarked
        <5>2. pmm'.bitmap = pmm.bitmap \ {f}
          BY <2>1, <2>4, <3>2, <4>2, <5>1, FreeFrame DEF ClientFree
        <5> HIDE DEF f
        <5> QED BY <2>1, <4>1, <4>3, <5>1, <5>2
      <4>4. f \in Frames
        <5>1. f \in Nat /\ f * PMM_PAGE_SIZE <= addr /\ addr < PMM_MAX_FRAMES * PMM_PAGE_SIZE
          BY <4>2, PmmSizes, DivBounds DEF addr_to_frame
        <5> HIDE DEF f
        <5>2. CASE PMM_MAX_FRAMES <= f
          <6>1. PMM_MAX_FRAMES * PMM_PAGE_SIZE <= f * PMM_PAGE_SIZE
            BY <5>1, <5>2, PmmSizes
          <6> QED BY <4>2, <5>1, <6>1, PmmSizes
        <5> QED BY <5>1, <5>2, PmmSizes DEF Frames
      <4> QED BY <4>3, <4>4
    <3> QED BY <3>1, <3>2
  <2>5. ClientAlloc \/ \E addr \in 0 .. PMM_MAX_FRAMES * PMM_PAGE_SIZE - 1 : ClientFree(addr)
    BY DEF PmmNext, pmm_init_invalid, pmm_init_highest, pmm_init_size,
           pmm_init_region, pmm_init_reserve
  <2> QED BY <2>2, <2>3, <2>4, <2>5
<1> QED BY <1>1, PmmInvariant, PTL DEF PmmSpec, BitmapFollowsOwners

(* A frame somebody owns lies in memory that was declared usable.          *)
LEMMA OwnedIsRam == PmmInv /\ RamInv => HandedOutIsRam
<1> SUFFICES ASSUME PmmInv, RamInv, PageAligned(multiboot.mmap),
                    EndsBelow(multiboot.mmap, U32), WholePages(multiboot.mem_upper_kb),
                    NEW f \in Frames, owners[f] # 0
             PROVE  f * PMM_PAGE_SIZE .. (f + 1) * PMM_PAGE_SIZE - 1
                      \subseteq UsableRam(multiboot.mmap, multiboot.mem_upper_kb)
  BY DEF HandedOutIsRam
<1>1. Declared(f)
  BY DEF RamInv, PmmInv, NoOwnerBeforeReady
<1> DEFINE mmap == multiboot.mmap
           ram == UsableRam(mmap, multiboot.mem_upper_kb)
           bytes == f * PMM_PAGE_SIZE .. (f + 1) * PMM_PAGE_SIZE - 1
<1>2. CASE \E k \in Regions : Usable(k) /\ f \in FramesOf(k)
  <2>1. PICK k \in Regions : Usable(k) /\ f \in FramesOf(k)
    BY <1>2
  <2>2. /\ mmap[k].addr \in Nat /\ mmap[k].len \in Nat
        /\ mmap[k].addr % PMM_PAGE_SIZE = 0 /\ mmap[k].len % PMM_PAGE_SIZE = 0
        /\ mmap[k].addr + mmap[k].len < U32
    BY <2>1, RegionTypes DEF PmmInv, PageAligned, EndsBelow, Regions
  <2>3. mmap[k].addr < U32
    BY <2>2, PmmSizes
  <2>4. bytes \subseteq mmap[k].addr .. mmap[k].addr + mmap[k].len - 1
    BY <2>1, <2>2, <2>3, FrameInRegion DEF FramesOf
  <2> HIDE DEF bytes
  <2>5. k \in DOMAIN mmap /\ mmap[k].type \in {1, 3}
    BY <2>1 DEF Regions, Usable, pmm_region_usable
  <2>6. mmap[k].addr .. mmap[k].addr + mmap[k].len - 1 \subseteq ram
    <3> HIDE DEF mmap
    <3> QED BY <2>5 DEF UsableRam
  <2> QED BY <2>4, <2>6 DEF bytes
<1>3. CASE (\A k \in Regions : ~Usable(k)) /\ f \in UpperFrames
  <2> DEFINE start == KERNEL_PHYSICAL_START
             len == multiboot.mem_upper_kb * KIB
  <2>1. multiboot.mem_upper_kb \in Nat /\ KIB \in Nat
    BY MultibootTypes, PmmSizes DEF PmmInv
  <2>2. len \in Nat /\ len % PMM_PAGE_SIZE = 0
    BY <2>1 DEF WholePages
  <2>3. start \in Nat /\ start % PMM_PAGE_SIZE = 0 /\ start < U32
    BY PmmSizes
  <2>4. f \in RegionFrames(start, len)
    BY <1>3 DEF UpperFrames
  <2>5. {k \in DOMAIN mmap : mmap[k].type \in {1, 3}} = {}
    BY <1>3 DEF Regions, Usable, pmm_region_usable
  <2>6. ram = start .. start + len - 1
    BY <2>5 DEF UsableRam
  <2> HIDE DEF start, len, ram
  <2>7. bytes \subseteq start .. start + len - 1
    BY <2>2, <2>3, <2>4, FrameInRegion
  <2> QED BY <2>6, <2>7 DEF ram
<1> QED BY <1>1, <1>2, <1>3 DEF Declared


(* Every byte of a frame handed out lies in memory the map declares        *)
(* usable, for every page-aligned map below 4 GiB, overlapping regions and *)
(* the mem_upper fallback included.                                        *)
THEOREM PmmHandsOutRam == PmmSpec => []HandedOutIsRam
<1>1. PmmInit => RamInv
  BY DEF PmmInit, PmmStatics, RamInv
<1>2. PmmInv /\ RamInv /\ [PmmNext]_pmmVars => RamInv'
  BY RamStep
<1>3. PmmInv /\ RamInv => HandedOutIsRam
  BY OwnedIsRam
<1> QED BY <1>1, <1>2, <1>3, PmmInvariant, PTL DEF PmmSpec
=============================================================================
