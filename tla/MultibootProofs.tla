-------------------------- MODULE MultibootProofs --------------------------
(***************************************************************************)
(* Theorems about Multiboot, for every boot loader, storage size, page     *)
(* size and limit of the identity map: the walk over the memory map stays  *)
(* within its storage whatever it reads, copies the map of a loader that   *)
(* announced every field, and the frames handed out later are that         *)
(* loader's memory.                                                        *)
(***************************************************************************)
EXTENDS Multiboot, PmmProofs

(***************************************************************************)
(* The inductive invariant.                                                *)
(***************************************************************************)
(* The locals of multiboot_early_init and what it stored so far.           *)
StorageInv ==
  /\ boot \in [pc : {"start", "walk", "return", "kernel", "reset"},
               mmap_addr : Nat, mmap_length : Nat, offset : 0 .. U32 - 1]
  /\ Len(multiboot.mmap) <= MAX_MMAP_ENTRIES
  /\ multiboot.valid => multiboot.mmap # <<>>

(* pmm_init has not begun before boot.S enters the kernel.                 *)
KernelInv ==
  /\ PmmInv /\ RamInv
  /\ boot.pc # "kernel" => PmmStatics

(* The entries stored are the loader's, from the first.                    *)
Copied ==
  /\ Len(multiboot.mmap) <= Len(loader.mmap)
  /\ \A j \in 1 .. Len(multiboot.mmap) : multiboot.mmap[j] = loader.mmap[j]

AllCopied ==
  \/ Len(multiboot.mmap) = Len(loader.mmap)
  \/ Len(multiboot.mmap) = MAX_MMAP_ENTRIES

(* For a loader that announced everything, the walk stands at the entry    *)
(* after the last one stored.                                              *)
WalkInv ==
  MapGiven /\ AllFieldsGiven =>
    /\ boot.pc # "reset"
    /\ boot.pc # "start" => Copied /\ multiboot.mem_upper_kb = loader.mem_upper
    /\ boot.pc = "walk" =>
         /\ boot.mmap_addr = loader.mmap_addr
         /\ boot.mmap_length = Len(loader.mmap) * EntryBytes(loader)
         /\ boot.offset = Len(multiboot.mmap) * EntryBytes(loader)
    /\ boot.pc \in {"return", "kernel"} =>
         AllCopied /\ multiboot.valid = (multiboot.mmap # <<>>)

BootInv == loader \in Loaders /\ StorageInv /\ KernelInv /\ WalkInv

(* Two sequences with the same elements are equal.                         *)
LEMMA SeqEqual ==
  ASSUME NEW S, NEW s \in Seq(S), NEW t \in Seq(S), Len(s) = Len(t),
         \A j \in 1 .. Len(s) : s[j] = t[j]
  PROVE  s = t
OBVIOUS

(* The first n elements of a sequence.                                     *)
LEMMA Prefix ==
  ASSUME NEW S, NEW s \in Seq(S), NEW n \in Nat, n <= Len(s)
  PROVE  /\ SubSeq(s, 1, n) \in Seq(S) /\ Len(SubSeq(s, 1, n)) = n
         /\ \A j \in 1 .. n : SubSeq(s, 1, n)[j] = s[j]
OBVIOUS

(***************************************************************************)
(* The loader's memory.                                                    *)
(***************************************************************************)
(* What MultibootSizes says of one loader.                                 *)
LEMMA LoaderTypes ==
  ASSUME NEW l \in Loaders
  PROVE  /\ l.info \in 0 .. U32 - 1 /\ l.mmap_addr \in 0 .. U32 - 1
         /\ l.entry_size \in 0 .. U32 - 1 /\ l.flags \in 0 .. U32 - 1
         /\ l.mem_upper \in 0 .. U32 - 1 /\ l.other \in 0 .. U32 - 1
         /\ EntryBytes(l) \in Nat /\ EntryBytes(l) >= 24
         /\ EntryBytes(l) = l.entry_size + 4
         /\ Len(l.mmap) \in Nat /\ DOMAIN l.mmap = 1 .. Len(l.mmap)
         /\ l.mmap \in Seq([addr : 0 .. U64 - 1, len : 0 .. U64 - 1, type : 0 .. U32 - 1])
         /\ \A k \in 1 .. Len(l.mmap) :
              /\ l.mmap[k].addr \in Nat /\ l.mmap[k].len \in Nat /\ l.mmap[k].type \in Nat
              /\ l.mmap[k] = [addr |-> l.mmap[k].addr, len |-> l.mmap[k].len,
                              type |-> l.mmap[k].type]
<1> DEFINE E == [addr : 0 .. U64 - 1, len : 0 .. U64 - 1, type : 0 .. U32 - 1]
<1>1. {l.info, l.mmap_addr, l.entry_size, l.flags, l.mem_upper, l.other} \subseteq 0 .. U32 - 1
      /\ l.entry_size >= 20 /\ l.mmap \in Seq(E)
  BY MultibootSizes
<1>2. U32 \in Nat /\ U64 \in Nat
  BY PmmSizes
<1>3. EntryBytes(l) \in Nat /\ EntryBytes(l) >= 24
  BY <1>1, <1>2 DEF EntryBytes
<1>4. ASSUME NEW k \in 1 .. Len(l.mmap) PROVE l.mmap[k] \in E
  BY <1>1, <1>4, SeqElement
<1>5. \A e \in E : e.addr \in Nat /\ e.len \in Nat /\ e.type \in Nat
                   /\ e = [addr |-> e.addr, len |-> e.len, type |-> e.type]
  BY <1>2
<1>6. Len(l.mmap) \in Nat /\ DOMAIN l.mmap = 1 .. Len(l.mmap)
  BY <1>1
<1>7. EntryBytes(l) = l.entry_size + 4
  BY DEF EntryBytes
<1> HIDE DEF E
<1>8. \A k \in 1 .. Len(l.mmap) :
        /\ l.mmap[k].addr \in Nat /\ l.mmap[k].len \in Nat /\ l.mmap[k].type \in Nat
        /\ l.mmap[k] = [addr |-> l.mmap[k].addr, len |-> l.mmap[k].len,
                        type |-> l.mmap[k].type]
  BY <1>4, <1>5
<1> QED BY <1>1, <1>3, <1>6, <1>7, <1>8 DEF E

(* The sizes of the machine.                                               *)
LEMMA MachineSizes ==
  /\ U32 \in Nat \ {0} /\ PMM_PAGE_SIZE \in Nat \ {0} /\ PMM_PAGE_SIZE >= 4
  /\ IDENTITY_MAP_LIMIT \in Nat /\ PMM_PAGE_SIZE <= IDENTITY_MAP_LIMIT
  /\ IDENTITY_MAP_LIMIT <= U32 /\ MAX_MMAP_ENTRIES \in Nat \ {0}
BY PmmSizes, MultibootSizes

(* The numbers of a loader.                                                *)
LEMMA LoaderNumbers ==
  ASSUME NEW l \in Loaders
  PROVE  /\ l.info \in Nat /\ l.mmap_addr \in Nat /\ l.entry_size \in Nat
         /\ EntryBytes(l) \in Nat /\ EntryBytes(l) >= 24 /\ Len(l.mmap) \in Nat
         /\ Len(l.mmap) * EntryBytes(l) \in Nat
<1>1. /\ l.info \in Nat /\ l.mmap_addr \in Nat /\ l.entry_size \in Nat
      /\ EntryBytes(l) \in Nat /\ EntryBytes(l) >= 24 /\ Len(l.mmap) \in Nat
  BY LoaderTypes, MachineSizes
<1> QED BY <1>1

(* The words of the k-th entry of the loader's map.                        *)
EntryWords(l, k) ==
  <<l.entry_size, l.mmap[k].addr % U32, l.mmap[k].addr \div U32,
    l.mmap[k].len % U32, l.mmap[k].len \div U32, l.mmap[k].type>>

(* Each of them is a natural number.                                       *)
LEMMA EntryWordsNat ==
  ASSUME NEW l \in Loaders, NEW k \in 1 .. Len(l.mmap), NEW f \in 1 .. 6
  PROVE  EntryWords(l, k)[f] \in Nat
<1> DEFINE n == Len(l.mmap)
<1>0. /\ n \in Nat /\ U32 \in Nat \ {0} /\ l.entry_size \in 0 .. U32 - 1
      /\ \A j \in 1 .. n :
           l.mmap[j].addr \in Nat /\ l.mmap[j].len \in Nat /\ l.mmap[j].type \in Nat
  BY LoaderTypes, PmmSizes
<1> DEFINE addr == l.mmap[k].addr
           len == l.mmap[k].len
           type == l.mmap[k].type
<1>1. addr \in Nat /\ len \in Nat /\ type \in Nat /\ l.entry_size \in Nat
  BY <1>0
<1> HIDE DEF addr, len, type, n
<1>2. /\ addr % U32 \in Nat /\ addr \div U32 \in Nat
      /\ len % U32 \in Nat /\ len \div U32 \in Nat
  <2>1. \A m \in Nat : m % U32 \in Nat /\ m \div U32 \in Nat
    BY <1>0
  <2> QED BY <1>1, <2>1
<1> DEFINE ws == <<l.entry_size, addr % U32, addr \div U32, len % U32, len \div U32, type>>
<1>3. ws[1] \in Nat /\ ws[2] \in Nat /\ ws[3] \in Nat /\ ws[4] \in Nat /\ ws[5] \in Nat
      /\ ws[6] \in Nat
  BY <1>1, <1>2
<1>4. f = 1 \/ f = 2 \/ f = 3 \/ f = 4 \/ f = 5 \/ f = 6
  OBVIOUS
<1>5. EntryWords(l, k) = ws
  BY DEF EntryWords, addr, len, type
<1> HIDE DEF ws
<1> QED BY <1>3, <1>4, <1>5

(* Every word the walk can read is a natural number.                       *)
LEMMA WordNat ==
  ASSUME NEW l \in Loaders, NEW a \in Nat
  PROVE  Word(l, a) \in Nat
<1> DEFINE x == a - l.mmap_addr
           k == x \div EntryBytes(l) + 1
           field == (x % EntryBytes(l)) \div 4 + 1
           listed == k \in DOMAIN l.mmap /\ field <= 6
<1>1. x \in Int /\ EntryBytes(l) \in Nat \ {0}
  BY LoaderTypes, PmmSizes
<1> HIDE DEF x
<1>2. x % EntryBytes(l) \in Nat
  BY <1>1
<1>3. field \in Nat \ {0}
  BY <1>2
<1>4. listed => EntryWords(l, k)[field] \in Nat
  <2> HIDE DEF k, field
  <2>1. DOMAIN l.mmap = 1 .. Len(l.mmap)
    BY LoaderTypes
  <2>2. listed => k \in 1 .. Len(l.mmap) /\ field \in 1 .. 6
    BY <1>3, <2>1
  <2>3. \A i \in 1 .. Len(l.mmap), f \in 1 .. 6 : EntryWords(l, i)[f] \in Nat
    BY EntryWordsNat
  <2> HIDE DEF listed
  <2> QED BY ONLY <2>2, <2>3
<1>5. Len(l.mmap) * EntryBytes(l) \in Nat
  BY LoaderTypes
<1>6. /\ l.other \in Nat /\ l.flags \in Nat /\ l.mem_upper \in Nat /\ l.mmap_addr \in Nat
  BY LoaderTypes, PmmSizes
<1>7. Word(l, a) = IF InVgaPage(a) THEN l.other ELSE
                   CASE a = l.info      -> l.flags
                     [] a = l.info + 8  -> l.mem_upper
                     [] a = l.info + 44 -> Len(l.mmap) * EntryBytes(l)
                     [] a = l.info + 48 -> l.mmap_addr
                     [] listed -> EntryWords(l, k)[field]
                     [] OTHER -> l.other
  BY DEF Word, EntryWords, x
<1> HIDE DEF k, field, listed
<1> QED BY <1>4, <1>5, <1>6, <1>7

(* Quotient and remainder of a multiple and less than one more.            *)
LEMMA DivUnique ==
  ASSUME NEW q \in Nat, NEW r \in Nat, NEW p \in Nat \ {0}, r < p
  PROVE  (q * p + r) \div p = q /\ (q * p + r) % p = r
<1> DEFINE b == q * p
           x == b + r
<1>1. b \in Nat /\ x \in Nat
  OBVIOUS
<1> DEFINE d == x \div p
<1>2. d \in Nat /\ x = p * d + (x % p) /\ x % p \in 0 .. p - 1
  BY <1>1, DivMod, DivBounds
<1> HIDE DEF d, x
<1>3. d = q
  <2>1. CASE d <= q - 1
    <3>1. p * d <= p * (q - 1) /\ p * (q - 1) = b - p /\ p * d \in Int
      BY <1>2, <2>1
    <3> QED BY <1>1, <1>2, <3>1 DEF x
  <2>2. CASE d >= q + 1
    <3>1. p * d >= p * (q + 1) /\ p * (q + 1) = b + p /\ p * d \in Int
      BY <1>2, <2>2
    <3> QED BY <1>1, <1>2, <3>1 DEF x
  <2> QED BY <1>2, <2>1, <2>2
<1>4. p * d = b
  BY <1>3
<1>5. x % p = r
  BY <1>1, <1>2, <1>4 DEF x
<1> QED BY <1>3, <1>5 DEF d, x

(* The low and the high word make up the whole again.                      *)
LEMMA LowAndHigh ==
  ASSUME NEW m \in Nat, NEW p \in Nat \ {0}
  PROVE  (m % p) + p * (m \div p) = m
<1>1. m % p \in Nat /\ m = p * (m \div p) + (m % p) /\ m \div p \in Nat
  BY DivMod, DivBounds
<1> DEFINE x == p * (m \div p)
<1>2. x \in Nat
  BY <1>1
<1> HIDE DEF x
<1> QED BY <1>1, <1>2 DEF x

(* A word of the k-th entry, read where nothing covers it.                 *)
LEMMA WordOfEntry ==
  ASSUME NEW l \in Loaders, NEW k \in 1 .. Len(l.mmap), NEW j \in 0 .. 5, NEW a \in Nat,
         a = l.mmap_addr + ((k - 1) * EntryBytes(l) + 4 * j), ~InVgaPage(a),
         a # l.info, a # l.info + 8, a # l.info + 44, a # l.info + 48
  PROVE  Word(l, a) = EntryWords(l, k)[j + 1]
<1> DEFINE E == EntryBytes(l)
           x == a - l.mmap_addr
           q == k - 1
           r == 4 * j
           kk == x \div E + 1
           field == (x % E) \div 4 + 1
           listed == kk \in DOMAIN l.mmap /\ field <= 6
<1>1. /\ E \in Nat \ {0} /\ E >= 24 /\ l.mmap_addr \in Nat
      /\ DOMAIN l.mmap = 1 .. Len(l.mmap) /\ Len(l.mmap) \in Nat
  BY LoaderTypes, PmmSizes
<1>2. q \in Nat /\ r \in Nat /\ r < E /\ k = q + 1
  BY <1>1
<1>3. x = q * E + r
  <2> DEFINE b == (k - 1) * E
  <2>1. b \in Nat /\ a = l.mmap_addr + (b + r) /\ b = q * E
    <3>1. a = l.mmap_addr + (b + r) /\ b = q * E
      OBVIOUS
    <3>2. q * E \in Nat
      <4> HIDE DEF E, q
      <4> QED BY <1>1, <1>2
    <3> HIDE DEF b, E, q, r
    <3> QED BY ONLY <3>1, <3>2
  <2>2. a \in Nat /\ r \in Nat /\ l.mmap_addr \in Nat
    BY <1>1, <1>2
  <2> HIDE DEF b, q, r, E
  <2>3. a - l.mmap_addr = b + r
    BY ONLY <2>1, <2>2
  <2> QED BY <2>1, <2>3
<1> HIDE DEF E, x, q
<1>4. x \div E = q /\ x % E = r
  BY <1>1, <1>2, <1>3, DivUnique
<1>5. field = j + 1
  BY <1>4
<1>6. kk = k /\ listed
  BY <1>1, <1>2, <1>4, <1>5
<1>7. Word(l, a) = CASE InVgaPage(a)    -> l.other
                     [] a = l.info      -> l.flags
                     [] a = l.info + 8  -> l.mem_upper
                     [] a = l.info + 44 -> Len(l.mmap) * EntryBytes(l)
                     [] a = l.info + 48 -> l.mmap_addr
                     [] listed -> EntryWords(l, kk)[field]
                     [] OTHER -> l.other
  BY DEF Word, EntryWords, x, E
<1> HIDE DEF kk, field, listed
<1> QED BY <1>5, <1>6, <1>7

(* The structure and the map of loader l do not overlap.                   *)
Apart(l) ==
  \/ l.info + 52 <= l.mmap_addr
  \/ l.mmap_addr + Len(l.mmap) * EntryBytes(l) <= l.info

(* An address outside the map belongs to none of its entries.              *)
LEMMA OutsideMap ==
  ASSUME NEW l \in Loaders, NEW a \in Nat,
         a < l.mmap_addr \/ l.mmap_addr + Len(l.mmap) * EntryBytes(l) <= a
  PROVE  (a - l.mmap_addr) \div EntryBytes(l) + 1 \notin DOMAIN l.mmap
<1> DEFINE E == EntryBytes(l)
           n == Len(l.mmap)
           x == a - l.mmap_addr
           d == x \div E
<1>1. /\ E \in Nat \ {0} /\ l.mmap_addr \in Nat /\ n \in Nat /\ DOMAIN l.mmap = 1 .. n
  BY LoaderTypes, PmmSizes
<1> DEFINE m == n * E
<1>2. m \in Nat /\ x \in Int /\ (x < 0 \/ m <= x)
  BY <1>1
<1> HIDE DEF x, n, E
<1>3. d \in Int /\ x = E * d + (x % E) /\ x % E \in 0 .. E - 1
  BY <1>1, <1>2
<1> HIDE DEF d
<1>4. CASE x < 0
  <2>1. ~(d >= 0)
    <3> SUFFICES ASSUME d >= 0 PROVE FALSE
      OBVIOUS
    <3>1. E * d \in Nat
      BY <1>1, <1>3
    <3> QED BY <1>3, <1>4, <3>1
  <2> QED BY <1>1, <1>3, <2>1 DEF d, x, E
<1>5. CASE m <= x
  <2>1. ~(d <= n - 1)
    <3> SUFFICES ASSUME d <= n - 1 PROVE FALSE
      OBVIOUS
    <3>1. E * d <= E * (n - 1) /\ E * (n - 1) = m - E /\ E * d \in Int
      BY <1>1, <1>3
    <3> HIDE DEF m
    <3> QED BY <1>1, <1>2, <1>3, <1>5, <3>1
  <2> QED BY <1>1, <1>3, <2>1 DEF d, x, E
<1> QED BY <1>2, <1>4, <1>5

(* The fields of the structure.                                            *)
LEMMA WordOfInfo ==
  ASSUME NEW l \in Loaders, ~InVgaPage(l.info + 48), Apart(l)
  PROVE  /\ Word(l, l.info) = l.flags
         /\ Word(l, l.info + 8) = l.mem_upper
         /\ Word(l, l.info + 44) = Len(l.mmap) * EntryBytes(l)
         /\ Word(l, l.info + 48) = l.mmap_addr
<1>1. /\ l.info \in Nat /\ IDENTITY_MAP_LIMIT \in Nat /\ PMM_PAGE_SIZE \in Nat
      /\ l.mmap_addr \in Nat /\ Len(l.mmap) * EntryBytes(l) \in Nat
  BY LoaderNumbers, MachineSizes
<1>2. \A a \in {l.info, l.info + 8, l.info + 44} : ~InVgaPage(a)
  BY <1>1 DEF InVgaPage
<1>3. ASSUME NEW a \in {l.info, l.info + 8, l.info + 44, l.info + 48}
      PROVE  (a - l.mmap_addr) \div EntryBytes(l) + 1 \notin DOMAIN l.mmap
  <2>1. a \in Nat /\ (a < l.mmap_addr \/ l.mmap_addr + Len(l.mmap) * EntryBytes(l) <= a)
    <3> DEFINE m == Len(l.mmap) * EntryBytes(l)
    <3>1. m \in Nat /\ (l.info + 52 <= l.mmap_addr \/ l.mmap_addr + m <= l.info)
      BY <1>1 DEF Apart
    <3> HIDE DEF m
    <3>2. l.info \in Nat /\ l.mmap_addr \in Nat
      BY <1>1
    <3>3. a = l.info \/ a = l.info + 8 \/ a = l.info + 44 \/ a = l.info + 48
      BY <1>3
    <3>4. a \in Nat /\ l.info <= a /\ a < l.info + 52
      BY ONLY <3>2, <3>3
    <3>5. a \in Nat /\ (a < l.mmap_addr \/ l.mmap_addr + m <= a)
      BY ONLY <3>1, <3>2, <3>4
    <3> QED BY <3>5 DEF m
  <2> QED BY <2>1, OutsideMap
<1> DEFINE I == l.info
           bytes == Len(l.mmap) * EntryBytes(l)
           kk(a) == (a - l.mmap_addr) \div EntryBytes(l) + 1
           field(a) == ((a - l.mmap_addr) % EntryBytes(l)) \div 4 + 1
           listed(a) == kk(a) \in DOMAIN l.mmap /\ field(a) <= 6
           ws(a) == EntryWords(l, kk(a))[field(a)]
<1>4. \A a : Word(l, a) = IF InVgaPage(a) THEN l.other ELSE
                           CASE a = I      -> l.flags
                             [] a = I + 8  -> l.mem_upper
                             [] a = I + 44 -> bytes
                             [] a = I + 48 -> l.mmap_addr
                             [] listed(a)  -> ws(a)
                             [] OTHER      -> l.other
  BY DEF Word, EntryWords
<1>5. \A a \in {I, I + 8, I + 44, I + 48} : ~listed(a)
  BY <1>3
<1>6. I \in Nat /\ \A a \in {I, I + 8, I + 44, I + 48} : ~InVgaPage(a)
  BY <1>1, <1>2
<1> HIDE DEF I, bytes, listed, ws
<1>7. Word(l, I) = l.flags
  BY ONLY <1>4, <1>5, <1>6
<1>8. Word(l, I + 8) = l.mem_upper
  BY ONLY <1>4, <1>5, <1>6
<1>9. Word(l, I + 44) = bytes
  BY ONLY <1>4, <1>5, <1>6
<1>10. Word(l, I + 48) = l.mmap_addr
  BY ONLY <1>4, <1>5, <1>6
<1> QED BY <1>7, <1>8, <1>9, <1>10 DEF I, bytes

(* Where the k-th entry starts.                                            *)
EntryAt(k) == loader.mmap_addr + (k - 1) * EntryBytes(loader)

(* The k-th entry of a map the loader gave lies in readable memory below   *)
(* 4 GiB, and so does what multiboot_early_init reads next.                *)
LEMMA EntryPlace ==
  ASSUME loader \in Loaders, MapGiven, NEW k \in 1 .. Len(loader.mmap)
  PROVE  /\ EntryAt(k) \in Nat \ {0} /\ EntryAt(k) < U32
         /\ EntryAt(k) + 20 < IDENTITY_MAP_LIMIT - PMM_PAGE_SIZE
         /\ k * EntryBytes(loader) < U32
         /\ (k - 1) * EntryBytes(loader) \in Nat
         /\ k * EntryBytes(loader) = (k - 1) * EntryBytes(loader) + EntryBytes(loader)
         /\ (k - 1) * EntryBytes(loader) < Len(loader.mmap) * EntryBytes(loader)
         /\ EntryAt(k) + 24 <= MapEnd /\ loader.mmap_addr <= EntryAt(k)
<1> DEFINE E == EntryBytes(loader)
           n == Len(loader.mmap)
           b == (k - 1) * E
           c == k * E
           m == n * E
           A == loader.mmap_addr
           L == IDENTITY_MAP_LIMIT
           P == PMM_PAGE_SIZE
<1>1. /\ E \in Nat /\ E >= 24 /\ n \in Nat /\ A \in Nat \ {0} /\ k \in Nat \ {0} /\ k <= n
      /\ L \in Nat /\ L <= U32 /\ P \in Nat /\ P >= 4 /\ U32 \in Nat
  <2>1. A # 0
    BY DEF MapGiven
  <2>2. E \in Nat /\ E >= 24 /\ n \in Nat /\ A \in Nat
    BY LoaderNumbers
  <2>3. k \in Nat \ {0} /\ k <= n
    BY <2>2
  <2> QED BY <2>1, <2>2, <2>3, MachineSizes
<1>2. b \in Nat /\ c = b + E /\ c <= m /\ m \in Nat
  BY <1>1
<1>3. ~(A + m - 4 >= L - P) /\ EntryAt(k) = A + b /\ MapEnd = A + m
  <2>1. ~InVgaPage(MapEnd - 4)
    BY DEF MapGiven
  <2>2. MapEnd = A + m
    BY DEF MapEnd
  <2>3. m \in Nat /\ A \in Nat /\ L \in Nat /\ P \in Nat
    BY <1>1, <1>2
  <2> HIDE DEF m, A
  <2>4. ~(A + m - 4 >= L - P)
    BY ONLY <2>1, <2>2, <2>3 DEF InVgaPage
  <2> QED BY <2>2, <2>4 DEF EntryAt, A
<1> HIDE DEF E, b, c, m, A, L, P, n
<1>4. /\ A + b \in Nat \ {0} /\ A + b < U32 /\ A + b + 20 < L - P /\ c < U32
      /\ b < m /\ A + b + 24 <= A + m /\ A <= A + b
  BY <1>1, <1>2, <1>3
<1> QED BY <1>2, <1>3, <1>4 DEF E, b, c, m, A, L, P, n

(* What is read there is the entry, and its size leads to the next one.    *)
LEMMA EntryRead ==
  ASSUME loader \in Loaders, MapGiven, NEW k \in 1 .. Len(loader.mmap),
         NEW j \in 0 .. 5
  PROVE  Word(loader, EntryAt(k) + 4 * j) = EntryWords(loader, k)[j + 1]
<1> DEFINE p == EntryAt(k)
           a == p + 4 * j
           I == loader.info
           L == IDENTITY_MAP_LIMIT - PMM_PAGE_SIZE
           m == MapEnd
           A == loader.mmap_addr
<1>1. /\ p \in Nat /\ p + 20 < L /\ p + 24 <= m /\ A <= p /\ I \in Nat /\ A \in Nat
      /\ L \in Int /\ m \in Int /\ (I + 52 <= A \/ m <= I)
  <2>1. I \in Nat /\ A \in Nat /\ L \in Int
    BY LoaderNumbers, MachineSizes
  <2>2. m \in Int
    BY <2>1, LoaderNumbers DEF MapEnd
  <2> QED BY <2>1, <2>2, EntryPlace DEF MapGiven
<1> HIDE DEF p, I, L, m, A
<1>2. a \in Nat /\ a < L /\ a # I /\ a # I + 8 /\ a # I + 44 /\ a # I + 48
  BY <1>1
<1>3. ~InVgaPage(a)
  <2>1. ~(a >= L)
    BY <1>1, <1>2
  <2> QED BY <2>1 DEF InVgaPage, L
<1>4. a = A + ((k - 1) * EntryBytes(loader) + 4 * j)
  <2> DEFINE b == (k - 1) * EntryBytes(loader)
  <2>1. b \in Int /\ p = A + b
    BY LoaderTypes DEF p, A, EntryAt
  <2> HIDE DEF b
  <2>2. a = A + (b + 4 * j)
    BY <1>1, <2>1
  <2> QED BY <2>2 DEF b
<1> HIDE DEF a
<1>5. Word(loader, a) = EntryWords(loader, k)[j + 1]
  BY <1>2, <1>3, <1>4, WordOfEntry DEF I, A
<1> QED BY <1>5 DEF a, p

(* With every field announced the sum of the sizes is the true offset.     *)
LEMMA FieldsOffset ==
  ASSUME AllFieldsGiven
  PROVE  multiboot_mmap_fields_offset(loader.flags) = 44
<1> DEFINE a == Bit(loader.flags, FlagBit["aout_syms"])
           e == Bit(loader.flags, FlagBit["elf_shdr"])
<1>1. /\ Bit(loader.flags, FlagBit["memory"]) /\ Bit(loader.flags, FlagBit["bootdev"])
      /\ Bit(loader.flags, FlagBit["cmdline"]) /\ Bit(loader.flags, FlagBit["mods"])
      /\ a # e
  BY DEF AllFieldsGiven
<1>2. a \in BOOLEAN /\ e \in BOOLEAN
  BY DEF Bit
<1> QED BY <1>1, <1>2 DEF multiboot_mmap_fields_offset, Field

(***************************************************************************)
(* The invariant is inductive.                                             *)
(***************************************************************************)
(* Before the kernel runs the allocator is untouched.                      *)
LEMMA KernelWaits ==
  ASSUME KernelInv, boot.pc # "kernel", multiboot' \in MultibootStatics,
         UNCHANGED <<pmm, init, owners>>
  PROVE  KernelInv'
<1>1. PmmStatics /\ PmmInv
  BY DEF KernelInv
<1>2. PmmStatics'
  BY <1>1 DEF PmmStatics, Frames
<1>3. PmmInv'
  BY <1>1 DEF PmmInv, PmmTypeOK, EmptyBeforeSizing, NoOwnerBeforeReady, ReservedMarked,
              OwnedMarked
<1>4. RamInv'
  BY <1>2 DEF PmmStatics, RamInv
<1> QED BY <1>2, <1>3, <1>4 DEF KernelInv

(* multiboot_early_init up to its loop.                                    *)
LEMMA EarlyInitKeeps ==
  ASSUME BootInv, multiboot_early_init
  PROVE  BootInv'
<1> DEFINE info   == loader.info
           flags  == Word(loader, info)
           at     == info + multiboot_mmap_fields_offset(flags)
           walk   == [pc |-> "walk", mmap_length |-> Word(loader, at),
                      mmap_addr |-> Word(loader, at + 4), offset |-> 0]
           usable == /\ loader.magic = MULTIBOOT_BOOTLOADER_MAGIC
                     /\ multiboot_ptr_in_identity_map(info)
           memory == usable /\ Bit(flags, FlagBit["memory"])
           mmap   == usable /\ Bit(flags, FlagBit["mmap"])
           upper  == IF memory THEN Word(loader, info + 8) ELSE 0
           reset  == (memory /\ Faults(info + 8)) \/ (mmap /\ Faults(at + 4))
           goes   == mmap /\ multiboot_ptr_in_identity_map(walk.mmap_addr)
<1>1. /\ boot.pc = "start" /\ loader' = loader /\ UNCHANGED <<pmm, init, owners>>
      /\ multiboot' = NoMap(upper)
      /\ boot' = IF reset THEN [boot EXCEPT !.pc = "reset"]
                 ELSE IF goes THEN walk ELSE [boot EXCEPT !.pc = "return"]
  BY DEF multiboot_early_init
<1>2. loader \in Loaders /\ StorageInv /\ KernelInv /\ WalkInv
  BY DEF BootInv
<1>3. info \in Nat /\ at \in Nat /\ upper \in Nat /\ walk.mmap_length \in Nat
      /\ walk.mmap_addr \in Nat
  <2>1. info \in Nat
    BY <1>2, LoaderTypes, PmmSizes
  <2>2. multiboot_mmap_fields_offset(flags) \in Nat
    BY DEF multiboot_mmap_fields_offset, Field
  <2>3. at \in Nat
    BY <2>1, <2>2
  <2>4. info + 8 \in Nat /\ at + 4 \in Nat
    BY <2>1, <2>3
  <2> HIDE DEF info, at
  <2> QED BY <1>2, <2>1, <2>3, <2>4, WordNat
<1>4. multiboot' \in MultibootStatics /\ multiboot'.mmap = <<>>
      /\ multiboot'.valid = FALSE /\ multiboot'.mem_upper_kb = upper
      /\ Len(multiboot'.mmap) = 0
  <2> HIDE DEF upper
  <2> QED BY <1>1, <1>3 DEF NoMap, MultibootStatics
<1>5. KernelInv'
  BY <1>1, <1>2, <1>4, KernelWaits
<1>6. StorageInv'
  <2>1. walk \in [pc : {"start", "walk", "return", "kernel", "reset"},
                  mmap_addr : Nat, mmap_length : Nat, offset : 0 .. U32 - 1]
    BY <1>3, PmmSizes
  <2> HIDE DEF walk, reset, goes
  <2>2. boot' \in [pc : {"start", "walk", "return", "kernel", "reset"},
                   mmap_addr : Nat, mmap_length : Nat, offset : 0 .. U32 - 1]
    BY <1>1, <1>2, <2>1 DEF StorageInv
  <2> QED BY <1>1, <1>2, <1>4, <2>2, MachineSizes DEF StorageInv
<1>7. ASSUME MapGiven, AllFieldsGiven
      PROVE  /\ Copied' /\ multiboot'.mem_upper_kb = loader.mem_upper
             /\ \/ boot' = [walk EXCEPT !.mmap_addr = loader.mmap_addr,
                                       !.mmap_length = Len(loader.mmap) * EntryBytes(loader)]
                \/ boot'.pc = "return" /\ Len(loader.mmap) = 0
  <2>1. /\ flags = loader.flags /\ Word(loader, info + 8) = loader.mem_upper
        /\ Word(loader, info + 44) = Len(loader.mmap) * EntryBytes(loader)
        /\ Word(loader, info + 48) = loader.mmap_addr
    BY <1>2, <1>7, WordOfInfo DEF MapGiven, Apart, MapEnd
  <2>2. at = info + 44
    BY <1>7, <2>1, FieldsOffset
  <2>3. at + 4 = info + 48
    BY <1>3, <2>2
  <2>4. info # 0 /\ info + 48 < IDENTITY_MAP_LIMIT
    BY <1>3, <1>7, MultibootSizes, PmmSizes DEF MapGiven, InVgaPage
  <2>5. memory /\ mmap /\ ~reset
    BY <1>3, <1>7, <2>1, <2>3, <2>4, MachineSizes
      DEF MapGiven, AllFieldsGiven, multiboot_ptr_in_identity_map, Faults
  <2>6. upper = loader.mem_upper
    BY <2>1, <2>5
  <2>7. Len(loader.mmap) \in Nat
    BY <1>2, LoaderTypes
  <2>8. Copied'
    BY <1>1, <1>4, <2>7 DEF Copied
  <2>9. walk.mmap_addr = loader.mmap_addr
        /\ walk.mmap_length = Len(loader.mmap) * EntryBytes(loader)
    BY <2>1, <2>2, <2>3
  <2>10. goes \/ Len(loader.mmap) = 0
    <3> SUFFICES ASSUME Len(loader.mmap) # 0 PROVE goes
      OBVIOUS
    <3>1. EntryAt(1) = loader.mmap_addr + (1 - 1) * EntryBytes(loader)
          /\ EntryAt(1) # 0 /\ EntryAt(1) + 20 < IDENTITY_MAP_LIMIT - PMM_PAGE_SIZE
          /\ EntryAt(1) \in Nat
      BY <1>2, <1>7, <2>7, EntryPlace DEF EntryAt
    <3>2. EntryAt(1) = loader.mmap_addr
      BY <1>2, <3>1, LoaderTypes, PmmSizes
    <3>3. multiboot_ptr_in_identity_map(loader.mmap_addr)
      BY <3>1, <3>2, MultibootSizes, PmmSizes DEF multiboot_ptr_in_identity_map
    <3> QED BY <2>5, <2>9, <3>3
  <2>11. walk = [walk EXCEPT !.mmap_addr = loader.mmap_addr,
                             !.mmap_length = Len(loader.mmap) * EntryBytes(loader)]
    BY <2>9
  <2>12. [boot EXCEPT !.pc = "return"].pc = "return"
    BY <1>2 DEF StorageInv
  <2> HIDE DEF walk, goes, reset
  <2> QED BY <1>1, <1>4, <2>5, <2>6, <2>8, <2>10, <2>11, <2>12
<1>8. WalkInv'
  <2> SUFFICES ASSUME MapGiven', AllFieldsGiven' PROVE WalkInv'
    BY DEF WalkInv
  <2>1. MapGiven /\ AllFieldsGiven
    BY <1>1 DEF MapGiven, MapEnd, AllFieldsGiven
  <2>2. CASE boot'.pc = "return" /\ Len(loader.mmap) = 0
    BY <1>1, <1>4, <1>7, <2>1, <2>2 DEF WalkInv, AllCopied
  <2>3. CASE boot' = [walk EXCEPT !.mmap_addr = loader.mmap_addr,
                                  !.mmap_length = Len(loader.mmap) * EntryBytes(loader)]
    <3>1. boot'.pc = "walk" /\ boot'.mmap_addr = loader.mmap_addr /\ boot'.offset = 0
          /\ boot'.mmap_length = Len(loader.mmap) * EntryBytes(loader)
      BY <2>3
    <3>2. 0 * EntryBytes(loader) = 0
      BY <1>2, LoaderTypes
    <3>3. EntryBytes(loader)' = EntryBytes(loader)
      BY <1>1 DEF EntryBytes
    <3> QED BY <1>1, <1>4, <1>7, <2>1, <3>1, <3>2, <3>3 DEF WalkInv
  <2> QED BY <1>7, <2>1, <2>2, <2>3
<1> QED BY <1>1, <1>2, <1>5, <1>6, <1>8 DEF BootInv

(* At entry k of a map that was given, one iteration of the loop reads     *)
(* that entry and moves to the next.                                       *)
LEMMA IterationReads ==
  ASSUME loader \in Loaders, MapGiven, NEW k \in 1 .. Len(loader.mmap),
         boot.mmap_addr = loader.mmap_addr,
         boot.offset = (k - 1) * EntryBytes(loader)
  PROVE  /\ EntryParses /\ ~Faults(entry_phys + 20)
         /\ multiboot_parse_mmap_entry = loader.mmap[k]
         /\ NextOffset = k * EntryBytes(loader)
<1> DEFINE p == EntryAt(k)
           E == EntryBytes(loader)
           w == EntryWords(loader, k)
           e == loader.mmap[k]
<1>1. /\ p \in Nat \ {0} /\ p < U32 /\ p + 20 < IDENTITY_MAP_LIMIT - PMM_PAGE_SIZE
      /\ k * E < U32 /\ k * E = (k - 1) * E + E /\ (k - 1) * E \in Nat
  BY EntryPlace
<1>2. U32 \in Nat \ {0} /\ IDENTITY_MAP_LIMIT \in Nat /\ PMM_PAGE_SIZE \in Nat
  BY PmmSizes, MultibootSizes
<1>3. boot.mmap_addr + boot.offset = p
  BY DEF EntryAt
<1> HIDE DEF p
<1>4. entry_phys = p
  BY <1>1, <1>2, <1>3 DEF entry_phys
<1>5. /\ Word(loader, p) = w[1] /\ Word(loader, p + 4) = w[2] /\ Word(loader, p + 8) = w[3]
      /\ Word(loader, p + 12) = w[4] /\ Word(loader, p + 16) = w[5]
      /\ Word(loader, p + 20) = w[6]
  <2>1. \A j \in 0 .. 5 : Word(loader, p + 4 * j) = w[j + 1]
    BY EntryRead DEF p
  <2>2. /\ p + 4 * 0 = p /\ p + 4 * 1 = p + 4 /\ p + 4 * 2 = p + 8 /\ p + 4 * 3 = p + 12
        /\ p + 4 * 4 = p + 16 /\ p + 4 * 5 = p + 20
    BY <1>1
  <2> HIDE DEF w
  <2>3. Word(loader, p) = w[0 + 1] /\ Word(loader, p + 4) = w[1 + 1]
        /\ Word(loader, p + 8) = w[2 + 1] /\ Word(loader, p + 12) = w[3 + 1]
        /\ Word(loader, p + 16) = w[4 + 1] /\ Word(loader, p + 20) = w[5 + 1]
    BY <2>1, <2>2
  <2> QED BY <2>3
<1>6. /\ w[1] = loader.entry_size /\ w[2] = e.addr % U32 /\ w[3] = e.addr \div U32
      /\ w[4] = e.len % U32 /\ w[5] = e.len \div U32 /\ w[6] = e.type
  BY DEF EntryWords
<1>7. /\ e.addr \in Nat /\ e.len \in Nat /\ loader.entry_size \in Nat
      /\ loader.entry_size >= 20 /\ E = loader.entry_size + 4
      /\ e = [addr |-> e.addr, len |-> e.len, type |-> e.type]
  <2>1. \A i \in 1 .. Len(loader.mmap) :
          /\ loader.mmap[i].addr \in Nat /\ loader.mmap[i].len \in Nat
          /\ loader.mmap[i] = [addr |-> loader.mmap[i].addr, len |-> loader.mmap[i].len,
                               type |-> loader.mmap[i].type]
    BY LoaderTypes
  <2>2. loader.entry_size \in 0 .. U32 - 1 /\ E = loader.entry_size + 4 /\ E >= 24
    BY LoaderTypes
  <2>3. loader.entry_size \in Nat /\ loader.entry_size >= 20
    BY <1>2, <2>2
  <2> QED BY <2>1, <2>2, <2>3
<1> HIDE DEF w, e
<1>8. EntryParses /\ ~Faults(entry_phys + 20)
  <2>1. p # 0 /\ p < IDENTITY_MAP_LIMIT /\ p + 20 < IDENTITY_MAP_LIMIT
    <3>1. p \in Nat \ {0} /\ p + 20 < IDENTITY_MAP_LIMIT - PMM_PAGE_SIZE
      BY <1>1
    <3> QED BY ONLY <1>2, <3>1
  <2>2. ~(p + 20 >= IDENTITY_MAP_LIMIT)
    BY <1>2, <2>1, <1>1
  <2>3. Word(loader, p) >= 20
    BY <1>5, <1>6, <1>7
  <2> QED BY <1>4, <2>1, <2>2, <2>3
        DEF EntryParses, multiboot_ptr_in_identity_map, Faults
<1>9. multiboot_parse_mmap_entry = e
  <2>1. \A m \in Nat : (m % U32) + U32 * (m \div U32) = m
    BY <1>2, LowAndHigh
  <2>2. (e.addr % U32) + U32 * (e.addr \div U32) = e.addr
        /\ (e.len % U32) + U32 * (e.len \div U32) = e.len
    <3>1. e.addr \in Nat /\ e.len \in Nat
      BY <1>7
    <3> HIDE DEF e
    <3> QED BY ONLY <2>1, <3>1
  <2>3. multiboot_parse_mmap_entry = [addr |-> e.addr, len |-> e.len, type |-> e.type]
    BY <1>4, <1>5, <1>6, <2>2 DEF multiboot_parse_mmap_entry
  <2> QED BY <1>7, <2>3
<1>10. NextOffset = k * E
  <2> DEFINE b == (k - 1) * E
             c == k * E
  <2>1. b \in Nat /\ c = b + E /\ c < U32 /\ boot.offset = b
        /\ NextOffset = (boot.offset + loader.entry_size + 4) % U32
    BY <1>1, <1>4, <1>5, <1>6 DEF NextOffset
  <2> HIDE DEF b, c, E
  <2>2. b + loader.entry_size + 4 = c /\ c \in Nat
    BY <1>7, <2>1
  <2>3. NextOffset = c
    BY <1>2, <2>1, <2>2, SMTT(20)
  <2> QED BY <2>3 DEF c, E
<1> QED BY <1>8, <1>9, <1>10 DEF e

(* Entries that stray memory reads as still have the entries' types.       *)
LEMMA ParsedType ==
  ASSUME BootInv
  PROVE  /\ multiboot_parse_mmap_entry \in [addr : Nat, len : Nat, type : Nat]
         /\ NextOffset \in 0 .. U32 - 1
<1> DEFINE p == entry_phys
           w(a) == Word(loader, a)
<1>1. U32 \in Nat \ {0} /\ boot.mmap_addr \in Nat /\ boot.offset \in Nat
  BY PmmSizes DEF BootInv, StorageInv
<1>2. p \in Nat
  BY <1>1 DEF entry_phys
<1> HIDE DEF p
<1>3. /\ w(p) \in Nat /\ w(p + 4) \in Nat /\ w(p + 8) \in Nat /\ w(p + 12) \in Nat
      /\ w(p + 16) \in Nat /\ w(p + 20) \in Nat
  <2>1. \A a \in Nat : w(a) \in Nat
    BY WordNat DEF BootInv
  <2> HIDE DEF w
  <2> QED BY <1>2, <2>1
<1> HIDE DEF w
<1>4. multiboot_parse_mmap_entry \in [addr : Nat, len : Nat, type : Nat]
  <2>1. w(p + 4) + U32 * w(p + 8) \in Nat /\ w(p + 12) + U32 * w(p + 16) \in Nat
    BY <1>1, <1>3
  <2>2. multiboot_parse_mmap_entry = [addr |-> w(p + 4) + U32 * w(p + 8),
                                      len |-> w(p + 12) + U32 * w(p + 16),
                                      type |-> w(p + 20)]
    BY DEF multiboot_parse_mmap_entry, w, p
  <2> QED BY <1>3, <2>1, <2>2
<1>5. NextOffset \in 0 .. U32 - 1
  <2>1. NextOffset = (boot.offset + w(p) + 4) % U32
    BY DEF NextOffset, w, p
  <2> QED BY <1>1, <1>3, <2>1
<1> QED BY <1>4, <1>5

(* What the loader gave does not change.                                   *)
LEMMA GivenStays ==
  ASSUME loader' = loader
  PROVE  /\ MapGiven' = MapGiven /\ AllFieldsGiven' = AllFieldsGiven
         /\ EntryBytes(loader)' = EntryBytes(loader)
BY DEF MapGiven, MapEnd, AllFieldsGiven, EntryBytes

(* One iteration of the loop.                                              *)
LEMMA EntryKeeps ==
  ASSUME BootInv, early_init_entry
  PROVE  BootInv'
<1> DEFINE E == [addr : Nat, len : Nat, type : Nat]
           mm == multiboot.mmap
           entry == multiboot_parse_mmap_entry
           fault == Faults(entry_phys + 20)
           n == Len(mm)
<1>1. loader \in Loaders /\ StorageInv /\ KernelInv /\ WalkInv
  BY DEF BootInv
<1>2. /\ boot.pc = "walk" /\ MoreEntries /\ loader' = loader
      /\ UNCHANGED <<pmm, init, owners>>
      /\ fault => boot' = [boot EXCEPT !.pc = "reset"] /\ multiboot' = multiboot
      /\ ~fault => /\ multiboot' = [multiboot EXCEPT !.mmap = Append(mm, entry)]
                   /\ boot' = [boot EXCEPT !.offset = NextOffset]
  BY DEF early_init_entry, Store
<1>3. multiboot \in MultibootStatics /\ mm \in Seq(E) /\ n \in Nat
  BY <1>1 DEF KernelInv, PmmInv, PmmTypeOK, MultibootStatics
<1>4. entry \in E /\ NextOffset \in 0 .. U32 - 1
  BY ParsedType
<1> HIDE DEF entry, fault, E
<1>5. /\ Append(mm, entry) \in Seq(E) /\ Len(Append(mm, entry)) = n + 1
      /\ \A j \in 1 .. n : Append(mm, entry)[j] = mm[j]
      /\ Append(mm, entry)[n + 1] = entry
  BY <1>3, <1>4
<1> DEFINE mm2 == Append(mm, entry)
<1>6. ~fault => multiboot'.mmap = mm2 /\ multiboot'.valid = multiboot.valid
                /\ multiboot'.mem_upper_kb = multiboot.mem_upper_kb
                /\ multiboot' \in MultibootStatics
  <2> HIDE DEF mm2
  <2> QED BY <1>2, <1>3, <1>5 DEF MultibootStatics, E, mm2
<1>7. KernelInv'
  BY <1>1, <1>2, <1>3, <1>6, KernelWaits
<1>8. n < MAX_MMAP_ENTRIES /\ boot.offset < boot.mmap_length
  BY <1>2 DEF MoreEntries
<1>9. StorageInv'
  <2>1. CASE fault
    BY <1>1, <1>2, <2>1 DEF StorageInv
  <2>2. CASE ~fault
    <3>1. multiboot'.mmap # <<>> /\ Len(multiboot'.mmap) <= MAX_MMAP_ENTRIES
      <4>1. Len(mm2) <= MAX_MMAP_ENTRIES /\ Len(mm2) # 0
        BY <1>3, <1>5, <1>8, MultibootSizes
      <4> QED BY <1>6, <2>2, <4>1
    <3>2. boot' = [boot EXCEPT !.offset = NextOffset]
      BY <1>2, <2>2
    <3> QED BY <1>1, <1>4, <3>1, <3>2 DEF StorageInv
  <2> QED BY <2>1, <2>2
<1>10. WalkInv'
  <2> SUFFICES ASSUME MapGiven, AllFieldsGiven PROVE WalkInv'
    BY <1>2, GivenStays DEF WalkInv
  <2> DEFINE k == n + 1
             B == EntryBytes(loader)
  <2>1. /\ Copied /\ multiboot.mem_upper_kb = loader.mem_upper
        /\ boot.mmap_addr = loader.mmap_addr
        /\ boot.mmap_length = Len(loader.mmap) * B /\ boot.offset = n * B
    BY <1>1, <1>2 DEF WalkInv
  <2>2. k \in 1 .. Len(loader.mmap)
    <3>1. Len(loader.mmap) \in Nat /\ B \in Nat /\ n <= Len(loader.mmap)
      BY <1>1, <2>1, LoaderTypes DEF Copied
    <3>2. n # Len(loader.mmap)
      <4> SUFFICES ASSUME n = Len(loader.mmap) PROVE FALSE
        OBVIOUS
      <4> DEFINE x == n * B
      <4>1. x \in Nat /\ boot.offset = x /\ boot.mmap_length = x
        BY <1>3, <2>1, <3>1
      <4> HIDE DEF x
      <4> QED BY <1>8, <4>1
    <3> QED BY <1>3, <3>1, <3>2
  <2>3. boot.offset = (k - 1) * B
    BY <1>3, <2>1
  <2> HIDE DEF k
  <2>4. ~fault /\ entry = loader.mmap[k] /\ NextOffset = k * B
    BY <1>1, <2>1, <2>2, <2>3, IterationReads DEF entry, fault
  <2>5. multiboot'.mmap = mm2 /\ multiboot'.mem_upper_kb = loader.mem_upper
        /\ boot' = [boot EXCEPT !.offset = k * B] /\ Len(mm2) = k
    BY <1>2, <1>5, <1>6, <2>1, <2>4 DEF k
  <2> HIDE DEF mm2
  <2>6. \A j \in 1 .. k : mm2[j] = loader.mmap[j]
    <3>1. \A j \in 1 .. n : mm2[j] = loader.mmap[j]
      BY <1>5, <2>1 DEF Copied, mm2
    <3>2. mm2[n + 1] = loader.mmap[n + 1]
      BY <1>5, <2>4 DEF mm2, k
    <3>3. \A j \in 1 .. k : j \in 1 .. n \/ j = n + 1
      BY <1>3 DEF k
    <3> QED BY <3>1, <3>2, <3>3
  <2>7. Copied'
    BY <1>1, <1>2, <2>2, <2>5, <2>6, LoaderTypes DEF Copied
  <2>8. /\ boot'.pc = "walk" /\ boot'.offset = k * B /\ boot'.mmap_addr = boot.mmap_addr
        /\ boot'.mmap_length = boot.mmap_length
    BY <1>1, <1>2, <2>5 DEF StorageInv
  <2>9. EntryBytes(loader)' = B
    BY <1>2, GivenStays
  <2> HIDE DEF B
  <2> QED BY <1>2, <2>1, <2>5, <2>7, <2>8, <2>9 DEF WalkInv
<1> QED BY <1>1, <1>2, <1>7, <1>9, <1>10 DEF BootInv

(* The loop ends: for a map that was given, at its end or at the storage's.*)
LEMMA ReturnKeeps ==
  ASSUME BootInv, early_init_return
  PROVE  BootInv'
<1> DEFINE mm == multiboot.mmap
           n == Len(mm)
<1>1. loader \in Loaders /\ StorageInv /\ KernelInv /\ WalkInv
  BY DEF BootInv
<1>2. /\ boot.pc = "walk" /\ ~(MoreEntries /\ EntryParses) /\ loader' = loader
      /\ UNCHANGED <<pmm, init, owners>>
      /\ multiboot' = [multiboot EXCEPT !.valid = mm # <<>>]
      /\ boot' = [boot EXCEPT !.pc = "return"]
  BY DEF early_init_return
<1>3. multiboot \in MultibootStatics /\ n \in Nat
  BY <1>1 DEF KernelInv, PmmInv, PmmTypeOK, MultibootStatics
<1>4. /\ multiboot'.mmap = mm /\ multiboot'.valid = (mm # <<>>)
      /\ multiboot'.mem_upper_kb = multiboot.mem_upper_kb
      /\ multiboot' \in MultibootStatics
  BY <1>2, <1>3 DEF MultibootStatics
<1>5. KernelInv'
  BY <1>1, <1>2, <1>4, KernelWaits
<1>6. StorageInv'
  BY <1>1, <1>2, <1>4 DEF StorageInv
<1>7. WalkInv'
  <2> SUFFICES ASSUME MapGiven, AllFieldsGiven PROVE WalkInv'
    BY <1>2, GivenStays DEF WalkInv
  <2> DEFINE B == EntryBytes(loader)
             k == n + 1
  <2>1. /\ Copied /\ multiboot.mem_upper_kb = loader.mem_upper
        /\ boot.mmap_addr = loader.mmap_addr
        /\ boot.mmap_length = Len(loader.mmap) * B /\ boot.offset = n * B
    BY <1>1, <1>2 DEF WalkInv
  <2>2. AllCopied
    <3> SUFFICES ASSUME ~AllCopied PROVE FALSE
      OBVIOUS
    <3>1. k \in 1 .. Len(loader.mmap) /\ n < MAX_MMAP_ENTRIES
      <4>1. n <= Len(loader.mmap) /\ n # Len(loader.mmap) /\ n # MAX_MMAP_ENTRIES
            /\ n <= MAX_MMAP_ENTRIES
        BY <1>1, <2>1 DEF AllCopied, Copied, StorageInv
      <4>2. Len(loader.mmap) \in Nat /\ MAX_MMAP_ENTRIES \in Nat
        BY <1>1, LoaderTypes, MultibootSizes
      <4> HIDE DEF n
      <4> QED BY <1>3, <4>1, <4>2
    <3>2. boot.offset = (k - 1) * B
      BY <1>3, <2>1
    <3> HIDE DEF k
    <3>3. EntryParses
      BY <1>1, <2>1, <3>1, <3>2, IterationReads
    <3>4. (k - 1) * B < Len(loader.mmap) * B
      BY <1>1, <3>1, EntryPlace
    <3>5. MoreEntries
      BY <2>1, <3>1, <3>2, <3>4 DEF MoreEntries
    <3> QED BY <1>2, <3>3, <3>5
  <2>3. Copied' /\ AllCopied'
    BY <1>2, <1>4, <2>1, <2>2 DEF Copied, AllCopied
  <2>4. boot'.pc = "return"
    BY <1>1, <1>2 DEF StorageInv
  <2> QED BY <1>2, <1>4, <2>1, <2>3, <2>4 DEF WalkInv
<1> QED BY <1>1, <1>2, <1>5, <1>6, <1>7 DEF BootInv

(* boot.S enters kernel_main with what was collected.                      *)
LEMMA EnterKeeps ==
  ASSUME BootInv, enter_kernel
  PROVE  BootInv'
<1>1. /\ boot.pc = "return" /\ boot' = [boot EXCEPT !.pc = "kernel"] /\ loader' = loader
      /\ multiboot' = multiboot /\ UNCHANGED <<pmm, init, owners>>
      /\ loader \in Loaders /\ StorageInv /\ KernelInv /\ WalkInv
  BY DEF enter_kernel, pmmVars, BootInv
<1>2. boot'.pc = "kernel"
  BY <1>1 DEF StorageInv
<1>3. KernelInv'
  <2>1. multiboot' \in MultibootStatics
    BY <1>1 DEF KernelInv, PmmInv, PmmTypeOK
  <2> QED BY <1>1, <2>1, KernelWaits
<1>4. StorageInv'
  BY <1>1 DEF StorageInv
<1>5. WalkInv'
  BY <1>1, <1>2, GivenStays DEF WalkInv, Copied, AllCopied
<1> QED BY <1>1, <1>3, <1>4, <1>5 DEF BootInv

(* The kernel's steps are those of the allocator, on a fixed map.          *)
LEMMA KernelKeeps ==
  ASSUME BootInv, KernelStep \/ UNCHANGED bootVars
  PROVE  BootInv'
<1>1. /\ boot' = boot /\ loader' = loader /\ [PmmNext]_pmmVars
      /\ loader \in Loaders /\ StorageInv /\ KernelInv /\ WalkInv
  BY DEF KernelStep, bootVars, BootInv
<1>2. multiboot' = multiboot
  BY <1>1 DEF PmmNext, pmmVars, pmm_init_invalid, pmm_init_highest, pmm_init_size,
              pmm_init_region, pmm_init_reserve, ClientAlloc, ClientFree
<1>3. PmmInv' /\ RamInv'
  BY <1>1, PmmStep, RamStep DEF KernelInv
<1>4. boot.pc # "kernel" => PmmStatics'
  BY <1>1 DEF KernelInv, KernelStep, bootVars, pmmVars, PmmStatics, Frames
<1>5. StorageInv' /\ WalkInv'
  BY <1>1, <1>2, GivenStays DEF StorageInv, WalkInv, Copied, AllCopied
<1> QED BY <1>1, <1>3, <1>4, <1>5 DEF BootInv, KernelInv

(***************************************************************************)
(* The theorems.                                                           *)
(***************************************************************************)
(* BootInv holds from the loader's jump to boot.S through every use of the *)
(* allocator, for every loader of Loaders.                                 *)
THEOREM BootInvariant == BootSpec => []BootInv
<1>1. BootInit => BootInv
  <2> SUFFICES ASSUME BootInit PROVE BootInv
    OBVIOUS
  <2>1. multiboot = NoMap(0) /\ PmmStatics /\ loader \in Loaders
        /\ boot = [pc |-> "start", mmap_addr |-> 0, mmap_length |-> 0, offset |-> 0]
    BY DEF BootInit
  <2>2. multiboot \in MultibootStatics
    BY <2>1 DEF NoMap, MultibootStatics
  <2>3. PmmInv /\ RamInv
    BY <2>1, <2>2, StaticsEstablish DEF PmmStatics, RamInv
  <2>4. StorageInv
    BY <2>1, MultibootSizes, PmmSizes DEF StorageInv, NoMap
  <2>5. WalkInv
    BY <2>1 DEF WalkInv
  <2> QED BY <2>1, <2>3, <2>4, <2>5 DEF BootInv, KernelInv
<1>2. BootInv /\ [BootNext]_bootVars => BootInv'
  BY EarlyInitKeeps, EntryKeeps, ReturnKeeps, EnterKeeps, KernelKeeps DEF BootNext, EarlyStep
<1> QED BY <1>1, <1>2, PTL DEF BootSpec

(* Whatever memory multiboot_early_init strays into, it stores no more     *)
(* entries than mmap_storage has room for, and reports a valid map only    *)
(* with an entry in it.                                                    *)
THEOREM BootTypes == BootSpec => []BootTypeOK
<1>1. BootInv => BootTypeOK
  BY DEF BootInv, StorageInv, BootTypeOK
<1> QED BY <1>1, BootInvariant, PTL

(* A loader that announced every field before the map finds its whole map  *)
(* copied, entries of any size and any number, up to the storage's end.    *)
THEOREM BootCopiesMap == BootSpec => []CopiesWholeMap
<1>1. BootInv => CopiesWholeMap
  <2> SUFFICES ASSUME BootInv, MapGiven, AllFieldsGiven
               PROVE  /\ boot.pc # "reset"
                      /\ boot.pc = "kernel" =>
                           LET N == Min({Len(loader.mmap), MAX_MMAP_ENTRIES}) IN
                           /\ multiboot.mmap = SubSeq(loader.mmap, 1, N)
                           /\ multiboot.valid = (loader.mmap # <<>>)
                           /\ multiboot.mem_upper_kb = loader.mem_upper
    BY DEF CopiesWholeMap, LoaderMapCopied
  <2> DEFINE N == Min({Len(loader.mmap), MAX_MMAP_ENTRIES})
             n == Len(multiboot.mmap)
             m == Len(loader.mmap)
             E == [addr : 0 .. U64 - 1, len : 0 .. U64 - 1, type : 0 .. U32 - 1]
             F == [addr : Nat, len : Nat, type : Nat]
  <2>1. boot.pc # "reset"
    BY DEF BootInv, WalkInv
  <2>2. ASSUME boot.pc = "kernel"
        PROVE  /\ multiboot.mmap = SubSeq(loader.mmap, 1, N)
               /\ multiboot.valid = (loader.mmap # <<>>)
               /\ multiboot.mem_upper_kb = loader.mem_upper
    <3>1. /\ Copied /\ AllCopied /\ multiboot.valid = (multiboot.mmap # <<>>)
          /\ multiboot.mem_upper_kb = loader.mem_upper
      BY <2>2 DEF BootInv, WalkInv
    <3>2. /\ m \in Nat /\ loader.mmap \in Seq(E) /\ MAX_MMAP_ENTRIES \in Nat \ {0}
          /\ multiboot.mmap \in Seq(F) /\ n \in Nat /\ n <= MAX_MMAP_ENTRIES
      <4>1. m \in Nat /\ loader.mmap \in Seq(E)
        BY LoaderTypes DEF BootInv
      <4>2. multiboot.mmap \in Seq(F)
        BY DEF BootInv, KernelInv, PmmInv, PmmTypeOK, MultibootStatics
      <4>3. n <= MAX_MMAP_ENTRIES /\ MAX_MMAP_ENTRIES \in Nat \ {0}
        BY MultibootSizes DEF BootInv, StorageInv
      <4> QED BY <4>1, <4>2, <4>3
    <3>3. N = n
      <4> DEFINE S == {m, MAX_MMAP_ENTRIES}
      <4>1. S \in SUBSET Nat /\ S # {}
        BY <3>2
      <4>2. Min(S) \in S /\ \A y \in S : Min(S) <= y
        BY <4>1, MinNat
      <4>3. n <= m /\ (n = m \/ n = MAX_MMAP_ENTRIES)
        BY <3>1 DEF Copied, AllCopied
      <4> DEFINE least == Min(S)
      <4>4. (least = m \/ least = MAX_MMAP_ENTRIES) /\ least <= m /\ least <= MAX_MMAP_ENTRIES
        BY <4>2
      <4> HIDE DEF n, m, least
      <4>5. least = n
        BY <3>2, <4>3, <4>4
      <4> QED BY <4>5 DEF least, m
    <3> DEFINE sub == SubSeq(loader.mmap, 1, n)
    <3> HIDE DEF E, F
    <3>4. Len(sub) = n /\ \A j \in 1 .. n : sub[j] = loader.mmap[j]
      BY <3>1, <3>2, Prefix DEF Copied
    <3>5. sub \in Seq(E)
      BY <3>1, <3>2, Prefix DEF Copied
    <3> HIDE DEF sub
    <3>6. multiboot.mmap = sub
      <4>1. Len(multiboot.mmap) = Len(sub) /\ \A j \in 1 .. n : multiboot.mmap[j] = sub[j]
        BY <3>1, <3>4 DEF Copied
      <4>2. multiboot.mmap \in Seq(E \cup F) /\ sub \in Seq(E \cup F)
        BY <3>2, <3>5
      <4> QED BY <4>1, <4>2, SeqEqual
    <3>7. (multiboot.mmap # <<>>) = (loader.mmap # <<>>)
      <4>1. n = 0 <=> m = 0
        BY <3>1, <3>2 DEF AllCopied, Copied
      <4> QED BY <3>2, <4>1
    <3> QED BY <3>1, <3>3, <3>6, <3>7 DEF sub
  <2> QED BY <2>1, <2>2
<1> QED BY <1>1, BootInvariant, PTL

(* Every frame handed out is memory the loader called usable.              *)
THEOREM BootHandsOutLoaderRam == BootSpec => []HandedOutIsLoaderRam
<1>1. BootInv => HandedOutIsLoaderRam
  <2> SUFFICES ASSUME BootInv, MapGiven, AllFieldsGiven,
                      Len(loader.mmap) \in 1 .. MAX_MMAP_ENTRIES,
                      PageAligned(loader.mmap), WholePages(loader.mem_upper),
                      EndsBelow(loader.mmap, U32), NEW f \in Frames, owners[f] # 0
               PROVE  f * PMM_PAGE_SIZE .. (f + 1) * PMM_PAGE_SIZE - 1
                        \subseteq UsableRam(loader.mmap, loader.mem_upper)
    BY DEF HandedOutIsLoaderRam
  <2>1. boot.pc = "kernel"
    BY DEF BootInv, KernelInv, PmmStatics
  <2>2. /\ Copied /\ AllCopied /\ multiboot.mem_upper_kb = loader.mem_upper
        /\ Len(multiboot.mmap) = Len(loader.mmap)
    <3>1. Copied /\ AllCopied /\ multiboot.mem_upper_kb = loader.mem_upper
      BY <2>1 DEF BootInv, WalkInv
    <3>2. Len(multiboot.mmap) \in Nat /\ MAX_MMAP_ENTRIES \in Nat
      BY MultibootSizes DEF BootInv, KernelInv, PmmInv, PmmTypeOK, MultibootStatics
    <3> QED BY <3>1, <3>2 DEF Copied, AllCopied
  <2>3. multiboot.mmap = loader.mmap
    <3> DEFINE E == [addr : 0 .. U64 - 1, len : 0 .. U64 - 1, type : 0 .. U32 - 1]
               F == [addr : Nat, len : Nat, type : Nat]
    <3>1. multiboot.mmap \in Seq(F) /\ loader.mmap \in Seq(E)
      BY LoaderTypes DEF BootInv, KernelInv, PmmInv, PmmTypeOK, MultibootStatics
    <3> HIDE DEF E, F
    <3>2. multiboot.mmap \in Seq(E \cup F) /\ loader.mmap \in Seq(E \cup F)
      BY <3>1
    <3> QED BY <2>2, <3>2, SeqEqual DEF Copied
  <2>4. HandedOutIsRam
    BY OwnedIsRam DEF BootInv, KernelInv
  <2> QED BY <2>2, <2>3, <2>4 DEF HandedOutIsRam
<1> QED BY <1>1, BootInvariant, PTL
=============================================================================
