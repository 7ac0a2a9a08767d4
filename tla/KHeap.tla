------------------------------- MODULE KHeap -------------------------------
(***************************************************************************)
(* The kernel heap of kernel/mm/kheap.c, on top of the address space that  *)
(* paging.c provides and the frames that pmm.c provides.                   *)
(*                                                                         *)
(* heap is the memory of the block headers: it maps the address of every   *)
(* block in the list to its header.  kmalloc runs step by step, with call  *)
(* as its stack frame: the scan moves block by block and kheap_extend maps *)
(* page by page, because each page may fail and what was done before stays *)
(* done.  kfree never fails and is one step.  live is a history variable:  *)
(* the pointers kmalloc returned and kfree did not yet take back, with the *)
(* size that was asked for.                                                *)
(***************************************************************************)
EXTENDS AddressSpace

CONSTANTS
  KHEAP_START, KHEAP_MAX_BYTES, KHEAP_ALIGN, KHEAP_GROW_PAGES,
  HEADER,        \* sizeof(kheap_block_t)
  Sizes          \* the sizes callers pass to kmalloc

KHEAP_MIN_BLOCK == HEADER + KHEAP_ALIGN
NULL == 0

page_of(addr) == addr \div PMM_PAGE_SIZE

ASSUME KHeapSizes ==
  /\ KHEAP_START \in Nat \ {0} /\ KHEAP_START % PMM_PAGE_SIZE = 0
  /\ KHEAP_MAX_BYTES \in Nat \ {0} /\ KHEAP_MAX_BYTES % PMM_PAGE_SIZE = 0
  /\ KHEAP_START + KHEAP_MAX_BYTES < U32
  /\ KHEAP_ALIGN \in Nat \ {0} /\ U32 % KHEAP_ALIGN = 0
  /\ HEADER \in Nat \ {0} /\ HEADER % KHEAP_ALIGN = 0
  /\ PMM_PAGE_SIZE % KHEAP_ALIGN = 0 /\ KHEAP_MIN_BLOCK <= PMM_PAGE_SIZE
  /\ KHEAP_GROW_PAGES \in Nat \ {0}
  /\ KHEAP_GROW_PAGES * PMM_PAGE_SIZE <= KHEAP_MAX_BYTES
  /\ Sizes \subseteq 0 .. U32 - 1
  /\ page_of(KHEAP_START) .. page_of(KHEAP_START + KHEAP_MAX_BYTES) - 1
       \subseteq ClientPages

VARIABLES
  heap,   \* address -> [size, is_free, next, prev]
  kheap,  \* the statics kheap_end and kheap_first
  call,   \* the call in progress
  live    \* pointer -> requested size (history)

kheapVars == <<asVars, heap, kheap, call, live>>

(***************************************************************************)
(* The list of blocks.                                                     *)
(***************************************************************************)
(* Mutant: rounds down.                                                    *)
Bug_kheap_align(n) == n - (n % KHEAP_ALIGN)

kheap_align(n) ==
  LET m == (n + KHEAP_ALIGN - 1) % U32 IN m - (m % KHEAP_ALIGN)

(* Mutant: the block after a new one keeps pointing at the old one.        *)
Bug_Relink(block, prev) == block

Relink(block, prev) == [block EXCEPT !.prev = prev]

kheap_split(h, b, needed) ==
  LET r == b + needed IN
  IF h[b].size < (needed + KHEAP_MIN_BLOCK) % U32
  THEN [h EXCEPT ![b].is_free = FALSE]
  ELSE [a \in DOMAIN h \cup {r} |->
          CASE a = r -> [size |-> h[b].size - needed, is_free |-> TRUE,
                         next |-> h[b].next, prev |-> b]
            [] a = b -> [h[b] EXCEPT !.size = needed, !.is_free = FALSE, !.next = r]
            [] a = h[b].next -> Relink(h[a], r)
            [] OTHER -> h[a]]

(* Block into takes over the block gone that follows it.                   *)
Absorb(h, into, gone) ==
  [a \in DOMAIN h \ {gone} |->
     CASE a = into -> [h[into] EXCEPT !.size = @ + h[gone].size,
                                      !.next = h[gone].next]
       [] a = h[gone].next -> Relink(h[a], into)
       [] OTHER -> h[a]]

(* Mutant: only the following block is merged.                             *)
Bug_kheap_coalesce(h, b) ==
  LET next == h[b].next IN
  IF next # NULL /\ h[next].is_free THEN Absorb(h, b, next) ELSE h

kheap_coalesce(h, b) ==
  LET next == h[b].next
      g == IF next # NULL /\ h[next].is_free THEN Absorb(h, b, next) ELSE h
      prev == g[b].prev
  IN  IF prev # NULL /\ g[prev].is_free THEN Absorb(g, prev, b) ELSE g

LastBlock(h) == CHOOSE b \in DOMAIN h : h[b].next = NULL

(* kheap_extend's new free block of the given size at kheap_end: merged    *)
(* with the last block if that is free and adjacent, else appended.  The   *)
(* header is written first, over that of an empty block left there before. *)
Append_block(heap0, size) ==
  LET block == kheap.end
      new(prev) == [size |-> size, is_free |-> TRUE, next |-> NULL, prev |-> prev]
      h == [a \in DOMAIN heap0 |-> IF a = block THEN new(NULL) ELSE heap0[a]]
      last == LastBlock(h)
  IN  IF kheap.first = NULL THEN [a \in {block} |-> new(NULL)]
      ELSE IF h[last].is_free /\ last + h[last].size = block
      THEN [h EXCEPT ![last].size = @ + size]
      ELSE [a \in DOMAIN h \cup {block} |->
              CASE a = block -> new(last)
                [] a = last  -> [h[last] EXCEPT !.next = block]
                [] OTHER     -> h[a]]

(***************************************************************************)
(* The calls.                                                              *)
(***************************************************************************)
Idle == [pc |-> "idle", op |-> "none", size |-> 0, needed |-> 0, cur |-> NULL,
         map_at |-> 0, pages |-> 0, frame |-> 0]

KHeapInit ==
  /\ ASInit
  /\ heap = << >>
  /\ kheap = [end |-> KHEAP_START, first |-> NULL]
  /\ call = [Idle EXCEPT !.pc = "boot"]
  /\ live = << >>

KHeapBoot ==
  /\ PmmBoot
  /\ UNCHANGED <<space, tables, held, heap, kheap, call, live>>

kheap_init ==
  /\ call.pc = "boot"
  /\ init.step = "ready"
  /\ kheap' = [end |-> KHEAP_START, first |-> NULL]
  /\ call' = [Idle EXCEPT !.pc = "extend", !.op = "kheap_init",
                          !.needed = PMM_PAGE_SIZE]
  /\ UNCHANGED <<asVars, heap, live>>

(* kmalloc(0) returns NULL at once.                                        *)
kmalloc(size) ==
  /\ call.pc = "idle"
  /\ LET needed == kheap_align((size + HEADER) % U32) IN
     call' = IF size = 0 THEN call
             ELSE [Idle EXCEPT !.pc = "scan", !.op = "kmalloc", !.size = size,
                               !.cur = kheap.first,
                               !.needed = IF needed < KHEAP_MIN_BLOCK
                                          THEN KHEAP_MIN_BLOCK ELSE needed]
  /\ UNCHANGED <<asVars, heap, kheap, live>>

(* Mutant: a block that fits exactly is passed over.                       *)
Bug_Fits(b, needed) == heap[b].is_free /\ heap[b].size > needed

Fits(b, needed) == heap[b].is_free /\ heap[b].size >= needed

kmalloc_found ==
  /\ call.pc = "scan"
  /\ call.cur # NULL
  /\ Fits(call.cur, call.needed)
  /\ heap' = kheap_split(heap, call.cur, call.needed)
  /\ live' = [p \in DOMAIN live \cup {call.cur + HEADER} |->
                IF p = call.cur + HEADER THEN call.size ELSE live[p]]
  /\ call' = Idle
  /\ UNCHANGED <<asVars, kheap>>

kmalloc_scan ==
  /\ call.pc = "scan"
  /\ IF call.cur = NULL
     THEN call' = [call EXCEPT !.pc = "extend"]
     ELSE /\ ~Fits(call.cur, call.needed)
          /\ call' = [call EXCEPT !.cur = heap[call.cur].next]
  /\ UNCHANGED <<asVars, heap, kheap, live>>

(* Mutant: a failed extension is reported as done, and kmalloc rescans.    *)
Bug_kheap_extend_fails == call' = [call EXCEPT !.pc = "scan", !.cur = kheap.first]

(* kheap_extend returns false, so kheap_init or kmalloc (NULL) returns.    *)
kheap_extend_fails == call' = Idle

PageCount(min_bytes) ==
  LET grow == KHEAP_GROW_PAGES * PMM_PAGE_SIZE
      need_bytes == IF min_bytes < grow THEN grow ELSE min_bytes
  IN  ((need_bytes + PMM_PAGE_SIZE - 1) % U32) \div PMM_PAGE_SIZE

(* Mutant: mapping starts at the last page already in use.                 *)
Bug_ExtendFrom ==
  IF kheap.end = KHEAP_START THEN kheap.end ELSE kheap.end - PMM_PAGE_SIZE

ExtendFrom == kheap.end

kheap_extend ==
  /\ call.pc = "extend"
  /\ \/ /\ kheap.end - KHEAP_START >= KHEAP_MAX_BYTES
        /\ kheap_extend_fails
     \/ /\ kheap.end - KHEAP_START < KHEAP_MAX_BYTES
        /\ call' = [call EXCEPT !.pc = "page", !.map_at = ExtendFrom,
                                !.pages = PageCount(call.needed)]
  /\ UNCHANGED <<asVars, heap, kheap, live>>

(* Mutant: the limit is not enforced page by page.                         *)
Bug_OverLimit == FALSE

OverLimit == call.map_at + PMM_PAGE_SIZE - KHEAP_START > KHEAP_MAX_BYTES

(* Mutant: at the limit the last frame is given back, still mapped.        *)
Bug_StopAtLimit ==
  /\ ClientFree(call.frame)
  /\ held' = held \ {addr_to_frame(call.frame)}
  /\ UNCHANGED <<space, tables>>

(* What was mapped stays mapped.                                           *)
StopAtLimit == UNCHANGED asVars

kheap_extend_limit ==
  /\ call.pc = "page"
  /\ call.pages > 0
  /\ OverLimit
  /\ kheap_extend_fails
  /\ StopAtLimit
  /\ UNCHANGED <<heap, kheap, live>>

kheap_extend_frame ==
  /\ call.pc = "page"
  /\ call.pages > 0
  /\ ~OverLimit
  /\ TakeFrame
  /\ LET frame == pmm_alloc_frame(pmm).addr IN
     IF frame = NULL THEN kheap_extend_fails
     ELSE call' = [call EXCEPT !.pc = "map", !.frame = frame]
  /\ UNCHANGED <<heap, kheap, live>>

kheap_extend_map ==
  /\ call.pc = "map"
  /\ ASMap(page_of(call.map_at), addr_to_frame(call.frame))
  /\ call' = [call EXCEPT !.pc = "page", !.map_at = @ + PMM_PAGE_SIZE,
                          !.pages = @ - 1]
  /\ UNCHANGED <<heap, kheap, live>>

(* Mutant: the result of paging_map_page is ignored.                       *)
Bug_map_failed ==
  /\ call' = [call EXCEPT !.pc = "page", !.map_at = @ + PMM_PAGE_SIZE, !.pages = @ - 1]
  /\ UNCHANGED <<pmmVars, held>>

map_failed ==
  /\ ClientFree(call.frame)
  /\ held' = held \ {addr_to_frame(call.frame)}
  /\ kheap_extend_fails

kheap_extend_map_fails ==
  /\ call.pc = "map"
  /\ pde_idx(page_of(call.map_at)) \notin tables
  /\ Allocatable(pmm) = {}
  /\ map_failed
  /\ UNCHANGED <<space, tables, heap, kheap, live>>

(* All pages are mapped (or there were none to map).  The header written   *)
(* at kheap_end faults when its page is not mapped; page_fault_handler     *)
(* halts the machine.                                                      *)
kheap_extend_link ==
  /\ call.pc = "page"
  /\ call.pages = 0
  /\ IF space[page_of(kheap.end)] = NotMapped
     THEN /\ call' = [call EXCEPT !.pc = "halted"]
          /\ UNCHANGED <<heap, kheap>>
     ELSE /\ heap' = Append_block(heap, call.map_at - kheap.end)
          /\ kheap' = [end |-> call.map_at,
                       first |-> IF kheap.first = NULL THEN kheap.end ELSE kheap.first]
          /\ call' = IF call.op = "kheap_init" THEN Idle
                     ELSE [call EXCEPT !.pc = "scan", !.cur = kheap'.first]
  /\ UNCHANGED <<asVars, live>>

kfree(ptr) ==
  /\ call.pc = "idle"
  /\ LET block == ptr - HEADER IN
     heap' = IF ptr = NULL THEN heap
             ELSE kheap_coalesce([heap EXCEPT ![block].is_free = TRUE], block)
  /\ live' = [p \in DOMAIN live \ {ptr} |-> live[p]]
  /\ UNCHANGED <<asVars, kheap, call>>

kheap_total_bytes == kheap.end - KHEAP_START

kheap_used_bytes ==
  MapThenSumSet(LAMBDA b : heap[b].size, {b \in DOMAIN heap : ~heap[b].is_free})

CallStep ==
  \/ kheap_init
  \/ kmalloc_found
  \/ kmalloc_scan
  \/ kheap_extend
  \/ kheap_extend_limit
  \/ kheap_extend_frame
  \/ kheap_extend_map
  \/ kheap_extend_map_fails
  \/ kheap_extend_link

KHeapNext ==
  \/ KHeapBoot
  \/ CallStep
  \/ \E size \in Sizes : kmalloc(size)
  \/ \E ptr \in DOMAIN live \cup {NULL} : kfree(ptr)

KHeapSpec == KHeapInit /\ [][KHeapNext]_kheapVars

(***************************************************************************)
(* Properties.                                                             *)
(***************************************************************************)
Pcs == {"boot", "idle", "scan", "extend", "page", "map", "halted"}
HeapAddrs == KHEAP_START .. KHEAP_START + KHEAP_MAX_BYTES

(* Types: every header, link, static and pointer of kheap.c stays inside   *)
(* the heap's range of addresses.                                          *)
KHeapTypeOK ==
  /\ DOMAIN heap \subseteq HeapAddrs
  /\ \A b \in DOMAIN heap :
       heap[b] \in [size : 1 .. KHEAP_MAX_BYTES, is_free : BOOLEAN,
                    next : HeapAddrs \cup {NULL}, prev : HeapAddrs \cup {NULL}]
  /\ kheap \in [end : HeapAddrs, first : {NULL, KHEAP_START}]
  /\ call.pc \in Pcs
  /\ DOMAIN live \subseteq HeapAddrs

(* The blocks tile the heap from kheap_start to kheap_end in address       *)
(* order, linked both ways, aligned, none too small for its header: split, *)
(* coalesce and extend leave no gap, no overlap and no dangling link, also *)
(* after extensions that failed half way.  No two free blocks lie side by  *)
(* side, so that once everything is freed the heap is one block again.     *)
ListTilesHeap ==
  /\ (kheap.first = NULL) = (DOMAIN heap = {})
  /\ kheap.first = NULL => kheap.end = KHEAP_START
  /\ kheap.first # NULL => kheap.first = KHEAP_START /\ KHEAP_START \in DOMAIN heap
  /\ \A b \in DOMAIN heap :
       LET end == b + heap[b].size IN
       /\ heap[b].size >= KHEAP_MIN_BLOCK
       /\ b % KHEAP_ALIGN = 0
       /\ (heap[b].prev = NULL) = (b = KHEAP_START)
       /\ heap[b].next = NULL => end = kheap.end
       /\ heap[b].next # NULL => /\ heap[b].next = end
                                 /\ end \in DOMAIN heap
                                 /\ heap[end].prev = b
                                 /\ ~(heap[b].is_free /\ heap[end].is_free)
       /\ \A c \in DOMAIN heap : b < c => end <= c

(* Every pointer handed out is the data of its own used block, with room   *)
(* for the bytes asked for before the next header; no used block is        *)
(* without an owner.                                                       *)
LiveBlocksFit ==
  /\ {b + HEADER : b \in {c \in DOMAIN heap : ~heap[c].is_free}} = DOMAIN live
  /\ \A p \in DOMAIN live : p + live[p] <= (p - HEADER) + heap[p - HEADER].size

(* Every byte of every block is backed: the pages below kheap_end map to   *)
(* distinct frames that the heap holds.                                    *)
HeapPagesBacked ==
  \A a, b \in page_of(KHEAP_START) .. page_of(kheap.end) - 1 :
    /\ space[a] \in held
    /\ a # b => space[a] # space[b]

(* A page of the heap proper never changes its frame again, so nothing a   *)
(* caller stored is lost when a later extension fails or is retried.       *)
HeapPagesStable ==
  [][\A a \in page_of(KHEAP_START) .. page_of(kheap.end) - 1 :
       space'[a] = space[a]]_kheapVars

(* kmalloc answers NULL only when no free block is large enough.           *)
NullMeansNoFit ==
  [][call.op = "kmalloc" /\ call.pc # "idle" /\ call'.pc = "idle" /\ live' = live
       => \A b \in DOMAIN heap :
            heap[b].is_free => heap[b].size < call.needed]_kheapVars

(* Every call returns: the rescan after an extension finds its block.      *)
KmallocReturns == call.op = "kmalloc" ~> call.pc = "idle"

(* The heap is a client that keeps the rules of paging.c: it maps only     *)
(* frames it holds and gives back only frames that no page maps, on every  *)
(* path out of kheap_extend.                                               *)
HeapKeepsPagingRules == ASSpec

(* The first byte past the heap is not mapped, as the comment on kheap_end *)
(* says, whenever no call is in progress.                                  *)
KheapEndUnmapped ==
  call.pc = "idle" /\ kheap.end - KHEAP_START < KHEAP_MAX_BYTES
    => space[page_of(kheap.end)] = NotMapped
=============================================================================
