----------------------------- MODULE KernelMain -----------------------------
(***************************************************************************)
(* kernel_main of kernel/kernel/kernel.c: pmm_init, the self-tests of the  *)
(* frame allocator, of paging and of the heap around kheap_init, and then  *)
(* the kernel's other code, which may call kmalloc and kfree as it likes.  *)
(* Interrupts are off until the shell runs, so the tests run alone; each   *)
(* call they make is a step, since any of them may find no memory.         *)
(* Output is left out but for what the tests report.                       *)
(***************************************************************************)
EXTENDS KHeap

CONSTANTS
  TestPage,          \* the page of test_virt (0xC1000000)
  TestSizeA, TestSizeB   \* what kheap_self_test allocates (64, 128)

ASSUME KernelMainPages ==
  /\ TestPage \in ClientPages
  /\ \A v \in page_of(KHEAP_START) .. page_of(KHEAP_START + KHEAP_MAX_BYTES) - 1 :
       pde_idx(v) # pde_idx(TestPage)
  /\ TestSizeA \in Nat \ {0} /\ TestSizeB \in Nat \ {0}
  /\ \A s \in {TestSizeA, TestSizeB} :
       s + HEADER + KHEAP_ALIGN <= KHEAP_GROW_PAGES * PMM_PAGE_SIZE
  /\ kheap_align(TestSizeA + HEADER) + kheap_align(TestSizeB + HEADER)
       <= KHEAP_GROW_PAGES * PMM_PAGE_SIZE

VARIABLES
  main,    \* pc of kernel_main, and the tests' pointers a (or frame) and b
  report   \* what each test printed

mainVars == <<kheapVars, main, report>>

KernelInit ==
  /\ KHeapInit
  /\ main = [pc |-> "pmm_init", a |-> NULL, b |-> NULL]
  /\ report = [test \in {"pmm", "paging", "kheap"} |-> "none"]

Goto(pc) == main' = [main EXCEPT !.pc = pc] /\ UNCHANGED report

Done(test, ok, pc) ==
  /\ report' = [report EXCEPT ![test] = IF ok THEN "ok" ELSE "failed"]
  /\ main' = [pc |-> pc, a |-> NULL, b |-> NULL]

UnchangedHeap == UNCHANGED <<heap, kheap, call, live>>

(* Mutant: the frame is forgotten.                                         *)
Bug_Release(frame) == UNCHANGED asVars

Release(frame) == GiveFrame(addr_to_frame(frame))

main_pmm_init ==
  /\ main.pc = "pmm_init"
  /\ KHeapBoot
  /\ Goto(IF init'.step = "ready" THEN "pmm_a" ELSE "pmm_init")

(* pmm_self_test.                                                          *)
pmm_test_alloc_a ==
  /\ main.pc = "pmm_a"
  /\ TakeFrame
  /\ main' = [main EXCEPT !.pc = "pmm_b", !.a = pmm_alloc_frame(pmm).addr]
  /\ UnchangedHeap /\ UNCHANGED report

pmm_test_alloc_b ==
  /\ main.pc = "pmm_b"
  /\ TakeFrame
  /\ LET b == pmm_alloc_frame(pmm).addr IN
     IF main.a = NULL \/ b = NULL \/ main.a = b
     THEN Done("pmm", FALSE, "paging")
     ELSE main' = [main EXCEPT !.pc = "pmm_free_a", !.b = b] /\ UNCHANGED report
  /\ UnchangedHeap

pmm_test_free_a ==
  /\ main.pc = "pmm_free_a"
  /\ Release(main.a)
  /\ Goto("pmm_free_b")
  /\ UnchangedHeap

pmm_test_free_b ==
  /\ main.pc = "pmm_free_b"
  /\ Release(main.b)
  /\ Done("pmm", TRUE, "paging")
  /\ UnchangedHeap

(* paging_self_test.                                                       *)
paging_test_alloc ==
  /\ main.pc = "paging"
  /\ TakeFrame
  /\ LET frame == pmm_alloc_frame(pmm).addr IN
     IF frame = NULL THEN Done("paging", FALSE, "kheap_init")
     ELSE main' = [main EXCEPT !.pc = "paging_map", !.a = frame] /\ UNCHANGED report
  /\ UnchangedHeap

paging_test_map ==
  /\ main.pc = "paging_map"
  /\ IF pde_idx(TestPage) \notin tables /\ Allocatable(pmm) = {}
     THEN Release(main.a) /\ Done("paging", FALSE, "kheap_init")
     ELSE ASMap(TestPage, addr_to_frame(main.a)) /\ Goto("paging_unmap")
  /\ UnchangedHeap

(* The word written is read back through the one mapping; then             *)
(* paging_get_physical is asked, and every outcome unmaps the page.        *)
paging_test_unmap ==
  /\ main.pc = "paging_unmap"
  /\ ASUnmap(TestPage)
  /\ Goto(IF space[TestPage] = addr_to_frame(main.a) THEN "paging_free" ELSE "paging_bad")
  /\ UnchangedHeap

paging_test_free ==
  /\ main.pc \in {"paging_free", "paging_bad"}
  /\ Release(main.a)
  /\ Done("paging", main.pc = "paging_free" /\ space[TestPage] = NotMapped, "kheap_init")
  /\ UnchangedHeap

main_kheap_init ==
  /\ main.pc = "kheap_init"
  /\ kheap_init
  /\ Goto("kheap_a")

(* A step of kheap_init, kmalloc or kheap_extend once called.              *)
main_call_step ==
  /\ call.pc # "boot"
  /\ CallStep
  /\ UNCHANGED <<main, report>>

(* kheap_self_test.  Result is what the call that just ended returned.     *)
Result(known) ==
  IF DOMAIN live = known THEN NULL ELSE CHOOSE p \in DOMAIN live \ known : TRUE

kheap_test_alloc_a ==
  /\ main.pc = "kheap_a"
  /\ kmalloc(TestSizeA)
  /\ Goto("kheap_b")

kheap_test_alloc_b ==
  /\ main.pc = "kheap_b"
  /\ kmalloc(TestSizeB)
  /\ main' = [main EXCEPT !.pc = "kheap_check", !.a = Result({})]
  /\ UNCHANGED report

(* A missing block ends the test without freeing the other.                *)
kheap_test_check ==
  /\ main.pc = "kheap_check"
  /\ call.pc = "idle"
  /\ LET b == Result({main.a} \ {NULL}) IN
     IF main.a = NULL \/ b = NULL THEN Done("kheap", FALSE, "shell")
     ELSE main' = [main EXCEPT !.pc = "kheap_free_a", !.b = b] /\ UNCHANGED report
  /\ UNCHANGED kheapVars

kheap_test_free_a ==
  /\ main.pc = "kheap_free_a"
  /\ kfree(main.a)
  /\ Goto("kheap_free_b")

(* What was written to both blocks read back if they do not overlap.       *)
kheap_test_free_b ==
  /\ main.pc = "kheap_free_b"
  /\ kfree(main.b)
  /\ Done("kheap", \/ main.a + TestSizeA <= main.b
                   \/ main.b + TestSizeB <= main.a, "shell")

(* After keyboard_init and sti the shell runs, and any code may allocate.  *)
shell_call ==
  /\ main.pc = "shell"
  /\ \/ \E size \in Sizes : kmalloc(size)
     \/ \E ptr \in DOMAIN live \cup {NULL} : kfree(ptr)
  /\ UNCHANGED <<main, report>>

KernelStep ==
  \/ main_pmm_init
  \/ pmm_test_alloc_a
  \/ pmm_test_alloc_b
  \/ pmm_test_free_a
  \/ pmm_test_free_b
  \/ paging_test_alloc
  \/ paging_test_map
  \/ paging_test_unmap
  \/ paging_test_free
  \/ main_kheap_init
  \/ main_call_step
  \/ kheap_test_alloc_a
  \/ kheap_test_alloc_b
  \/ kheap_test_check
  \/ kheap_test_free_a
  \/ kheap_test_free_b

KernelNext == KernelStep \/ shell_call

(* kernel_main and the calls it makes run on; nobody need allocate later.  *)
KernelSpec == KernelInit /\ [][KernelNext]_mainVars /\ WF_mainVars(KernelStep)

(***************************************************************************)
(* Properties.                                                             *)
(***************************************************************************)
Owned == {f \in Frames : owners[f] # 0}

(* The frames pmm_init left free: those free now and those handed out.     *)
FreeAtBoot == Cardinality(Allocatable(pmm)) + Cardinality(Owned)

HeapPages(pages) == page_of(KHEAP_START) .. page_of(KHEAP_START) + pages - 1

AllOk == \A test \in DOMAIN report : report[test] = "ok"

(* The tests of the frame allocator and of paging leave the memory as they *)
(* found it but for the page table of the test page; a lone free frame is  *)
(* kept by the first test, which then reports a failure.                   *)
TestsReleaseFrames ==
  main.pc = "kheap_init" =>
    /\ Cardinality(held) = IF FreeAtBoot = 1 THEN 1 ELSE 0
    /\ held # {} => report["pmm"] = "failed"
    /\ \A v \in ClientPages : space[v] = NotMapped
    /\ Cardinality(Owned) = Cardinality(held) + Cardinality(tables \ {KERNEL_PDE})

(* The tests report success exactly on machines with memory for what they  *)
(* need: the test page's table, the first pages of the heap and the page   *)
(* tables above those.                                                     *)
TestsOkWithEnoughMemory ==
  main.pc = "shell" =>
    (AllOk <=> FreeAtBoot >= 1 + KHEAP_GROW_PAGES
                 + Cardinality({pde_idx(v) : v \in HeapPages(KHEAP_GROW_PAGES)}))

(* When they do, the heap is handed over as new: one free block, nothing   *)
(* used by the count kheap_self_test prints, and no frame held that the    *)
(* heap does not map.                                                      *)
HeapHandedOverClean ==
  [][main.pc # "shell" /\ main'.pc = "shell" /\ AllOk' =>
      /\ live' = << >>
      /\ DOMAIN heap' = {KHEAP_START}
      /\ kheap_used_bytes' = 0
      /\ kheap_total_bytes' = heap'[KHEAP_START].size
      /\ held' = {space'[v] : v \in HeapPages(kheap_total_bytes' \div PMM_PAGE_SIZE)}
    ]_mainVars
=============================================================================
