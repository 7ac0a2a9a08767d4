CONSTANTS
  PMM_PAGE_SIZE = 8
  PMM_MAX_FRAMES = 16
  KIB = 1
  U32 = 288
  U64 = 1152
  KERNEL_VIRTUAL_BASE = 48
  KERNEL_PHYSICAL_START = 16
  ENTRIES = 6
  VGA_FRAME = 1
  Symbol <- MCSymbol
  MultibootInputs <- Machines
  ClientPages <- MCClientPages
  KHEAP_START = 136
  KHEAP_MAX_BYTES = 32
  KHEAP_ALIGN = 2
  KHEAP_GROW_PAGES = 2
  HEADER = 4
  Sizes = {0, 1, 3, 9, 20, 40}
SPECIFICATION KHeapSpec
INVARIANT KheapEndUnmapped
