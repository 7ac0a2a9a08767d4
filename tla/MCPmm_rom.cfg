CONSTANTS
  PMM_PAGE_SIZE = 4
  PMM_MAX_FRAMES = 8
  KIB = 1
  U32 = 64
  U64 = 256
  KERNEL_VIRTUAL_BASE = 48
  KERNEL_PHYSICAL_START = 4
  Symbol <- MCSymbol
  MultibootInputs <- RomMaps
SPECIFICATION PmmSpec
INVARIANT SizedByHighestEnd
