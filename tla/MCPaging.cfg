CONSTANTS
  PMM_PAGE_SIZE = 8
  PMM_MAX_FRAMES = 16
  KIB = 1
  U32 = 288
  U64 = 1152
  KERNEL_VIRTUAL_BASE = 48
  KERNEL_PHYSICAL_START = 16
  ENTRIES = 6
  VGA_FRAME = 1
  Symbol <- MCSymbol
  MultibootInputs <- SmallMachines
  ClientPages <- MCClientPages
  Garbage <- MCGarbage
SPECIFICATION PagingSpec
INVARIANT EditedPagesCoherent
INVARIANT TablesPrivate
INVARIANT FramesAccounted
PROPERTY ImplementsAddressSpace
