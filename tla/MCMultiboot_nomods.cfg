CONSTANTS
  PMM_PAGE_SIZE = 16
  PMM_MAX_FRAMES = 8
  KIB = 8
  U32 = 256
  U64 = 65536
  KERNEL_VIRTUAL_BASE = 128
  KERNEL_PHYSICAL_START = 16
  Symbol <- MCSymbol
  MultibootInputs <- NoInputs
  MAX_MMAP_ENTRIES = 3
  IDENTITY_MAP_LIMIT = 192
  MULTIBOOT_BOOTLOADER_MAGIC = 7
  Loaders <- NoModsLoader
SPECIFICATION BootSpec
INVARIANT CopiesAnyMap
CHECK_DEADLOCK FALSE
