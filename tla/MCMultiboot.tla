---------------------------- MODULE MCMultiboot ----------------------------
(***************************************************************************)
(* A 256-byte "4 GiB" address space of 16-byte pages whose first 192 bytes *)
(* boot.S identity-maps, the last page of them onto the VGA buffer; room   *)
(* for 3 entries of the memory map; a bitmap of 8 frames, the kernel in    *)
(* frames 1 to 3.  The structure itself has its real layout.               *)
(***************************************************************************)
EXTENDS Multiboot

MCSymbol ==
  [_kernel_end |-> 128 + 52, boot_page_directory |-> 128 + 16,
   boot_page_table1 |-> 128 + 32, stack_bottom |-> 128 + 20,
   stack_top |-> 128 + 28, pmm_bitmap |-> 128 + 40]

Region(addr, len, type) == [addr |-> addr, len |-> len, type |-> type]

UpToTwo(regions) == {<<r>> : r \in regions} \cup {<<r, s>> : r, s \in regions}

(* Any two entries: overlapping, unaligned, empty, above 4 GiB.            *)
OddMaps == UpToTwo([addr : {0, 24, 64, 256}, len : {0, 36, 64, 96}, type : 1 .. 3])

(* What firmware normally reports, page-aligned regions that end below     *)
(* 4 GiB, in any order.                                                    *)
AlignedMaps == UpToTwo([addr : {0, 16, 64, 96}, len : {16, 32, 64}, type : 1 .. 4])

(* None, one, the most that fit, one too many, and some above 4 GiB.       *)
SomeMaps ==
  {<<>>, <<Region(0, 128, 1)>>, <<Region(256, 32, 1)>>,
   <<Region(0, 16, 1), Region(16, 48, 2), Region(64, 64, 1)>>,
   <<Region(0, 16, 1), Region(16, 48, 2), Region(64, 32, 1), Region(96, 32, 2)>>}

Whole == 1 + 2 + 4 + 8 + 64   \* every flag but those of the symbol tables

Loader(flags, mmap, mem_upper, entry_size, other, info, mmap_addr) ==
  [magic |-> 7, flags |-> flags, mmap |-> mmap, mem_upper |-> mem_upper,
   entry_size |-> entry_size, other |-> other, info |-> info,
   mmap_addr |-> mmap_addr]

(* Loaders that announce everything: with every map, mem_upper ending      *)
(* inside a page or with one; and with either symbol table and entries of  *)
(* 20 or 24 bytes.                                                         *)
WholeLoaders ==
  {Loader(Whole + 32, m, u, 20, 0, 8, 64) : m \in OddMaps \cup AlignedMaps, u \in {0, 9, 10}}
    \cup {Loader(Whole + f, m, u, n, 0, 8, 64) :
            f \in {16, 32}, m \in SomeMaps, u \in {0, 8}, n \in {20, 24}}

(* Loaders that announce anything, with memory around the structure that   *)
(* reads as too small a size, as entries that stay (252), go back (228) or *)
(* leave the identity map, or as a pointer to any of these.                *)
PartialLoaders ==
  {Loader(f, <<Region(0, 128, 1), Region(32, 32, 2)>>, 8, 20, o, 8, 64) :
     f \in 0 .. 127, o \in {0, 20, 64, 148, 180, 228, 252}}

(* Loaders that place the structure or the map where it cannot be read.    *)
MisplacedLoaders ==
  {Loader(Whole + 32, <<Region(0, 128, 1), Region(32, 32, 2)>>, 8, 20, o, i, a) :
     o \in {0, 20, 252}, i \in {0, 8, 124, 152, 184, 192}, a \in {0, 64, 144, 184, 192}}

MCLoaders ==
  WholeLoaders \cup PartialLoaders \cup MisplacedLoaders
    \cup {[l EXCEPT !.magic = 0] : l \in MisplacedLoaders}

(* GRUB's answer to a kernel it was given no modules for.                  *)
NoModsLoader ==
  {Loader(Whole + 32 - 8, <<Region(0, 32, 1), Region(64, 64, 1)>>, 8, 20, 0, 8, 64)}

NoInputs == {}
=============================================================================
