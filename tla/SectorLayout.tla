---------------------------- MODULE SectorLayout ----------------------------
(***************************************************************************)
(* Layout arithmetic of one erase sector of the flash code cache.          *)
(*                                                                         *)
(* A compiled block occupies [header | native code | epilogue].  Native    *)
(* code starts on a 16-byte boundary and the 8-byte header sits directly   *)
(* in front of it.  The end of every sector holds the trampoline pool of   *)
(* the branch linker.  The allocator, the SA compiler and the linker's     *)
(* header walk all use this arithmetic, each with its own copy in C.       *)
(***************************************************************************)
EXTENDS Integers

CONSTANTS
  SectorSize,    \* FLASH_ERASE_SECTOR_SIZE
  PoolSize,      \* bytes reserved at the end of a sector for trampolines
  CodeSize,      \* CODE_SIZE: most native bytes of one block
  EpilogueSize   \* EPILOGUE_SIZE + XBANK_EPILOGUE_SIZE

ASSUME LayoutAssumption ==
  /\ SectorSize \in Nat /\ PoolSize \in Nat /\ PoolSize <= SectorSize
  /\ CodeSize \in Nat \ {0} /\ EpilogueSize \in Nat \ {0}

BlockHeaderSize == 8
BlockAlignment  == 16

(* Space a block of maximal size asks for: what run_6502 and pass 1 of the
   static compiler request before they know how long the block becomes.   *)
MaxBlock == CodeSize + EpilogueSize

(* First aligned code address that leaves room for a header after cur. *)
CodeStart(cur) ==
  ((cur + BlockHeaderSize + (BlockAlignment - 1)) \div BlockAlignment)
    * BlockAlignment

HeaderStart(cur) == CodeStart(cur) - BlockHeaderSize

(* End of an allocation of size bytes of code and epilogue made at cur. *)
AllocEnd(cur, size) == CodeStart(cur) + size

Fits(cur, size) == AllocEnd(cur, size) <= SectorSize - PoolSize

(* One past the last byte of a block with header at hdr and code_len len. *)
BlockEnd(hdr, len) == hdr + BlockHeaderSize + len

(* Where the linker's walk looks for the header that follows a block. *)
NextHeader(hdr, len) == HeaderStart(BlockEnd(hdr, len))

(* Where opt2_full_branch_scan puts the block-trailing trampoline of a
   block, and whether it finds that slot free of the next header.      *)
TrampolineSize == 3
TrampolineAddr(hdr, len) ==
  hdr + BlockHeaderSize
    + ((len + (BlockAlignment - 1)) \div BlockAlignment) * BlockAlignment
TrampolineFits(hdr, len) ==
  TrampolineAddr(hdr, len) + TrampolineSize <= NextHeader(hdr, len)
=============================================================================
