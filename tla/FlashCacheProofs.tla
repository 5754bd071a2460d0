-------------------------- MODULE FlashCacheProofs --------------------------
(***************************************************************************)
(* Proofs about FlashCache for every guest program, number of sectors and  *)
(* sector geometry.                                                        *)
(*                                                                         *)
(* ExtentsDisjoint is not inductive: it says nothing of the space a        *)
(* compile has reserved, of the free offsets, or of the ROM data copies    *)
(* that a shrink and an undo must not give back.  JobInv says where those  *)
(* lie.                                                                    *)
(***************************************************************************)
EXTENDS FlashCache, TLAPS

Compiling == {"loop", "undo", "program", "seal", "publish", "flag"}
Programmed == {"seal", "publish", "flag"}

ReservedEnd == flash_code_address + BlockHeaderSize + MaxBlock

(* The buffer of the compile in progress. *)
BufferInv ==
  /\ stage \in Compiling =>
       /\ ReservedEnd <= SectorSize - PoolSize
       /\ next_free_sector = flash_code_sector
  /\ stage = "loop" => pc \in Rom /\ code_index <= CodeSize - 6
  /\ stage = "undo" => code_index = 0
  /\ stage \in Programmed => ThisBlock \in blocks

(* The block being published and the PC tables. *)
PublishInv ==
  /\ stage \in {"publish", "flag"} =>
       ThisBlock \in sealed /\ unpublished \subseteq Publishable
  /\ stage = "flag" =>
       \A p \in Pc : Publishing(p) => pc_native[p] = NativeAddr(instr_off[p])

(* All of flash below the free offsets, and the reservation of this compile
   free of everything but the block itself.                                *)
BelowFree ==
  stage # "off" =>
    /\ \A b \in blocks : EndOf(b) <= sector_free_offset[b.sec]
    /\ \A c \in copies : CopyEnd(c) <= sector_free_offset[c.sec]

JobInv ==
  stage \in Compiling =>
    /\ ReservedEnd <= sector_free_offset[flash_code_sector]
    /\ \A b \in blocks : b.sec = flash_code_sector =>
         \/ EndOf(b) <= flash_code_address
         \/ stage \in Programmed /\ b = ThisBlock
    /\ \A c \in copies : c.sec = flash_code_sector =>
         \/ CopyEnd(c) <= flash_code_address
         \/ /\ c.base >= ReservedEnd /\ CopyEnd(c) <= sector_alloc_floor
            /\ code_index > 0
-----------------------------------------------------------------------------
(* The arithmetic of the allocator: rounding up leaves room for a header. *)
LEMMA HeaderRoom ==
  ASSUME NEW cur \in Nat
  PROVE  /\ CodeStart(cur) \in Nat /\ HeaderStart(cur) \in Nat
         /\ HeaderStart(cur) >= cur
         /\ CodeStart(cur) = HeaderStart(cur) + BlockHeaderSize
BY DEF CodeStart, HeaderStart, BlockHeaderSize, BlockAlignment

LEMMA MaxBlockNat == MaxBlock \in Nat
BY LayoutAssumption DEF MaxBlock
-----------------------------------------------------------------------------
(* What one instruction can add to the buffer never overflows it. *)
LEMMA EmitFits ==
  ASSUME NEW p \in Pc, NEW n \in 0..(CodeSize - 6), EmitsCode(p, n)
  PROVE  /\ Insn[p].size \in Nat /\ n + Insn[p].size \in 0..CodeSize
         /\ Continues(p, n) => n + Insn[p].size <= CodeSize - 6
<1>1. Insn[p].size \in Nat /\ Insn[p].slack \in Nat
  BY CacheAssumption
<1>2. CASE Insn[p].kind \in {"plain", "romread"}
  BY <1>1, <1>2, CacheAssumption, LayoutAssumption DEF Continues
<1>3. CASE RoomLeft(p, n)
  BY <1>1, <1>3, CacheAssumption, LayoutAssumption DEF Continues, RoomLeft
<1> QED
  BY <1>2, <1>3 DEF EmitsCode

LEMMA NextPcType ==
  ASSUME NEW p \in Pc
  PROVE  NextPc(p) \in 0..(LastPc + 1)
<1>1. Insn[p].target \in Pc
  BY CacheAssumption
<1>2. LastPc \in Nat
  BY CacheAssumption
<1> QED
  BY <1>1, <1>2 DEF NextPc, Pc

TypeInv == TypeOK /\ BufferInv

LEMMA TypeInit == Init => TypeInv
<1> SUFFICES ASSUME Init PROVE TypeInv
  OBVIOUS
<1> USE CacheAssumption, LayoutAssumption DEF Init
<1>1. 0 \in 0..SectorSize /\ 0 \in 0..CodeSize /\ 0 \in Sector
  BY DEF Sector
<1>2. pc_native \in [Pc -> (0..Sectors) \X Nat]
  BY DEF NoAddr
<1>3. instr_off \in [Pc -> NativeOff]
  BY DEF NoInstr, NativeOff
<1>4. pc \in 0..(LastPc + 1) /\ entry_pc \in Pc
  BY DEF Pc
<1>5. BufferInv
  BY DEF BufferInv, Compiling, Programmed
<1> QED
  BY <1>1, <1>2, <1>3, <1>4, <1>5 DEF TypeInv, TypeOK, Flags, Stages

(* The marks of the interpreter leave the tables well typed. *)
LEMMA MarkType ==
  ASSUME TypeInv, NEW p \in Pc, MarkInterpreted(p)
  PROVE  /\ pc_flag' \in [Pc -> Flags]
         /\ pc_native' \in [Pc -> (0..Sectors) \X Nat]
<1>1. /\ flash_code_sector \in Sector /\ flash_code_address \in 0..SectorSize
      /\ code_index \in 0..CodeSize
      /\ pc_flag \in [Pc -> Flags] /\ pc_native \in [Pc -> (0..Sectors) \X Nat]
  BY DEF TypeInv, TypeOK
<1>2. flash_code_sector \in 0..Sectors
  BY <1>1, CacheAssumption DEF Sector
<1>3. flash_code_address + BlockHeaderSize + code_index \in Nat
  BY <1>1, LayoutAssumption DEF BlockHeaderSize
<1>4. NativeAddr(code_index) \in (0..Sectors) \X Nat
  BY <1>2, <1>3 DEF NativeAddr
<1> QED
  BY <1>1, <1>4 DEF MarkInterpreted, Flags

(* A torn mark gives an address to a PC that has none, and no flag. *)
LEMMA TornKeeps ==
  ASSUME TypeInv, NEW p \in Pc, NEW off \in Nat, TornMark(p, off)
  PROVE  /\ stage' = "off" /\ pc_flag' = pc_flag
         /\ pc_native' \in [Pc -> (0..Sectors) \X Nat]
         /\ pc_flag[p] = Erased
         /\ \A q \in Pc : q # p => pc_native'[q] = pc_native[q]
<1>1. /\ flash_code_sector \in Sector /\ flash_code_address \in 0..SectorSize
      /\ pc_native \in [Pc -> (0..Sectors) \X Nat]
  BY DEF TypeInv, TypeOK
<1>2. flash_code_sector \in 0..Sectors
  BY <1>1, CacheAssumption DEF Sector
<1>3. flash_code_address + BlockHeaderSize + off \in Nat
  BY <1>1, LayoutAssumption DEF BlockHeaderSize
<1>4. NativeAddr(off) \in (0..Sectors) \X Nat
  BY <1>2, <1>3 DEF NativeAddr
<1> QED
  BY <1>1, <1>4 DEF TornMark, SlotErased

(* The compile is gone with the power, and its part of the type too. *)
LEMMA OffBuffer == ASSUME stage' = "off" PROVE BufferInv'
BY DEF BufferInv, Compiling, Programmed

(* Emit and StopHere, the two ways a turn of the compile loop ends. *)
LEMMA EmitType ==
  ASSUME TypeInv, stage = "loop", EmitsCode(pc, code_index), Emit,
         UNCHANGED <<flash_code_sector, flash_code_address, entry_pc,
                     next_free_sector, unpublished>>
  PROVE  /\ code_index' \in 0..CodeSize /\ instr_off' \in [Pc -> NativeOff]
         /\ pc' \in 0..(LastPc + 1) /\ stage' \in Stages /\ BufferInv'
<1>1. pc \in Pc /\ code_index \in 0..(CodeSize - 6)
  BY CacheAssumption, LayoutAssumption
     DEF TypeInv, TypeOK, BufferInv
<1>2. /\ Insn[pc].size \in Nat /\ code_index' \in 0..CodeSize
      /\ Continues(pc, code_index) => code_index' <= CodeSize - 6
  BY <1>1, EmitFits DEF Emit
<1>3. pc' \in 0..(LastPc + 1)
  BY <1>1, NextPcType DEF Emit
<1>4. instr_off' \in [Pc -> NativeOff]
  BY <1>1 DEF Emit, TypeInv, TypeOK, NativeOff
<1>5. stage' \in {"loop", "undo", "program"}
  BY DEF Emit
<1>6. /\ stage' = "loop" => pc' \in Rom /\ code_index' <= CodeSize - 6
      /\ stage' = "undo" => code_index' = 0
  BY <1>2 DEF Emit, Continues
<1>7. BufferInv'
  BY <1>5, <1>6 DEF TypeInv, BufferInv, Compiling, Programmed, ReservedEnd
<1> QED
  BY <1>2, <1>3, <1>4, <1>5, <1>7 DEF Stages

LEMMA StopType ==
  ASSUME TypeInv, stage = "loop", StopHere,
         UNCHANGED <<flash_code_sector, flash_code_address, entry_pc,
                     next_free_sector, unpublished>>
  PROVE  /\ pc_flag' \in [Pc -> Flags]
         /\ pc_native' \in [Pc -> (0..Sectors) \X Nat]
         /\ code_index' \in 0..CodeSize /\ instr_off' \in [Pc -> NativeOff]
         /\ pc' \in 0..(LastPc + 1) /\ stage' \in Stages /\ BufferInv'
<1>1. pc \in Pc
  BY CacheAssumption DEF TypeInv, BufferInv
<1>2. code_index \in Nat /\ pc_flag \in [Pc -> Flags]
  BY LayoutAssumption DEF TypeInv, TypeOK
<1>3. CASE TornMark(pc, code_index)
  BY <1>1, <1>2, <1>3, TornKeeps, OffBuffer
     DEF StopHere, TypeInv, TypeOK, Stages
<1>4. CASE /\ MarkInterpreted(pc)
           /\ stage' = IF code_index = 0 THEN "undo" ELSE "program"
  <2>1. BufferInv'
    BY <1>4 DEF StopHere, TypeInv, BufferInv, Compiling, Programmed, ReservedEnd
  <2> QED
    BY <1>1, <1>4, <2>1, MarkType DEF StopHere, TypeInv, TypeOK, Stages
<1> QED
  BY <1>3, <1>4 DEF StopHere

LEMMA BeginType ==
  ASSUME TypeInv, NEW s \in Sector, BeginBlock(s) PROVE TypeInv'
<1> USE CacheAssumption, LayoutAssumption
<1>1. /\ sector_free_offset[s] \in 0..SectorSize /\ stage = "dispatch"
      /\ pc \in Rom /\ pc \in Pc
  BY DEF TypeInv, TypeOK, BeginBlock, NeedsCompile
<1>2. Fits(sector_free_offset[s], MaxBlock)
  BY DEF BeginBlock, FirstFit, BlockFits
<1>3. /\ CodeStart(sector_free_offset[s]) \in Nat
      /\ HeaderStart(sector_free_offset[s]) \in Nat
      /\ CodeStart(sector_free_offset[s])
           = HeaderStart(sector_free_offset[s]) + BlockHeaderSize
  BY <1>1, HeaderRoom
<1>4. /\ AllocEnd(sector_free_offset[s], MaxBlock) \in 0..(SectorSize - PoolSize)
      /\ flash_code_address' \in 0..SectorSize
      /\ ReservedEnd' = AllocEnd(sector_free_offset[s], MaxBlock)
  BY <1>2, <1>3, MaxBlockNat
     DEF AllocEnd, Fits, BeginBlock, ReservedEnd, BlockHeaderSize
<1>5. BufferInv'
  BY <1>1, <1>4 DEF BeginBlock, BufferInv, Programmed, Compiling
<1>6. NoInstr \in [Pc -> NativeOff]
  BY DEF NoInstr, NativeOff
<1> QED
  BY <1>1, <1>4, <1>5, <1>6
     DEF TypeInv, TypeOK, BeginBlock, flashVars, Stages

LEMMA NoRoomType == ASSUME TypeInv, NoRoom PROVE TypeInv'
<1> USE CacheAssumption, LayoutAssumption
<1>1. NativeAddr(0) \in (0..Sectors) \X Nat
  <2>1. flash_code_address + BlockHeaderSize + 0 \in Nat
    BY DEF TypeInv, TypeOK, BlockHeaderSize
  <2>2. flash_code_sector \in 0..Sectors
    BY DEF TypeInv, TypeOK, Sector
  <2> QED
    BY <2>1, <2>2 DEF NativeAddr
<1>2. pc \in Pc /\ stage = "dispatch"
  BY DEF NoRoom, NeedsCompile
<1>3. /\ pc_flag' \in [Pc -> Flags]
      /\ pc_native' \in [Pc -> (0..Sectors) \X Nat]
      /\ stage' \in {"off", "dispatch"}
  BY <1>1, <1>2 DEF NoRoom, TornMark, TypeInv, TypeOK, Flags
<1>4. BufferInv'
  BY <1>3 DEF BufferInv, Compiling, Programmed
<1>5. pc' \in 0..(LastPc + 1)
  BY DEF NoRoom, Pc
<1> QED
  BY <1>3, <1>4, <1>5 DEF TypeInv, TypeOK, NoRoom, jobVars, Stages

LEMMA InstructionType == ASSUME TypeInv, CompileInstruction PROVE TypeInv'
<1>1. UNCHANGED <<flash_code_sector, flash_code_address, entry_pc,
                  next_free_sector, unpublished>>
  BY DEF CompileInstruction, wramVars
<1>2. CASE EmitsCode(pc, code_index) /\ Emit /\ UNCHANGED <<pc_flag, pc_native>>
  BY <1>1, <1>2, EmitType
     DEF CompileInstruction, TypeInv, TypeOK, wramVars
<1>3. CASE StopHere
  BY <1>1, <1>3, StopType
     DEF CompileInstruction, TypeInv, TypeOK, wramVars
<1> QED
  BY <1>2, <1>3 DEF CompileInstruction

LEMMA RomReadType ==
  ASSUME TypeInv, NEW s \in Sector, CompileRomRead(s) PROVE TypeInv'
<1> USE CacheAssumption, LayoutAssumption
<1>1. UNCHANGED <<flash_code_sector, flash_code_address, entry_pc,
                  next_free_sector, unpublished>>
  BY DEF CompileRomRead
<1>2. /\ stage = "loop" /\ EmitsCode(pc, code_index)
      /\ sector_free_offset[s] \in 0..SectorSize
      /\ sector_free_offset[s] + CopySize \in 0..SectorSize
  BY DEF CompileRomRead, EmitsCode, TypeInv, TypeOK, FirstFit, CopyFits
<1>3. /\ sector_free_offset' \in [Sector -> 0..SectorSize]
      /\ sector_alloc_floor' \in 0..SectorSize
  BY <1>2 DEF CompileRomRead, TypeInv, TypeOK
<1>4. \A c \in copies' : c.sec \in Sector /\ c.base \in Nat
  BY <1>2 DEF CompileRomRead, TypeInv, TypeOK
<1>5. CASE Emit /\ UNCHANGED <<pc_flag, pc_native>>
  BY <1>1, <1>2, <1>3, <1>4, <1>5, EmitType
     DEF CompileRomRead, TypeInv, TypeOK
<1>6. CASE StopHere
  BY <1>1, <1>2, <1>3, <1>4, <1>6, StopType
     DEF CompileRomRead, TypeInv, TypeOK
<1> QED
  BY <1>5, <1>6 DEF CompileRomRead

LEMMA RomReadNoRoomType == ASSUME TypeInv, CompileRomReadNoRoom PROVE TypeInv'
BY StopType DEF CompileRomReadNoRoom, TypeInv, TypeOK, wramVars

LEMMA UndoType == ASSUME TypeInv, Undo PROVE TypeInv'
<1> USE CacheAssumption
<1>1. sector_free_offset' \in [Sector -> 0..SectorSize]
  BY DEF Undo, FreeAfterUndo, TypeInv, TypeOK
<1>2. pc' \in 0..(LastPc + 1)
  BY DEF Undo, Pc
<1>3. BufferInv'
  BY DEF Undo, BufferInv, Compiling, Programmed
<1> QED
  BY <1>1, <1>2, <1>3 DEF Undo, TypeInv, TypeOK, flashVars, jobVars, Stages

LEMMA ProgramType == ASSUME TypeInv, ProgramBlock PROVE TypeInv'
<1> USE CacheAssumption, LayoutAssumption
<1>1. /\ ThisBlock.sec \in Sector /\ ThisBlock.base \in Nat
      /\ ThisBlock.len \in Nat /\ ThisBlock.entry \in Pc
      /\ ThisBlock.offs \in [Pc -> NativeOff]
  BY DEF ThisBlock, TypeInv, TypeOK
<1>2. BufferInv'
  BY DEF ProgramBlock, wramVars, jobVars, TypeInv, BufferInv, Compiling,
         Programmed, ReservedEnd, ThisBlock
<1>3. \A b \in blocks' :
        /\ b.sec \in Sector /\ b.base \in Nat /\ b.len \in Nat
        /\ b.entry \in Pc /\ b.offs \in [Pc -> NativeOff]
  BY <1>1 DEF ProgramBlock, TypeInv, TypeOK
<1> QED
  BY <1>2, <1>3 DEF ProgramBlock, TypeInv, TypeOK, wramVars, jobVars, Stages

LEMMA SealType == ASSUME TypeInv, SealBlock PROVE TypeInv'
<1>1. ThisBlock \in blocks
  BY DEF SealBlock, TypeInv, BufferInv, Programmed
<1>2. BufferInv'
  BY DEF SealBlock, wramVars, TypeInv, BufferInv, Compiling, Programmed,
         ReservedEnd, ThisBlock
<1> QED
  BY <1>1, <1>2 DEF SealBlock, TypeInv, TypeOK, wramVars, Stages, Publishable

LEMMA PublishAddressType ==
  ASSUME TypeInv, NEW p \in Pc, PublishAddress(p) PROVE TypeInv'
<1> USE CacheAssumption, LayoutAssumption
<1>1. pc_native' \in [Pc -> (0..Sectors) \X Nat]
  <2>1. CASE ~SlotErased(p)
    BY <2>1 DEF PublishAddress, TypeInv, TypeOK
  <2>2. CASE SlotErased(p)
    <3>1. instr_off[p] \in Int /\ instr_off[p] >= -1
      BY DEF TypeInv, TypeOK, NativeOff, NoOff
    <3>2. flash_code_sector \in 0..Sectors /\ flash_code_address \in Nat
      BY DEF TypeInv, TypeOK, Sector
    <3>3. flash_code_address + BlockHeaderSize + instr_off[p] \in Nat
      BY <3>1, <3>2 DEF BlockHeaderSize
    <3> QED
      BY <2>2, <3>2, <3>3
         DEF PublishAddress, NativeAddr, TypeInv, TypeOK
  <2> QED
    BY <2>1, <2>2
<1>2. BufferInv'
  BY DEF PublishAddress, wramVars, TypeInv, BufferInv, Compiling, Programmed,
         ReservedEnd, ThisBlock
<1> QED
  BY <1>1, <1>2 DEF PublishAddress, TypeInv, TypeOK, wramVars, Stages

LEMMA PublishFlagType ==
  ASSUME TypeInv, NEW p \in Pc, PublishFlag(p) PROVE TypeInv'
<1>1. BufferInv'
  BY DEF PublishFlag, wramVars, TypeInv, BufferInv, Compiling, Programmed,
         ReservedEnd, ThisBlock
<1> QED
  BY <1>1 DEF PublishFlag, TypeInv, TypeOK, wramVars, Stages, Flags

LEMMA ShrinkType == ASSUME TypeInv, Shrink PROVE TypeInv'
<1> USE CacheAssumption, LayoutAssumption
<1>1. FreeAfterShrink \in 0..SectorSize
  BY DEF Shrink, FreeAfterShrink, UsedEnd, TypeInv, TypeOK, BufferInv, Compiling,
         ReservedEnd, MaxBlock, BlockEnd, BlockHeaderSize
<1>2. BufferInv'
  BY DEF Shrink, BufferInv, Compiling, Programmed
<1>3. pc' \in 0..(LastPc + 1)
  BY DEF Shrink, TypeInv, TypeOK, Pc
<1> QED
  BY <1>1, <1>2, <1>3
     DEF Shrink, TypeInv, TypeOK, flashVars, jobVars, Stages

LEMMA BootType == ASSUME TypeInv, Boot PROVE TypeInv'
<1> USE CacheAssumption, LayoutAssumption
<1>1. /\ sector_free_offset' \in [Sector -> 0..SectorSize]
      /\ next_free_sector' \in Sector
  BY DEF Boot, Sector
<1>2. [p \in Pc |-> NoAddr] \in [Pc -> (0..Sectors) \X Nat]
  BY DEF NoAddr
<1>3. BufferInv'
  BY DEF Boot, BufferInv, Compiling, Programmed
<1>4. /\ pc_flag' \in [Pc -> Flags]
      /\ pc_native' \in [Pc -> (0..Sectors) \X Nat]
      /\ signature' \in BOOLEAN
  BY <1>2 DEF Boot, FlashFormat, flashVars, TypeInv, TypeOK, Flags
<1>5. /\ blocks' \subseteq blocks /\ copies' \subseteq copies
      /\ sealed' \subseteq blocks'
  BY DEF Boot, FlashFormat, flashVars, TypeInv, TypeOK
<1>6. pc' \in 0..(LastPc + 1)
  BY DEF Boot, Pc
<1> QED
  BY <1>1, <1>3, <1>4, <1>5, <1>6 DEF Boot, TypeInv, TypeOK, jobVars, Stages

LEMMA ResetType == ASSUME TypeInv, Reset PROVE TypeInv'
BY OffBuffer
   DEF Reset, TypeInv, TypeOK, flashVars, wramVars, jobVars, Stages

LEMMA GuestType == ASSUME TypeInv, RunGuest PROVE TypeInv'
<1> USE CacheAssumption
<1>1. pc' \in 0..(LastPc + 1)
  BY DEF RunGuest, Pc
<1>2. BufferInv'
  BY DEF RunGuest, BufferInv, Compiling, Programmed
<1> QED
  BY <1>1, <1>2
     DEF RunGuest, TypeInv, TypeOK, flashVars, wramVars, jobVars, Stages

LEMMA TypeStutter == ASSUME TypeInv, UNCHANGED vars PROVE TypeInv'
BY DEF vars, flashVars, wramVars, jobVars, TypeInv, TypeOK, BufferInv,
       Compiling, Programmed, ReservedEnd, ThisBlock

LEMMA TypeNext == ASSUME TypeInv, [Next]_vars PROVE TypeInv'
BY BeginType, NoRoomType, InstructionType, RomReadType, RomReadNoRoomType,
   UndoType, ProgramType, SealType, PublishAddressType, PublishFlagType,
   ShrinkType, BootType, ResetType, GuestType, TypeStutter
   DEF Next, CompileStep

(* Every variable keeps its type; in particular the staging buffer, the free
   offsets and the allocation floor stay in range for every guest program,
   although the compile loop checks the room left only after it has emitted. *)
THEOREM TypeCorrect == Spec => []TypeOK
<1>1. Spec => []TypeInv
  BY TypeInit, TypeNext, PTL DEF Spec
<1> QED
  BY <1>1, PTL DEF TypeInv
-----------------------------------------------------------------------------
(* Publication: what the PC tables send the dispatcher to. *)

RunnableInv == TypeInv /\ PublishInv /\ PublishedIsRunnable

Runnable(p) ==
  \E b \in sealed :
    /\ b.offs[p] # NoOff
    /\ pc_native[p] = <<b.sec, b.base + BlockHeaderSize + b.offs[p]>>
    /\ b.offs[p] < b.len - EpilogueSize

LEMMA RunnableInit == Init => RunnableInv
<1> SUFFICES ASSUME Init PROVE RunnableInv
  OBVIOUS
<1>1. PublishInv /\ PublishedIsRunnable
  BY DEF Init, PublishInv, PublishedIsRunnable, Erased
<1> QED
  BY <1>1, TypeInit DEF RunnableInv

(* A step that keeps the complete blocks, and the tables of every PC that
   is not erased, keeps the published PCs runnable.                        *)
LEMMA TablesKept ==
  ASSUME PublishedIsRunnable, sealed \subseteq sealed',
         \A p \in Pc : pc_flag'[p] = "recompiled" =>
           pc_flag[p] = "recompiled" /\ pc_native'[p] = pc_native[p]
  PROVE  PublishedIsRunnable'
BY DEF PublishedIsRunnable

LEMMA MarkKeeps ==
  ASSUME TypeInv, NEW p \in Pc, MarkInterpreted(p), NEW q \in Pc,
         pc_flag'[q] = "recompiled"
  PROVE  pc_flag[q] = "recompiled" /\ pc_native'[q] = pc_native[q]
BY DEF TypeInv, TypeOK, MarkInterpreted

LEMMA NoRoomKeeps ==
  ASSUME TypeInv, NoRoom, NEW q \in Pc, pc_flag'[q] = "recompiled"
  PROVE  pc_flag[q] = "recompiled" /\ pc_native'[q] = pc_native[q]
BY DEF NoRoom, TornMark, SlotErased, Erased, TypeInv, TypeOK

LEMMA LoopKeeps ==
  ASSUME TypeInv, NEW q \in Pc, pc_flag'[q] = "recompiled",
         \/ CompileInstruction
         \/ \E s \in Sector : CompileRomRead(s)
         \/ CompileRomReadNoRoom
  PROVE  pc_flag[q] = "recompiled" /\ pc_native'[q] = pc_native[q]
<1>1. stage = "loop" /\ pc \in Pc
  BY CacheAssumption
     DEF TypeInv, BufferInv, CompileInstruction, CompileRomRead,
         CompileRomReadNoRoom
<1>2. \/ UNCHANGED <<pc_flag, pc_native>>
      \/ MarkInterpreted(pc)
      \/ TornMark(pc, code_index)
  BY DEF CompileInstruction, CompileRomRead, CompileRomReadNoRoom, StopHere
<1>3. code_index \in Nat
  BY LayoutAssumption DEF TypeInv, TypeOK
<1> QED
  BY <1>1, <1>2, <1>3, MarkKeeps, TornKeeps DEF Erased

(* There is one PC to publish next. *)
LEMMA PublishingUnique ==
  ASSUME NEW p \in Pc, NEW q \in Pc, Publishing(p), Publishing(q)
  PROVE  p = q
BY CacheAssumption DEF Publishing, Pc

LEMMA RunnableNext == ASSUME RunnableInv, [Next]_vars PROVE RunnableInv'
<1> USE DEF RunnableInv
<1>1. TypeInv'
  BY TypeNext
<1>2. CASE Boot
  <2>1. PublishedIsRunnable'
    BY <1>2 DEF Boot, FlashFormat, flashVars, PublishedIsRunnable, Erased
  <2> QED
    BY <1>1, <1>2, <2>1 DEF Boot, PublishInv
<1>3. CASE Reset \/ RunGuest \/ Undo \/ Shrink
  <2>1. PublishedIsRunnable'
    BY <1>3, TablesKept DEF Reset, RunGuest, Undo, Shrink, flashVars
  <2>2. stage' \in {"off", "dispatch"}
    BY <1>3 DEF Reset, RunGuest, Undo, Shrink
  <2> QED
    BY <1>1, <2>1, <2>2 DEF PublishInv
<1>4. CASE NoRoom
  <2>1. PublishedIsRunnable'
    BY <1>4, NoRoomKeeps, TablesKept DEF NoRoom
  <2>2. stage' \in {"off", "dispatch"}
    BY <1>4 DEF NoRoom, NeedsCompile, TornMark
  <2> QED
    BY <1>1, <2>1, <2>2 DEF PublishInv
<1>5. ASSUME NEW s \in Sector, BeginBlock(s) PROVE RunnableInv'
  <2>1. PublishedIsRunnable' /\ stage' = "loop"
    BY <1>5, TablesKept DEF BeginBlock, flashVars
  <2> QED
    BY <1>1, <2>1 DEF PublishInv
<1>6. CASE \/ CompileInstruction
           \/ \E s \in Sector : CompileRomRead(s)
           \/ CompileRomReadNoRoom
  <2>1. UNCHANGED sealed
    BY <1>6 DEF CompileInstruction, CompileRomRead, CompileRomReadNoRoom
  <2>2. PublishedIsRunnable'
    BY <1>6, <2>1, LoopKeeps, TablesKept
  <2>3. stage' \in {"loop", "undo", "program", "off"}
    BY <1>6 DEF CompileInstruction, CompileRomRead, CompileRomReadNoRoom,
                Emit, StopHere, TornMark
  <2> QED
    BY <1>1, <2>2, <2>3 DEF PublishInv
<1>7. CASE ProgramBlock
  <2>1. PublishedIsRunnable' /\ stage' = "seal"
    BY <1>7, TablesKept DEF ProgramBlock
  <2> QED
    BY <1>1, <2>1 DEF PublishInv
<1>8. CASE SealBlock
  <2>1. PublishedIsRunnable'
    BY <1>8, TablesKept DEF SealBlock
  <2>2. PublishInv'
    BY <1>8 DEF SealBlock, PublishInv, ThisBlock, Publishable
  <2> QED
    BY <1>1, <2>1, <2>2
<1>9. ASSUME NEW p \in Pc, PublishAddress(p) PROVE RunnableInv'
  <2>1. /\ stage = "publish" /\ Publishing(p) /\ UNCHANGED <<pc_flag, sealed>>
        /\ ThisBlock' = ThisBlock /\ Publishable' = Publishable
    BY <1>9 DEF PublishAddress, ThisBlock, Publishable
  <2>2. \A q \in Pc : pc_flag'[q] = "recompiled" => pc_native'[q] = pc_native[q]
    BY <1>9, <2>1 DEF PublishAddress, SlotErased, Erased, TypeInv, TypeOK
  <2>3. PublishedIsRunnable'
    BY <2>1, <2>2, TablesKept
  <2>4. CASE SlotErased(p)
    <3>1. /\ unpublished' = unpublished /\ stage' = "flag"
          /\ pc_native'[p] = NativeAddr(instr_off[p])
          /\ \A q \in Pc : NativeAddr(instr_off[q])' = NativeAddr(instr_off[q])
      BY <1>9, <2>4 DEF PublishAddress, TypeInv, TypeOK, NativeAddr
    <3>2. \A q \in Pc : Publishing(q)' => q = p
      BY <2>1, <3>1, PublishingUnique DEF Publishing
    <3>3. PublishInv'
      BY <2>1, <3>1, <3>2 DEF PublishInv
    <3> QED
      BY <1>1, <2>3, <3>3
  <2>5. CASE ~SlotErased(p)
    <3>1. PublishInv'
      BY <1>9, <2>1, <2>5 DEF PublishAddress, PublishInv
    <3> QED
      BY <1>1, <2>3, <3>1
  <2> QED
    BY <2>4, <2>5
<1>10. ASSUME NEW p \in Pc, PublishFlag(p) PROVE RunnableInv'
  <2>1. /\ stage = "flag" /\ Publishing(p) /\ p \in Publishable
        /\ ThisBlock \in sealed /\ pc_native[p] = NativeAddr(instr_off[p])
    BY <1>10 DEF PublishFlag, PublishInv, Publishing
  <2>2. ThisBlock.len - EpilogueSize = code_index
    BY LayoutAssumption DEF ThisBlock, TypeInv, TypeOK
  <2>3. Runnable(p)
    BY <2>1, <2>2 DEF Runnable, ThisBlock, NativeAddr, Publishable
  <2>4. UNCHANGED <<sealed, pc_native>>
    BY <1>10 DEF PublishFlag
  <2>5. \A q \in Pc : pc_flag'[q] = "recompiled" =>
          q = p \/ pc_flag[q] = "recompiled"
    BY <1>10 DEF PublishFlag, TypeInv, TypeOK
  <2>6. PublishedIsRunnable'
    BY <2>3, <2>4, <2>5 DEF PublishedIsRunnable, Runnable
  <2>7. PublishInv'
    BY <1>10 DEF PublishFlag, PublishInv, ThisBlock, Publishable
  <2> QED
    BY <1>1, <2>6, <2>7
<1>11. CASE UNCHANGED vars
  <2>1. PublishedIsRunnable' /\ PublishInv'
    BY <1>11 DEF vars, flashVars, wramVars, jobVars, PublishedIsRunnable,
                 PublishInv, ThisBlock, Publishable, Publishing, NativeAddr
  <2> QED
    BY <1>1, <2>1
<1> QED
  BY <1>2, <1>3, <1>4, <1>5, <1>6, <1>7, <1>8, <1>9, <1>10, <1>11
     DEF Next, CompileStep

(* The tables never send the dispatcher anywhere but to the start of an
   instruction of a complete block: for every program, cache geometry and
   reset, with or without a cache that survives the reset.                *)
THEOREM DispatchSafe == Spec => []PublishedIsRunnable
<1>1. Spec => []RunnableInv
  BY RunnableInit, RunnableNext, PTL DEF Spec
<1> QED
  BY <1>1, PTL DEF RunnableInv
-----------------------------------------------------------------------------
(* Allocation: no byte is programmed twice. *)

DisjointInv == TypeInv /\ BelowFree /\ JobInv /\ ExtentsDisjoint

LEMMA DisjointInit == Init => DisjointInv
<1> SUFFICES ASSUME Init PROVE DisjointInv
  OBVIOUS
<1>1. BelowFree /\ JobInv /\ ExtentsDisjoint
  BY DEF Init, BelowFree, JobInv, ExtentsDisjoint, Compiling
<1> QED
  BY <1>1, TypeInit DEF DisjointInv

LEMMA BlockInReservation ==
  ASSUME TypeInv
  PROVE  /\ ThisBlock.sec = flash_code_sector
         /\ ThisBlock.base = flash_code_address
         /\ EndOf(ThisBlock) <= ReservedEnd
         /\ EndOf(ThisBlock) = UsedEnd
         /\ EndOf(ThisBlock) \in Nat /\ ReservedEnd \in Nat
         /\ flash_code_address \in Nat
BY LayoutAssumption
   DEF TypeInv, TypeOK, ThisBlock, EndOf, BlockEnd, ReservedEnd, MaxBlock,
       BlockHeaderSize, UsedEnd

LEMMA ExtentTypes ==
  ASSUME TypeInv
  PROVE  /\ \A b \in blocks : b.sec \in Sector /\ b.base \in Nat
                              /\ EndOf(b) \in Nat
         /\ \A c \in copies : c.sec \in Sector /\ c.base \in Nat
                              /\ CopyEnd(c) \in Nat
         /\ \A s \in Sector : sector_free_offset[s] \in Nat
BY CacheAssumption, LayoutAssumption
   DEF TypeInv, TypeOK, EndOf, BlockEnd, BlockHeaderSize, CopyEnd

LEMMA BeginDisjoint ==
  ASSUME DisjointInv, NEW s \in Sector, BeginBlock(s) PROVE DisjointInv'
<1> DEFINE cur == sector_free_offset[s]
<1>1. TypeInv /\ TypeInv' /\ stage = "dispatch" /\ stage' = "loop"
  BY BeginType DEF DisjointInv, BeginBlock, NeedsCompile
<1>2. UNCHANGED <<blocks, copies>> /\ flash_code_sector' = s
  BY DEF BeginBlock, flashVars
<1>3. /\ cur \in Nat
      /\ flash_code_address' = HeaderStart(cur)
      /\ HeaderStart(cur) \in Nat /\ HeaderStart(cur) >= cur
      /\ ReservedEnd' = AllocEnd(cur, MaxBlock)
      /\ AllocEnd(cur, MaxBlock) \in Nat /\ AllocEnd(cur, MaxBlock) >= cur
  BY <1>1, HeaderRoom, MaxBlockNat
     DEF BeginBlock, ReservedEnd, AllocEnd, BlockHeaderSize, TypeInv, TypeOK
<1>4. /\ sector_free_offset'[s] = AllocEnd(cur, MaxBlock)
      /\ \A t \in Sector : t # s => sector_free_offset'[t] = sector_free_offset[t]
  BY <1>1 DEF BeginBlock, TypeInv, TypeOK
<1>5. /\ \A b \in blocks : EndOf(b) <= sector_free_offset[b.sec]
      /\ \A c \in copies : CopyEnd(c) <= sector_free_offset[c.sec]
  BY <1>1 DEF DisjointInv, BelowFree
<1>6. BelowFree'
  BY <1>1, <1>2, <1>3, <1>4, <1>5, ExtentTypes DEF BelowFree, EndOf, CopyEnd
<1>7. JobInv'
  BY <1>1, <1>2, <1>3, <1>4, <1>5, ExtentTypes
     DEF JobInv, EndOf, CopyEnd
<1>8. ExtentsDisjoint'
  BY <1>2 DEF DisjointInv, ExtentsDisjoint, EndOf, CopyEnd
<1> QED
  BY <1>1, <1>6, <1>7, <1>8 DEF DisjointInv

(* A turn of the compile loop that allocates nothing. *)
LEMMA LoopDisjoint ==
  ASSUME DisjointInv, CompileInstruction \/ CompileRomReadNoRoom
  PROVE  DisjointInv'
<1>1. TypeInv /\ TypeInv' /\ stage = "loop"
  BY InstructionType, RomReadNoRoomType
     DEF DisjointInv, CompileInstruction, CompileRomReadNoRoom
<1>2. UNCHANGED <<blocks, copies, wramVars, flash_code_sector,
                  flash_code_address>>
  BY DEF CompileInstruction, CompileRomReadNoRoom
<1>3. /\ stage' \in {"loop", "undo", "program", "off"}
      /\ code_index' >= code_index
  <2>1. CASE Emit /\ EmitsCode(pc, code_index)
    <3>1. Insn[pc].size \in Nat
      BY <1>1, CacheAssumption DEF TypeInv, BufferInv
    <3> QED
      BY <1>1, <2>1, <3>1, LayoutAssumption DEF Emit, TypeInv, TypeOK
  <2>2. CASE StopHere
    BY <1>1, <2>2, LayoutAssumption DEF StopHere, TornMark, TypeInv, TypeOK
  <2> QED
    BY <2>1, <2>2 DEF CompileInstruction, CompileRomReadNoRoom
<1>4. code_index \in Nat /\ code_index' \in Nat
  BY <1>1, LayoutAssumption DEF TypeInv, TypeOK
<1>5. BelowFree' /\ ExtentsDisjoint'
  BY <1>1, <1>2, <1>3
     DEF DisjointInv, BelowFree, ExtentsDisjoint, EndOf, CopyEnd, wramVars
<1>6. JobInv'
  BY <1>1, <1>2, <1>3, <1>4
     DEF DisjointInv, JobInv, Compiling, Programmed, EndOf, CopyEnd, wramVars,
         ReservedEnd
<1> QED
  BY <1>1, <1>5, <1>6 DEF DisjointInv

(* A ROM data copy goes behind the reservation when it lands in the sector
   of the block, and then the instruction that asked for it emits code, so
   that this compile is never undone.                                      *)
LEMMA RomReadDisjoint ==
  ASSUME DisjointInv, NEW s \in Sector, CompileRomRead(s) PROVE DisjointInv'
<1> DEFINE cur == sector_free_offset[s]
           new == [sec |-> s, base |-> cur]
<1>1. TypeInv /\ TypeInv' /\ stage = "loop" /\ pc \in Pc
  BY RomReadType, CacheAssumption DEF DisjointInv, CompileRomRead, TypeInv, BufferInv
<1>2. /\ UNCHANGED <<blocks, flash_code_sector, flash_code_address>>
      /\ copies' = copies \cup {new}
      /\ ReservedEnd' = ReservedEnd
  BY DEF CompileRomRead, ReservedEnd
<1>3. /\ cur \in Nat /\ CopySize \in Nat /\ CopyEnd(new) = cur + CopySize
      /\ sector_free_offset'[s] = cur + CopySize
      /\ \A t \in Sector : t # s => sector_free_offset'[t] = sector_free_offset[t]
  BY <1>1, CacheAssumption DEF CompileRomRead, TypeInv, TypeOK, CopyEnd
<1>4. /\ sector_alloc_floor' >= cur + CopySize
      /\ sector_alloc_floor' >= sector_alloc_floor
      /\ sector_alloc_floor' \in Nat /\ sector_alloc_floor \in Nat
  BY <1>1, <1>3, LayoutAssumption DEF CompileRomRead, TypeInv, TypeOK
<1>5. /\ stage' \in {"loop", "undo", "program", "off"}
      /\ code_index' >= code_index /\ code_index \in Nat /\ code_index' \in Nat
      /\ s = flash_code_sector => code_index' > 0
  <2>1. Insn[pc].size \in Nat /\ Insn[pc].size > 0 /\ code_index \in Nat
    BY <1>1, CacheAssumption, LayoutAssumption
       DEF CompileRomRead, TypeInv, TypeOK
  <2>2. CASE Emit
    BY <2>1, <2>2 DEF Emit
  <2>3. CASE StopHere /\ Bank(s) # Bank(flash_code_sector)
    BY <2>1, <2>3 DEF StopHere, TornMark
  <2> QED
    BY <2>2, <2>3 DEF CompileRomRead
<1>6. /\ \A b \in blocks : EndOf(b) <= sector_free_offset[b.sec]
      /\ \A c \in copies : CopyEnd(c) <= sector_free_offset[c.sec]
  BY <1>1 DEF DisjointInv, BelowFree
<1>7. BelowFree'
  <2>1. \A b \in blocks : EndOf(b)' <= sector_free_offset'[b.sec]
    BY <1>1, <1>3, <1>6, ExtentTypes DEF EndOf
  <2>2. \A c \in copies' : CopyEnd(c) <= sector_free_offset'[c.sec]
    BY <1>1, <1>2, <1>3, <1>6, ExtentTypes
  <2> QED
    BY <1>2, <2>1, <2>2 DEF BelowFree, CopyEnd
<1>8. ExtentsDisjoint'
  <2>1. \A b \in blocks : b.sec = s => EndOf(b) <= cur
    BY <1>6
  <2>2. \A c \in copies : c.sec = s => CopyEnd(c) <= cur
    BY <1>6
  <2> QED
    BY <1>2, <2>1, <2>2 DEF DisjointInv, ExtentsDisjoint, Apart, EndOf, CopyEnd
<1>9. JobInv'
  <2>1. /\ ReservedEnd <= sector_free_offset[flash_code_sector]
        /\ \A b \in blocks : b.sec = flash_code_sector =>
             EndOf(b) <= flash_code_address
        /\ \A c \in copies : c.sec = flash_code_sector =>
             \/ CopyEnd(c) <= flash_code_address
             \/ /\ c.base >= ReservedEnd /\ CopyEnd(c) <= sector_alloc_floor
                /\ code_index > 0
    BY <1>1 DEF DisjointInv, JobInv, Compiling, Programmed
  <2>2. flash_code_sector \in Sector /\ ReservedEnd \in Nat
    BY <1>1, BlockInReservation DEF TypeInv, TypeOK
  <2>3. ReservedEnd <= sector_free_offset'[flash_code_sector]
    BY <1>1, <1>3, <2>1, <2>2, ExtentTypes
  <2>4. \A c \in copies' : c.sec = flash_code_sector =>
           \/ CopyEnd(c) <= flash_code_address
           \/ /\ c.base >= ReservedEnd /\ CopyEnd(c) <= sector_alloc_floor'
              /\ code_index' > 0
    <3>1. ASSUME NEW c \in copies, c.sec = flash_code_sector
          PROVE  \/ CopyEnd(c) <= flash_code_address
                 \/ /\ c.base >= ReservedEnd
                    /\ CopyEnd(c) <= sector_alloc_floor' /\ code_index' > 0
      BY <1>1, <1>4, <1>5, <2>1, <3>1, ExtentTypes
    <3>2. s = flash_code_sector =>
            /\ new.base >= ReservedEnd
            /\ CopyEnd(new) <= sector_alloc_floor' /\ code_index' > 0
      BY <1>3, <1>4, <1>5, <2>1
    <3> QED
      BY <1>2, <3>1, <3>2
  <2> QED
    BY <1>2, <2>1, <2>3, <2>4 DEF JobInv, EndOf, CopyEnd
<1> QED
  BY <1>1, <1>7, <1>8, <1>9 DEF DisjointInv

LEMMA UndoDisjoint == ASSUME DisjointInv, Undo PROVE DisjointInv'
<1>1. TypeInv /\ TypeInv' /\ stage = "undo" /\ stage' = "dispatch"
  BY UndoType DEF DisjointInv, Undo
<1>2. /\ UNCHANGED <<blocks, copies>> /\ code_index = 0
      /\ sector_free_offset'[flash_code_sector] = flash_code_address
      /\ \A t \in Sector : t # flash_code_sector =>
           sector_free_offset'[t] = sector_free_offset[t]
  BY <1>1 DEF Undo, flashVars, FreeAfterUndo, TypeInv, TypeOK, BufferInv
<1>3. BelowFree'
  BY <1>1, <1>2, ExtentTypes
     DEF DisjointInv, BelowFree, JobInv, Compiling, Programmed, EndOf, CopyEnd
<1>4. ExtentsDisjoint' /\ JobInv'
  BY <1>1, <1>2 DEF DisjointInv, ExtentsDisjoint, JobInv, Compiling, EndOf, CopyEnd
<1> QED
  BY <1>1, <1>3, <1>4 DEF DisjointInv

LEMMA ProgramDisjoint == ASSUME DisjointInv, ProgramBlock PROVE DisjointInv'
<1>1. TypeInv /\ TypeInv' /\ stage = "program" /\ stage' = "seal"
  BY ProgramType DEF DisjointInv, ProgramBlock
<1>2. /\ UNCHANGED <<copies, sector_free_offset, sector_alloc_floor,
                     flash_code_sector, flash_code_address, code_index>>
      /\ blocks' = blocks \cup {ThisBlock}
      /\ ThisBlock' = ThisBlock /\ ReservedEnd' = ReservedEnd
  BY DEF ProgramBlock, wramVars, jobVars, ThisBlock, ReservedEnd
<1>3. /\ ThisBlock.sec = flash_code_sector
      /\ ThisBlock.base = flash_code_address
      /\ EndOf(ThisBlock) <= ReservedEnd
      /\ EndOf(ThisBlock) \in Nat /\ ReservedEnd \in Nat
      /\ flash_code_address \in Nat
  BY <1>1, BlockInReservation
<1>4. /\ ReservedEnd <= sector_free_offset[flash_code_sector]
      /\ \A b \in blocks : b.sec = flash_code_sector =>
           EndOf(b) <= flash_code_address
      /\ \A c \in copies : c.sec = flash_code_sector =>
           \/ CopyEnd(c) <= flash_code_address
           \/ /\ c.base >= ReservedEnd /\ CopyEnd(c) <= sector_alloc_floor
              /\ code_index > 0
  BY <1>1 DEF DisjointInv, JobInv, Compiling, Programmed
<1>5. BelowFree'
  <2>1. EndOf(ThisBlock) <= sector_free_offset[ThisBlock.sec]
    BY <1>1, <1>3, <1>4, ExtentTypes DEF TypeInv, TypeOK
  <2> QED
    BY <1>1, <1>2, <2>1 DEF DisjointInv, BelowFree, EndOf, CopyEnd
<1>6. JobInv'
  BY <1>1, <1>2, <1>4 DEF JobInv, Programmed, EndOf, CopyEnd
<1>7. ExtentsDisjoint'
  <2>1. \A b \in blocks : b.sec = ThisBlock.sec =>
          EndOf(b) <= ThisBlock.base
    BY <1>3, <1>4
  <2>2. \A c \in copies : c.sec = ThisBlock.sec =>
          CopyEnd(c) <= ThisBlock.base \/ EndOf(ThisBlock) <= c.base
    BY <1>1, <1>3, <1>4, ExtentTypes
  <2> QED
    BY <1>2, <2>1, <2>2 DEF DisjointInv, ExtentsDisjoint, Apart, EndOf, CopyEnd
<1> QED
  BY <1>1, <1>5, <1>6, <1>7 DEF DisjointInv

LEMMA PublishDisjoint ==
  ASSUME DisjointInv,
         SealBlock \/ (\E p \in Pc : PublishAddress(p) \/ PublishFlag(p))
  PROVE  DisjointInv'
<1>1. TypeInv /\ TypeInv' /\ stage \in Programmed /\ stage' \in Programmed
  BY SealType, PublishAddressType, PublishFlagType
     DEF DisjointInv, SealBlock, PublishAddress, PublishFlag, Programmed
<1>2. /\ UNCHANGED <<blocks, copies, sector_free_offset, sector_alloc_floor,
                     flash_code_sector, flash_code_address, code_index,
                     entry_pc, instr_off>>
  BY DEF SealBlock, PublishAddress, PublishFlag, wramVars
<1>3. ThisBlock' = ThisBlock /\ ReservedEnd' = ReservedEnd
  BY <1>2 DEF ThisBlock, ReservedEnd
<1>4. BelowFree' /\ ExtentsDisjoint' /\ JobInv'
  BY <1>1, <1>2, <1>3
     DEF DisjointInv, BelowFree, ExtentsDisjoint, JobInv, EndOf, CopyEnd,
         Programmed, Compiling
<1> QED
  BY <1>1, <1>4 DEF DisjointInv

LEMMA ShrinkDisjoint == ASSUME DisjointInv, Shrink PROVE DisjointInv'
<1>1. /\ TypeInv /\ TypeInv' /\ stage = "publish" /\ stage' = "dispatch"
      /\ next_free_sector = flash_code_sector /\ flash_code_sector \in Sector
  BY ShrinkType DEF DisjointInv, Shrink, TypeInv, TypeOK, BufferInv, Compiling
<1>2. /\ UNCHANGED <<blocks, copies>>
      /\ sector_free_offset'[flash_code_sector] = FreeAfterShrink
      /\ \A t \in Sector : t # flash_code_sector =>
           sector_free_offset'[t] = sector_free_offset[t]
  BY <1>1 DEF Shrink, flashVars, TypeInv, TypeOK
<1>3. /\ FreeAfterShrink >= EndOf(ThisBlock)
      /\ FreeAfterShrink >= sector_alloc_floor
      /\ EndOf(ThisBlock) >= flash_code_address
      /\ FreeAfterShrink \in Nat /\ sector_alloc_floor \in Nat
      /\ flash_code_address \in Nat /\ EndOf(ThisBlock) \in Nat
  BY <1>1, LayoutAssumption
     DEF FreeAfterShrink, UsedEnd, ThisBlock, EndOf, BlockEnd, BlockHeaderSize, TypeInv,
         TypeOK
<1>4. /\ \A b \in blocks : b.sec = flash_code_sector =>
           EndOf(b) <= flash_code_address \/ b = ThisBlock
      /\ \A c \in copies : c.sec = flash_code_sector =>
           CopyEnd(c) <= flash_code_address \/ CopyEnd(c) <= sector_alloc_floor
  BY <1>1 DEF DisjointInv, JobInv, Compiling
<1>5. /\ \A b \in blocks : EndOf(b) <= sector_free_offset'[b.sec]
      /\ \A c \in copies : CopyEnd(c) <= sector_free_offset'[c.sec]
  BY <1>1, <1>2, <1>3, <1>4, ExtentTypes DEF DisjointInv, BelowFree
<1>6. BelowFree' /\ ExtentsDisjoint' /\ JobInv'
  BY <1>1, <1>2, <1>5
     DEF DisjointInv, BelowFree, ExtentsDisjoint, JobInv, Compiling, EndOf, CopyEnd
<1> QED
  BY <1>1, <1>6 DEF DisjointInv

(* The steps that program nothing, and the boot that erases everything. *)
LEMMA QuietDisjoint ==
  ASSUME DisjointInv, Reset \/ RunGuest \/ NoRoom PROVE DisjointInv'
<1>1. /\ TypeInv' /\ UNCHANGED <<blocks, copies, sector_free_offset>>
      /\ stage # "off" /\ stage' \in {"off", "dispatch"}
  BY ResetType, GuestType, NoRoomType
     DEF DisjointInv, Reset, RunGuest, NoRoom, TornMark, NeedsCompile,
         flashVars, wramVars
<1> QED
  BY <1>1 DEF DisjointInv, BelowFree, ExtentsDisjoint, JobInv, Compiling,
              EndOf, CopyEnd

LEMMA BootDisjoint ==
  ASSUME DisjointInv, Boot, ~CachePersist PROVE DisjointInv'
BY BootType
   DEF DisjointInv, Boot, FlashFormat, BelowFree, ExtentsDisjoint, JobInv, Compiling

LEMMA StutterDisjoint == ASSUME DisjointInv, UNCHANGED vars PROVE DisjointInv'
BY TypeStutter
   DEF DisjointInv, vars, flashVars, wramVars, jobVars, BelowFree,
       ExtentsDisjoint, JobInv, Compiling, EndOf, CopyEnd, ReservedEnd, ThisBlock

(* In every build whose boot erases the cache, no flash byte of the code
   banks is programmed twice before the next erase: not by a block, not by a
   ROM data copy, whatever compiles were undone or shrunk in between.       *)
THEOREM NoByteProgrammedTwice == ~CachePersist /\ Spec => []ExtentsDisjoint
<1> SUFFICES ASSUME ~CachePersist PROVE Spec => []ExtentsDisjoint
  OBVIOUS
<1>1. DisjointInv /\ [Next]_vars => DisjointInv'
  BY BeginDisjoint, LoopDisjoint, RomReadDisjoint, UndoDisjoint,
     ProgramDisjoint, PublishDisjoint, ShrinkDisjoint, QuietDisjoint,
     BootDisjoint, StutterDisjoint
     DEF Next, CompileStep
<1>2. Spec => []DisjointInv
  BY DisjointInit, <1>1, PTL DEF Spec
<1> QED
  BY <1>2, PTL DEF DisjointInv
-----------------------------------------------------------------------------
(* The trampoline pool. *)

NoRomReads == \A p \in Pc : Insn[p].kind # "romread"

PoolInv == TypeInv /\ PoolUntouched /\ copies = {}

LEMMA PoolNext ==
  ASSUME NoRomReads, PoolInv, [Next]_vars PROVE PoolInv'
<1>1. TypeInv /\ TypeInv'
  BY TypeNext DEF PoolInv
<1>2. \A s \in Sector : ~CompileRomRead(s)
  BY <1>1, CacheAssumption DEF CompileRomRead, NoRomReads, TypeInv, BufferInv
<1>3. copies' = {}
  BY <1>2 DEF PoolInv, Next, CompileStep, Boot, FlashFormat, Reset, RunGuest,
       NoRoom, BeginBlock, CompileInstruction, CompileRomReadNoRoom, Undo,
       ProgramBlock, SealBlock, PublishAddress, PublishFlag, Shrink, flashVars,
       vars
<1>4. CASE ProgramBlock
  <2>1. EndOf(ThisBlock) <= SectorSize - PoolSize
    BY <1>1, <1>4, BlockInReservation, LayoutAssumption
       DEF ProgramBlock, TypeInv, BufferInv, Compiling
  <2> QED
    BY <1>1, <1>3, <1>4, <2>1
       DEF PoolInv, PoolUntouched, ProgramBlock, EndOf, CopyEnd
<1>5. CASE ~ProgramBlock
  <2>1. blocks' \subseteq blocks
    BY <1>2, <1>5
       DEF Next, CompileStep, Boot, FlashFormat, Reset, RunGuest, NoRoom,
       BeginBlock, CompileInstruction, CompileRomReadNoRoom, Undo, SealBlock,
       PublishAddress, PublishFlag, Shrink, flashVars, vars
  <2> QED
    BY <1>1, <1>3, <2>1 DEF PoolInv, PoolUntouched, EndOf, CopyEnd
<1> QED
  BY <1>4, <1>5

(* Without ROM data copies (every platform but the NES) no compile reaches
   into the trampoline pool at the end of its sector: a template may emit up
   to the last byte the reservation was computed for, and not beyond.        *)
THEOREM PoolStaysFree == NoRomReads /\ Spec => []PoolUntouched
<1> SUFFICES ASSUME NoRomReads PROVE Spec => []PoolUntouched
  OBVIOUS
<1>1. Init => PoolInv
  <2>1. Init => PoolUntouched /\ copies = {}
    BY DEF Init, PoolUntouched
  <2> QED
    BY <2>1, TypeInit DEF PoolInv
<1>2. PoolInv /\ [Next]_vars => PoolInv'
  BY PoolNext
<1>3. Spec => []PoolInv
  BY <1>1, <1>2, PTL DEF Spec
<1> QED
  BY <1>3, PTL DEF PoolInv
-----------------------------------------------------------------------------
(* The chain of headers that the linker walks. *)

(* A place at which the walk of sector s looks for a header. *)
OnChain(bs, s, h) ==
  \/ h = HeaderStart(0)
  \/ \E c \in bs : c.sec = s /\ h = NextHeader(c.base, c.len)

(* The next block of a sector goes to such a place, and so does the one that
   is being compiled: an undone compile leaves its sector at a header start,
   where rounding up once more changes nothing.                             *)
ChainInv ==
  /\ TypeInv /\ ChainReachesEveryBlock
  /\ stage # "off" => \A s \in Sector :
       \/ stage \in Compiling /\ s = flash_code_sector
       \/ OnChain(blocks, s, HeaderStart(sector_free_offset[s]))
  /\ stage \in Compiling =>
       /\ OnChain(blocks, flash_code_sector, flash_code_address)
       /\ HeaderStart(flash_code_address) = flash_code_address
       /\ sector_alloc_floor = 0

LEMMA HeaderStartTwice ==
  \A cur \in Nat : HeaderStart(HeaderStart(cur)) = HeaderStart(cur)
BY DEF HeaderStart, CodeStart, BlockHeaderSize, BlockAlignment

LEMMA ChainInit == Init => ChainInv
<1> SUFFICES ASSUME Init PROVE ChainInv
  OBVIOUS
<1>1. TypeInv
  BY TypeInit
<1>2. blocks = {} /\ stage = "off"
  BY DEF Init
<1> QED
  BY <1>1, <1>2 DEF ChainInv, ChainReachesEveryBlock, Compiling

(* Steps that neither allocate nor program a block. *)
LEMMA ChainStays ==
  ASSUME ChainInv, TypeInv',
         UNCHANGED <<blocks, sector_free_offset, flash_code_sector,
                     flash_code_address, sector_alloc_floor>>,
         stage \in Compiling, stage' \in Compiling
  PROVE  ChainInv'
<1>1. stage # "off" /\ stage' # "off"
  BY DEF Compiling
<1>2. ChainReachesEveryBlock'
  BY DEF ChainInv, ChainReachesEveryBlock
<1> QED
  BY <1>1, <1>2 DEF ChainInv

(* Without power there is only flash, and the blocks in it. *)
LEMMA ChainOff ==
  ASSUME ChainInv, TypeInv', stage' = "off", UNCHANGED blocks
  PROVE  ChainInv'
BY DEF ChainInv, ChainReachesEveryBlock, Compiling

LEMMA ChainNext ==
  ASSUME NoRomReads, ChainInv, [Next]_vars PROVE ChainInv'
<1>1. TypeInv /\ TypeInv' /\ ChainReachesEveryBlock
  BY TypeNext DEF ChainInv
<1>2. \A s \in Sector : ~CompileRomRead(s)
  BY <1>1, CacheAssumption DEF CompileRomRead, NoRomReads, TypeInv, BufferInv
<1>3. CASE CompileInstruction \/ CompileRomReadNoRoom
  <2>1. /\ UNCHANGED <<blocks, sector_free_offset, flash_code_sector,
                       flash_code_address, sector_alloc_floor>>
        /\ stage \in Compiling /\ stage' \in Compiling \cup {"off"}
    BY <1>3 DEF CompileInstruction, CompileRomReadNoRoom, Emit, StopHere,
       TornMark, Compiling, wramVars
  <2>2. CASE stage' = "off"
    BY <1>1, <2>1, <2>2, ChainOff
  <2> QED
    BY <1>1, <2>1, <2>2, ChainStays
<1>4. CASE SealBlock \/ \E p \in Pc : PublishAddress(p) \/ PublishFlag(p)
  <2>1. /\ UNCHANGED <<blocks, sector_free_offset, flash_code_sector,
                       flash_code_address, sector_alloc_floor>>
        /\ stage \in Compiling /\ stage' \in Compiling
    BY <1>4 DEF SealBlock, PublishAddress, PublishFlag, Compiling, wramVars
  <2> QED
    BY <1>1, <2>1, ChainStays
<1>5. CASE ProgramBlock
  <2>1. /\ blocks' = blocks \cup {ThisBlock}
        /\ stage \in Compiling /\ stage' \in Compiling
        /\ UNCHANGED <<sector_free_offset, flash_code_sector,
                       flash_code_address, sector_alloc_floor>>
    BY <1>5 DEF ProgramBlock, Compiling, wramVars, jobVars
  <2>2. \A s, h : OnChain(blocks, s, h) => OnChain(blocks', s, h)
    BY <2>1 DEF OnChain
  <2>3. ChainReachesEveryBlock'
    <3>1. \A b \in blocks : OnChain(blocks, b.sec, b.base)
      BY <1>1 DEF ChainReachesEveryBlock, OnChain
    <3>2. OnChain(blocks, ThisBlock.sec, ThisBlock.base)
      BY <2>1 DEF ChainInv, ThisBlock
    <3>3. \A b \in blocks' : OnChain(blocks', b.sec, b.base)
      BY <2>1, <2>2, <3>1, <3>2
    <3> QED
      BY <3>3 DEF ChainReachesEveryBlock, OnChain
  <2>4. stage # "off" /\ stage' # "off"
    BY <2>1 DEF Compiling
  <2> QED
    BY <1>1, <2>1, <2>2, <2>3, <2>4 DEF ChainInv
<1>6. ASSUME NEW s \in Sector, BeginBlock(s) PROVE ChainInv'
  <2>1. /\ stage = "dispatch" /\ stage' = "loop"
        /\ UNCHANGED blocks /\ flash_code_sector' = s
        /\ flash_code_address' = HeaderStart(sector_free_offset[s])
        /\ sector_alloc_floor' = 0
    BY <1>6 DEF BeginBlock, NeedsCompile, flashVars
  <2>2. \A t \in Sector : t # s => sector_free_offset'[t] = sector_free_offset[t]
    BY <1>1, <1>6 DEF BeginBlock, TypeInv, TypeOK
  <2>3. \A t \in Sector : OnChain(blocks, t, HeaderStart(sector_free_offset[t]))
    BY <2>1 DEF ChainInv, Compiling
  <2>4. sector_free_offset[s] \in Nat
    BY <1>1, LayoutAssumption DEF TypeInv, TypeOK
  <2>5. HeaderStart(flash_code_address') = flash_code_address'
    BY <2>1, <2>4, HeaderStartTwice
  <2>6. \A t, h : OnChain(blocks, t, h) => OnChain(blocks', t, h)
    BY <2>1 DEF OnChain
  <2>7. ChainReachesEveryBlock'
    BY <1>1, <2>1 DEF ChainReachesEveryBlock
  <2>8. OnChain(blocks', s, flash_code_address')
    BY <2>1, <2>3 DEF OnChain
  <2>9. \A t \in Sector : t # s => OnChain(blocks', t, HeaderStart(sector_free_offset'[t]))
    BY <2>1, <2>2, <2>3 DEF OnChain
  <2> QED
    BY <1>1, <2>1, <2>5, <2>7, <2>8, <2>9 DEF ChainInv, Compiling
<1>7. CASE Undo
  <2>1. /\ stage \in Compiling /\ stage' = "dispatch" /\ UNCHANGED blocks
        /\ sector_free_offset' = [sector_free_offset EXCEPT
                                    ![flash_code_sector] = flash_code_address]
    BY <1>7 DEF Undo, FreeAfterUndo, flashVars, Compiling
  <2>2. \A s \in Sector : sector_free_offset'[s] =
          IF s = flash_code_sector THEN flash_code_address
                                   ELSE sector_free_offset[s]
    BY <1>1, <2>1 DEF TypeInv, TypeOK
  <2>3. \A s \in Sector : OnChain(blocks, s, HeaderStart(sector_free_offset'[s]))
    BY <2>1, <2>2 DEF ChainInv, Compiling
  <2>4. \A s \in Sector : OnChain(blocks', s, HeaderStart(sector_free_offset'[s]))
    BY <2>1, <2>3 DEF OnChain
  <2>5. ChainReachesEveryBlock'
    BY <1>1, <2>1 DEF ChainReachesEveryBlock
  <2> QED
    BY <1>1, <2>1, <2>4, <2>5 DEF ChainInv, Compiling
<1>8. CASE Shrink
  <2>1. /\ stage = "publish" /\ stage' = "dispatch" /\ UNCHANGED blocks
        /\ next_free_sector = flash_code_sector /\ ThisBlock \in blocks
        /\ sector_alloc_floor = 0
    BY <1>1, <1>8 DEF Shrink, ChainInv, TypeInv, BufferInv, Compiling,
       Programmed, flashVars
  <2>2. FreeAfterShrink = EndOf(ThisBlock)
    BY <1>1, <2>1, BlockInReservation
       DEF FreeAfterShrink, UsedEnd
  <2>3. \A s \in Sector : sector_free_offset'[s] =
          IF s = flash_code_sector THEN EndOf(ThisBlock)
                                   ELSE sector_free_offset[s]
    BY <1>1, <1>8, <2>1, <2>2 DEF Shrink, TypeInv, TypeOK
  <2>4. OnChain(blocks, flash_code_sector, HeaderStart(EndOf(ThisBlock)))
    BY <2>1 DEF OnChain, ThisBlock, EndOf, NextHeader
  <2>5. \A s \in Sector : OnChain(blocks, s, HeaderStart(sector_free_offset'[s]))
    BY <2>1, <2>3, <2>4 DEF ChainInv
  <2>6. \A s \in Sector : OnChain(blocks', s, HeaderStart(sector_free_offset'[s]))
    BY <2>1, <2>5 DEF OnChain
  <2>7. ChainReachesEveryBlock'
    BY <1>1, <2>1 DEF ChainReachesEveryBlock
  <2> QED
    BY <1>1, <2>1, <2>6, <2>7 DEF ChainInv, Compiling
<1>9. CASE NoRoom \/ RunGuest
  <2>1. /\ stage = "dispatch" /\ stage' \in {"dispatch", "off"}
        /\ UNCHANGED <<blocks, sector_free_offset>>
    BY <1>9 DEF NoRoom, TornMark, NeedsCompile, RunGuest, flashVars, wramVars
  <2>2. ChainReachesEveryBlock'
    BY <1>1, <2>1 DEF ChainReachesEveryBlock
  <2>3. \A s \in Sector : OnChain(blocks', s, HeaderStart(sector_free_offset'[s]))
    BY <2>1 DEF ChainInv, OnChain, Compiling
  <2> QED
    BY <1>1, <2>1, <2>2, <2>3 DEF ChainInv, Compiling
<1>10. CASE Boot
  <2>1. /\ blocks' = blocks \/ blocks' = {}
        /\ sector_free_offset' = [s \in Sector |-> 0] /\ stage' = "dispatch"
    BY <1>10 DEF Boot, FlashFormat, flashVars
  <2>2. ChainReachesEveryBlock'
    BY <1>1, <2>1 DEF ChainReachesEveryBlock
  <2> QED
    BY <1>1, <2>1, <2>2 DEF ChainInv, Compiling, OnChain
<1>11. CASE Reset
  BY <1>1, <1>11, ChainOff DEF Reset, flashVars
<1>12. CASE UNCHANGED vars
  BY <1>1, <1>12 DEF vars, flashVars, wramVars, jobVars, ChainInv,
     ChainReachesEveryBlock, OnChain
<1> QED
  BY <1>2, <1>3, <1>4, <1>5, <1>6, <1>7, <1>8, <1>9, <1>10, <1>11, <1>12
     DEF Next, CompileStep, Pc

(* Without ROM data copies the linker's walk from header to header finds
   every block: also after a compile was undone, and after a reset that kept
   the cache.                                                               *)
THEOREM WalkFindsEveryBlock == NoRomReads /\ Spec => []ChainReachesEveryBlock
<1> SUFFICES ASSUME NoRomReads PROVE Spec => []ChainReachesEveryBlock
  OBVIOUS
<1>1. ChainInv /\ [Next]_vars => ChainInv'
  BY ChainNext
<1>2. Spec => []ChainInv
  BY ChainInit, <1>1, PTL DEF Spec
<1> QED
  BY <1>2, PTL DEF ChainInv
=============================================================================
