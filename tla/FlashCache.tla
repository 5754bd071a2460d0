----------------------------- MODULE FlashCache -----------------------------
(***************************************************************************)
(* The dynamic translation path of run_6502: dispatch on the guest PC, the *)
(* sector allocator, the compile loop, the order in which a block reaches  *)
(* flash (header and code, sentinel, PC tables) and what a reset keeps.    *)
(*                                                                         *)
(* Flash is NOR: programming only clears bits, so bytes programmed twice   *)
(* since the last erase hold the AND of both values.  blocks and copies    *)
(* are all the byte ranges programmed into the code banks since the last   *)
(* erase; two of them overlapping is a corrupted translation.              *)
(*                                                                         *)
(* A native address (bank, address) is modelled as a sector and an offset  *)
(* in it: bank = (sector >> 2) + BANK_CODE, address = base of the sector   *)
(* + offset.  The rewriting of a block by the IR passes keeps code_index   *)
(* (run_6502 pads the lowered code with NOPs) and is not modelled here.    *)
(***************************************************************************)
EXTENDS SectorLayout, FiniteSets

CONSTANTS
  Sectors,       \* number of code sectors, FLASH_CACHE_SECTORS
  SectorsPerBank,\* sectors of one flash bank (4)
  LastPc,        \* guest PCs are 0..LastPc, one per guest instruction
  Rom,           \* the PCs run_6502 agrees to compile (ROM_ADDR_MIN..MAX)
  Known,         \* PCs marked as code in the SA bitmap
  Insn,          \* Insn[pc]: what recompile_opcode does with the opcode at pc
  CopySize,      \* bytes nes_rom_data_copy allocates (256)
  CachePersist   \* is ENABLE_CACHE_PERSIST defined?

Pc     == 0..LastPc
Sector == 0..(Sectors - 1)

(* How the recompiler treats an opcode.
     plain        emits size bytes without looking at the room left
     guarded      emits size bytes if size + slack more bytes are free,
                  otherwise asks for the instruction to be interpreted
     jump         as guarded, and ends the block at target
     romread      plain, after copying ROM data next to the code (NES)
     interpreted  always left to the interpreter
   NOP is plain with size 0.                                              *)
InsnKinds == {"plain", "guarded", "jump", "romread", "interpreted"}

ASSUME CacheAssumption ==
  /\ Sectors \in Nat \ {0} /\ SectorsPerBank \in Nat \ {0}
  /\ LastPc \in Nat
  /\ Rom \subseteq Pc /\ Known \subseteq Pc
  /\ Insn \in [Pc -> [kind: InsnKinds, size: Nat, slack: Nat, target: Pc]]
  /\ CopySize \in Nat \ {0} /\ CachePersist \in BOOLEAN
  /\ CodeSize > 6
  /\ \A p \in Pc : Insn[p].kind \in {"plain", "romread"} => Insn[p].size <= 6
  /\ \A p \in Pc : Insn[p].kind = "romread" => Insn[p].size > 0

VARIABLES
  (* WRAM *)
  sector_free_offset,   \* first free offset of every sector
  next_free_sector,     \* where the allocator starts to look
  sector_alloc_floor,   \* end of the last ROM data copy of this block (NES)
  (* flash *)
  blocks,               \* translations programmed since the last erase
  sealed,               \* those whose block-complete sentinel is written
  copies,               \* ROM data copies programmed since the last erase
  pc_flag,              \* PC flag table
  pc_native,            \* PC jump table
  signature,            \* is the cache signature written?
  (* the compile in progress *)
  stage,                \* where run_6502 is
  pc,                   \* the guest PC
  entry_pc,             \* PC the block starts at
  flash_code_sector,    \* flash_code_bank and the sector bits of ...
  flash_code_address,   \* ... flash_code_address: header start of the block
  pre_alloc_next_free,  \* next_free_sector to restore on an undo
  code_index,           \* native bytes in the staging buffer
  instr_off,            \* staging offset of every instruction of the block
  unpublished           \* PCs of the block still to be published

flashVars == <<blocks, sealed, copies, pc_flag, pc_native, signature>>
wramVars  == <<sector_free_offset, next_free_sector, sector_alloc_floor>>
jobVars   == <<entry_pc, flash_code_sector, flash_code_address,
               pre_alloc_next_free, code_index, instr_off, unpublished>>
vars      == <<flashVars, wramVars, jobVars, stage, pc>>

Erased == "erased"
Flags  == {Erased, "recompiled", "interpreted"}

NoAddr == <<Sectors, 0>>               \* both address bytes still $FF
NoOff  == -1                           \* instruction not in the block
NoInstr == [p \in Pc |-> NoOff]

ThisBlock == [sec  |-> flash_code_sector, base |-> flash_code_address,
              len  |-> code_index + EpilogueSize,
              entry |-> entry_pc, offs |-> instr_off]

Stages == {"off", "dispatch", "loop", "undo", "program", "seal", "publish",
           "flag"}
-----------------------------------------------------------------------------
(* What happens to the instruction at p when n bytes are already emitted. *)

RoomLeft_NoEpilogueSlack(p, n) == n < CodeSize
RoomLeft(p, n) == n + Insn[p].size + Insn[p].slack < CodeSize

EmitsCode(p, n) ==
  \/ Insn[p].kind \in {"plain", "romread"}
  \/ Insn[p].kind \in {"guarded", "jump"} /\ RoomLeft(p, n)

NextPc(p) == IF Insn[p].kind = "jump" THEN Insn[p].target ELSE p + 1

(* The compile loop goes on after p only while the buffer has room for one
   more unguarded instruction and the PC stays in ROM.                    *)
Continues(p, n) ==
  /\ Insn[p].kind # "jump"
  /\ n + Insn[p].size <= CodeSize - 6
  /\ NextPc(p) \in Rom

(* flash_cache_pc_update: a slot that is not erased stays as it is. *)
SlotErased_FlagOnly(p) == pc_flag[p] = Erased
SlotErased(p) == pc_flag[p] = Erased /\ pc_native[p] = NoAddr

(* Sectors in the order the allocator visits them, from next_free_sector. *)
ScanDistance(s) ==
  IF s >= next_free_sector THEN s - next_free_sector
                           ELSE s + Sectors - next_free_sector
FirstFit(s, Ok(_)) ==
  /\ Ok(s)
  /\ \A t \in Sector : Ok(t) => ScanDistance(s) <= ScanDistance(t)

(* Address of the staging offset off of this block in flash. *)
NativeAddr(off) ==
  <<flash_code_sector, flash_code_address + BlockHeaderSize + off>>

(* The PCs that get a table entry: instructions in front of the epilogue. *)
Publishable_WithEpilogue == {p \in Pc : instr_off[p] # NoOff}
Publishable_SkipsZero ==
  {p \in Pc : instr_off[p] > 0 /\ instr_off[p] < code_index}
Publishable ==
  {p \in Pc : instr_off[p] # NoOff /\ instr_off[p] < code_index}

(* What the sector's free offset becomes when a compile is undone, and when
   the block is complete: never below the end of a ROM data copy.        *)
FreeAfterUndo_KeepsReservation == sector_free_offset[flash_code_sector]
FreeAfterUndo == flash_code_address

UsedEnd == BlockEnd(flash_code_address, code_index + EpilogueSize)
FreeAfterShrink_IgnoresCopies == UsedEnd
FreeAfterShrink ==
  IF UsedEnd < sector_alloc_floor THEN sector_alloc_floor ELSE UsedEnd

BlockFits(s) == Fits(sector_free_offset[s], MaxBlock)
Bank(s)      == s \div SectorsPerBank
CopyFits(s)  == sector_free_offset[s] + CopySize <= SectorSize
-----------------------------------------------------------------------------
Init ==
  /\ sector_free_offset = [s \in Sector |-> 0]
  /\ next_free_sector = 0 /\ sector_alloc_floor = 0
  /\ blocks = {} /\ sealed = {} /\ copies = {}
  /\ pc_flag = [p \in Pc |-> Erased]
  /\ pc_native = [p \in Pc |-> NoAddr]
  /\ signature = FALSE
  /\ stage = "off" /\ pc \in Pc /\ entry_pc = pc
  /\ flash_code_sector = 0 /\ flash_code_address = 0
  /\ pre_alloc_next_free = 0
  /\ code_index = 0 /\ instr_off = NoInstr /\ unpublished = {}

(* Erase of the code banks and the PC tables. *)
FlashFormat ==
  /\ blocks' = {} /\ sealed' = {} /\ copies' = {}
  /\ pc_flag' = [p \in Pc |-> Erased]
  /\ pc_native' = [p \in Pc |-> NoAddr]

(* main up to the main loop: the caches are formatted, or with
   ENABLE_CACHE_PERSIST kept when the signature is there, and the
   allocator's table in WRAM starts from zero in both cases.     *)
Boot ==
  /\ stage = "off"
  /\ IF CachePersist /\ signature
     THEN UNCHANGED flashVars
     ELSE FlashFormat /\ signature' = CachePersist
  /\ sector_free_offset' = [s \in Sector |-> 0]
  /\ next_free_sector' = 0
  /\ stage' = "dispatch"
  /\ pc' \in Pc
  /\ UNCHANGED <<sector_alloc_floor, jobVars>>

(* Power loss or reset button at any point: WRAM and the compile are gone. *)
Reset ==
  /\ stage # "off"
  /\ stage' = "off"
  /\ UNCHANGED <<flashVars, wramVars, jobVars, pc>>

(* dispatch_on_pc finds the PC translated or marked for the interpreter, or
   run_6502 declines to compile it; the guest goes on at some other PC.    *)
RunGuest ==
  /\ stage = "dispatch"
  /\ pc_flag[pc] # Erased \/ pc \notin Rom \/ pc \notin Known
  /\ pc' \in Pc
  /\ UNCHANGED <<flashVars, wramVars, jobVars, stage>>

NeedsCompile ==
  stage = "dispatch" /\ pc_flag[pc] = Erased /\ pc \in Rom /\ pc \in Known

(* flash_sector_alloc(CODE_SIZE + EPILOGUE_SIZE + XBANK_EPILOGUE_SIZE). *)
BeginBlock(s) ==
  /\ NeedsCompile
  /\ FirstFit(s, BlockFits)
  /\ entry_pc' = pc
  /\ flash_code_sector' = s
  /\ flash_code_address' = HeaderStart(sector_free_offset[s])
  /\ sector_free_offset' = [sector_free_offset EXCEPT
                              ![s] = AllocEnd(@, MaxBlock)]
  /\ pre_alloc_next_free' = next_free_sector
  /\ next_free_sector' = s
  /\ sector_alloc_floor' = 0
  /\ code_index' = 0 /\ instr_off' = NoInstr /\ unpublished' = {}
  /\ stage' = "loop"
  /\ UNCHANGED <<flashVars, pc>>

(* An INTERPRETED entry: the address bytes are programmed from whatever
   flash_code_address holds, the flag says interpret.                  *)
MarkInterpreted_Forgotten(p) == p \in Pc /\ UNCHANGED <<pc_flag, pc_native>>
MarkInterpreted_Overwrites(p) ==
  /\ pc_flag' = [pc_flag EXCEPT ![p] = "interpreted"]
  /\ UNCHANGED pc_native
MarkInterpreted(p) ==
  IF SlotErased(p)
  THEN /\ pc_flag' = [pc_flag EXCEPT ![p] = "interpreted"]
       /\ pc_native' = [pc_native EXCEPT ![p] = NativeAddr(code_index)]
  ELSE UNCHANGED <<pc_flag, pc_native>>

(* Power goes between the address bytes and the flag byte of such an entry. *)
TornMark(p, off) ==
  /\ SlotErased(p)
  /\ pc_native' = [pc_native EXCEPT ![p] = NativeAddr(off)]
  /\ stage' = "off"
  /\ UNCHANGED pc_flag

(* All sectors full: the PC is marked INTERPRETED and interpreted. *)
NoRoom ==
  /\ NeedsCompile
  /\ \A s \in Sector : ~BlockFits(s)
  /\ \/ /\ IF SlotErased(pc)
           THEN /\ pc_flag' = [pc_flag EXCEPT ![pc] = "interpreted"]
                /\ pc_native' = [pc_native EXCEPT ![pc] = NativeAddr(0)]
           ELSE UNCHANGED <<pc_flag, pc_native>>
        /\ UNCHANGED stage
     \/ TornMark(pc, 0)
  /\ sector_alloc_floor' = 0
  /\ pc' \in Pc
  /\ UNCHANGED <<sector_free_offset, next_free_sector, blocks, sealed, copies,
                 signature, jobVars>>

(* One turn of the compile loop that adds the instruction to the block. *)
Emit ==
  /\ code_index' = code_index + Insn[pc].size
  /\ instr_off' = [instr_off EXCEPT ![pc] = code_index]
  /\ pc' = NextPc(pc)
  /\ stage' = IF Continues(pc, code_index) THEN "loop"
              ELSE IF code_index' = 0 THEN "undo" ELSE "program"

(* One that ends the block in front of an instruction for the interpreter. *)
StopHere ==
  /\ \/ /\ MarkInterpreted(pc)
        /\ stage' = IF code_index = 0 THEN "undo" ELSE "program"
     \/ TornMark(pc, code_index)
  /\ UNCHANGED <<code_index, instr_off, pc>>

CompileInstruction ==
  /\ stage = "loop" /\ Insn[pc].kind # "romread"
  /\ \/ EmitsCode(pc, code_index) /\ Emit /\ UNCHANGED <<pc_flag, pc_native>>
     \/ ~EmitsCode(pc, code_index) /\ StopHere
  /\ UNCHANGED <<blocks, sealed, copies, signature, wramVars, entry_pc,
                 flash_code_sector, flash_code_address, pre_alloc_next_free,
                 unpublished>>

(* NES: an indexed read of ROM gets a copy of the data in the first sector
   with room, which is kept even when it lands in another bank than the
   block and the instruction is left to the interpreter after all.       *)
CompileRomRead(s) ==
  /\ stage = "loop" /\ Insn[pc].kind = "romread"
  /\ FirstFit(s, CopyFits)
  /\ copies' = copies \cup {[sec |-> s, base |-> sector_free_offset[s]]}
  /\ sector_free_offset' = [sector_free_offset EXCEPT ![s] = @ + CopySize]
  /\ sector_alloc_floor' = IF sector_free_offset'[s] > sector_alloc_floor
                           THEN sector_free_offset'[s] ELSE sector_alloc_floor
  /\ \/ Bank(s) = Bank(flash_code_sector) /\ Emit
        /\ UNCHANGED <<pc_flag, pc_native>>
     \/ Bank(s) # Bank(flash_code_sector) /\ StopHere
  /\ UNCHANGED <<blocks, sealed, signature, next_free_sector, entry_pc,
                 flash_code_sector, flash_code_address, pre_alloc_next_free,
                 unpublished>>

CompileRomReadNoRoom ==
  /\ stage = "loop" /\ Insn[pc].kind = "romread"
  /\ \A s \in Sector : ~CopyFits(s)
  /\ StopHere
  /\ UNCHANGED <<blocks, sealed, copies, signature, wramVars, entry_pc,
                 flash_code_sector, flash_code_address, pre_alloc_next_free,
                 unpublished>>

(* No code came out: the reservation is given back, one instruction is
   interpreted and the guest goes on from there.                      *)
Undo ==
  /\ stage = "undo"
  /\ sector_free_offset' = [sector_free_offset EXCEPT
                              ![flash_code_sector] = FreeAfterUndo]
  /\ next_free_sector' = pre_alloc_next_free
  /\ pc' \in Pc
  /\ stage' = "dispatch"
  /\ UNCHANGED <<flashVars, sector_alloc_floor, jobVars>>

(* Header, native code and epilogue go to flash. *)
ProgramBlock ==
  /\ stage = "program"
  /\ blocks' = blocks \cup {ThisBlock}
  /\ stage' = "seal"
  /\ UNCHANGED <<sealed, copies, pc_flag, pc_native, signature, wramVars,
                 jobVars, pc>>

(* Sentinel, SA bitmap bit of the entry (already clear), and the list of
   PCs to publish: all instructions that start before the epilogue.      *)
SealBlock ==
  /\ stage = "seal"
  /\ sealed' = sealed \cup {ThisBlock}
  /\ unpublished' = Publishable
  /\ stage' = "publish"
  /\ UNCHANGED <<blocks, copies, pc_flag, pc_native, signature, wramVars,
                 entry_pc, flash_code_sector, flash_code_address,
                 pre_alloc_next_free, code_index, instr_off, pc>>

(* The entry goes first, then the others in program order.  (The loop over
   the fences publishes some of them early, with the same address.)       *)
Publishing(p) ==
  /\ p \in unpublished
  /\ \A q \in unpublished : p <= q

(* flash_cache_pc_update, first half: both address bytes. *)
PublishAddress(p) ==
  /\ stage = "publish" /\ Publishing(p)
  /\ IF SlotErased(p)
     THEN /\ pc_native' = [pc_native EXCEPT ![p] = NativeAddr(instr_off[p])]
          /\ stage' = "flag" /\ UNCHANGED unpublished
     ELSE /\ unpublished' = unpublished \ {p}
          /\ UNCHANGED <<pc_native, stage>>
  /\ UNCHANGED <<blocks, sealed, copies, pc_flag, signature, wramVars,
                 entry_pc, flash_code_sector, flash_code_address,
                 pre_alloc_next_free, code_index, instr_off, pc>>

(* Second half: the flag byte, which makes dispatch_on_pc jump there. *)
PublishFlag(p) ==
  /\ stage = "flag" /\ Publishing(p)
  /\ pc_flag' = [pc_flag EXCEPT ![p] = "recompiled"]
  /\ unpublished' = unpublished \ {p}
  /\ stage' = "publish"
  /\ UNCHANGED <<blocks, sealed, copies, pc_native, signature, wramVars,
                 entry_pc, flash_code_sector, flash_code_address,
                 pre_alloc_next_free, code_index, instr_off, pc>>

(* The unused end of the reservation goes back to the sector, but never
   below the end of a ROM data copy; then the block is dispatched.       *)
Shrink ==
  /\ stage = "publish" /\ unpublished = {}
  /\ sector_free_offset' =
       [sector_free_offset EXCEPT ![next_free_sector] = FreeAfterShrink]
  /\ pc' = entry_pc
  /\ stage' = "dispatch"
  /\ UNCHANGED <<flashVars, next_free_sector, sector_alloc_floor, jobVars>>

CompileStep ==
  \/ CompileInstruction
  \/ \E s \in Sector : CompileRomRead(s)
  \/ CompileRomReadNoRoom
  \/ Undo \/ ProgramBlock \/ SealBlock
  \/ \E p \in Pc : PublishAddress(p) \/ PublishFlag(p)
  \/ Shrink

Next ==
  \/ Boot \/ Reset \/ RunGuest \/ NoRoom
  \/ \E s \in Sector : BeginBlock(s)
  \/ CompileStep

Spec == Init /\ [][Next]_vars

(* run_6502 does not return in the middle of a compile. *)
FairSpec == Spec /\ WF_vars(CompileStep) /\ WF_vars(Boot)
-----------------------------------------------------------------------------
(* What the cache promises. *)

EndOf(b)   == BlockEnd(b.base, b.len)       \* of a block
CopyEnd(c) == c.base + CopySize              \* of a ROM data copy

Apart(start1, end1, start2, end2) == end1 <= start2 \/ end2 <= start1

NativeOff == {NoOff} \cup (0..CodeSize)

TypeOK ==
  /\ sector_free_offset \in [Sector -> 0..SectorSize]
  /\ next_free_sector \in Sector
  /\ sector_alloc_floor \in 0..SectorSize
  /\ \A b \in blocks :
       /\ b.sec \in Sector /\ b.base \in Nat /\ b.len \in Nat
       /\ b.entry \in Pc /\ b.offs \in [Pc -> NativeOff]
  /\ \A c \in copies : c.sec \in Sector /\ c.base \in Nat
  /\ sealed \subseteq blocks
  /\ pc_flag \in [Pc -> Flags]
  /\ pc_native \in [Pc -> (0..Sectors) \X Nat]
  /\ signature \in BOOLEAN
  /\ stage \in Stages
  /\ pc \in 0..(LastPc + 1) /\ entry_pc \in Pc
  /\ flash_code_sector \in Sector /\ flash_code_address \in 0..SectorSize
  /\ pre_alloc_next_free \in Sector
  /\ code_index \in 0..CodeSize
  /\ instr_off \in [Pc -> NativeOff]
  /\ unpublished \subseteq Pc

(* No flash byte is programmed twice between two erases: whatever the order
   of compiles, undone compiles, data copies and shrinks, the byte ranges
   in one sector do not overlap, and no translation is ANDed with another.  *)
ExtentsDisjoint ==
  /\ \A b, c \in blocks : b.sec = c.sec /\ b # c =>
       Apart(b.base, EndOf(b), c.base, EndOf(c))
  /\ \A b \in blocks, c \in copies : b.sec = c.sec =>
       Apart(b.base, EndOf(b), c.base, CopyEnd(c))
  /\ \A c, d \in copies : c.sec = d.sec /\ c # d =>
       Apart(c.base, CopyEnd(c), d.base, CopyEnd(d))

(* flash_sector_alloc keeps the end of each sector for the linker's
   trampolines, and nothing the compiler emits grows into it.       *)
PoolUntouched ==
  /\ \A b \in blocks : EndOf(b) <= SectorSize - PoolSize
  /\ \A c \in copies : CopyEnd(c) <= SectorSize - PoolSize

(* A PC whose flag sends dispatch_on_pc to native code has an address at
   which a complete block really starts translating that instruction, and
   which is not in its epilogue; also while the next block is compiled.    *)
PublishedIsRunnable ==
  \A p \in Pc : pc_flag[p] = "recompiled" =>
    \E b \in sealed :
      /\ b.offs[p] # NoOff
      /\ pc_native[p] = <<b.sec, b.base + BlockHeaderSize + b.offs[p]>>
      /\ b.offs[p] < b.len - EpilogueSize

(* The linker finds the blocks of a sector by walking from header to header
   (opt2_scan_and_patch_epilogues, full_epilogue_scan, full_branch_scan):
   every block that is in flash is reached by that walk.                    *)
ChainReachesEveryBlock ==
  \A b \in blocks :
    \/ b.base = HeaderStart(0)
    \/ \E c \in blocks : c.sec = b.sec /\ b.base = NextHeader(c.base, c.len)

(* The comment above the "already recompiled" guard of run_6502: the same
   PC is not compiled over and over until the cache is exhausted.          *)
NoDuplicateBlocks ==
  \A b, c \in sealed : b.entry = c.entry => b = c

(* A PC-table entry is programmed once between two erases. *)
TablesProgrammedOnce ==
  [][stage # "off" =>
       \A p \in Pc : /\ pc_native[p] # NoAddr => pc_native'[p] = pc_native[p]
                     /\ pc_flag[p] # Erased => pc_flag'[p] = pc_flag[p]]_vars

(* What the dispatcher sees of the cache, and that it is a map from PCs to
   translations which appear as a whole, in flash that nothing else occupies,
   are entered at once and stay until the power goes.                       *)
Entry(b, p) == [at |-> <<b.sec, b.base + BlockHeaderSize + b.offs[p]>>, pc |-> p]
Covered(b)  == {p \in Pc : b.offs[p] # NoOff /\ b.offs[p] < b.len - EpilogueSize}
Held     == UNION {{Entry(b, p) : p \in Covered(b)} : b \in sealed}
Entered  == {[at |-> pc_native[p], pc |-> p] :
               p \in {q \in Pc : pc_flag[q] = "recompiled"}}
Declined == {p \in Pc : pc_flag[p] = "interpreted"}

Cache == INSTANCE TranslationCache WITH
  on <- stage # "off", held <- Held, entered <- Entered, declined <- Declined
ImplementsCache == Cache!Spec

(* Left alone by resets, the cache comes to rest, for every order in which
   the guest visits its PCs: from some time on no block is programmed, and
   every PC visited is translated or marked, but for a NOP.  One in front of
   an opcode that emits nothing is compiled and undone on each visit: the undo
   leaves its entry erased (dynamos.c:1017-1029), although the comment there
   takes its flag for set, as it is for an opcode of the interpreter itself. *)
Nops == {p \in Pc : Insn[p].kind = "plain" /\ Insn[p].size = 0}
InVain == stage \in {"loop", "undo"} /\ entry_pc \in Nops
CompilesSettle == []<>(stage = "off") \/ <>[](stage = "dispatch" \/ InVain)
=============================================================================
