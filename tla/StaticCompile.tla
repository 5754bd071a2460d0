---------------------------- MODULE StaticCompile ----------------------------
(***************************************************************************)
(* The two-pass static compile of sa_run_b2, made once on a warm reboot.   *)
(*                                                                         *)
(* Pass 1 compiles every known address that no block covers yet into RAM,  *)
(* each into an allocation of maximal size, and lists where the block      *)
(* begins, where it ends and how long it came out.  Then code and PC       *)
(* tables are erased, the allocator is reset, and pass 2 compiles the list *)
(* again, each block into exactly the bytes pass 1 measured.               *)
(*                                                                         *)
(* A guest address is the index of an instruction.  Code bytes are counted *)
(* and not represented: what the IR passes make of a block keeps its       *)
(* length (the lowered code is padded with NOPs) and is modelled in        *)
(* Codegen.  The limits of the IR's lists of tracked instructions and of   *)
(* direct branches, and the linker's sweeps between blocks, are left out.  *)
(***************************************************************************)
EXTENDS SectorLayout, Sequences, FiniteSets

CONSTANTS
  Sectors,         \* FLASH_CACHE_SECTORS
  SectorsPerBank,
  LastPc,          \* instructions are 0..LastPc, ROM_ADDR_MIN..ROM_ADDR_MAX
  Programs,        \* guest programs: [insn: what is there, known: SA bitmap]
  CopySize         \* bytes nes_rom_data_copy allocates (256)

Pc     == 0..LastPc
Sector == 0..(Sectors - 1)
Bank(s) == s \div SectorsPerBank

(* What recompile_opcode does with an opcode.
     plain     emits size bytes whatever room is left (NOP: none)
     call      stack-clean JSR: size bytes if they fit, and goes on
     dirty     the same for any other JSR
     rts       size bytes if they fit, and ends the block
     branch    to target, conditional
     jmp       to target, ends the block
     romread   copies ROM data into the cache and reads it there (NES)
     io        left to the interpreter
     full      plain, and the last the IR has room for                     *)
Ops == {"plain", "call", "dirty", "rts", "branch", "jmp", "romread", "io",
        "full"}

ASSUME StaticAssumption ==
  /\ Sectors \in Nat \ {0} /\ SectorsPerBank \in Nat \ {0}
  /\ LastPc \in Nat /\ CopySize \in Nat \ {0} /\ CodeSize > 6
  /\ \A prog \in Programs :
       /\ prog.known \subseteq Pc
       /\ prog.insn \in [Pc -> [op: Ops, size: Nat, target: Pc]]
       /\ \A p \in Pc : prog.insn[p].op \in {"plain", "full"} =>
                          prog.insn[p].size <= 6

VARIABLES
  prog,                \* the guest ROM and its bitmap, never changed
  pass,                \* sa_compile_pass, 3 once both are over
  cursor,              \* scan_cursor in pass 1, position in the list in pass 2
  entry_list,          \* BANK_ENTRY_LIST
  pc_table,            \* PC flag and PC address tables
  blocks,              \* blocks programmed into flash by pass 2
  sector_free_offset, next_free_sector,
  (* sa_compile_one_block *)
  stage,               \* "between" blocks, in its "loop", or at its "end"
  pc, entry_pc, code_index,
  sa_block_exit_pc, sa_block_alloc_size,
  flash_code_sector, flash_code_address, pre_alloc_next_free,
  instr_off,           \* native offset of the instructions compiled
  tracked,             \* those recorded in sa_ir_instr_*
  ir_enabled           \* ir_ctx.enabled

allocVars == <<sector_free_offset, next_free_sector>>
blockVars == <<entry_pc, sa_block_exit_pc, sa_block_alloc_size,
               flash_code_sector, flash_code_address, pre_alloc_next_free>>
loopVars  == <<pc, code_index, instr_off, tracked, ir_enabled>>
vars      == <<prog, pass, cursor, entry_list, pc_table, blocks, allocVars,
               stage, blockVars, loopVars>>

insn == prog.insn
NoInstr == [p \in {} |-> 0]
ErasedSlot == [flag |-> "erased", sec |-> 0, addr |-> 0]
AllErased == [p \in Pc |-> ErasedSlot]

Init ==
  /\ prog \in Programs
  /\ pass = 0 /\ cursor = 0 /\ entry_list = <<>> /\ blocks = {}
  /\ pc_table = AllErased
  /\ sector_free_offset = [s \in Sector |-> 0] /\ next_free_sector = 0
  /\ stage = "between"
  /\ pc = 0 /\ entry_pc = 0 /\ code_index = 0 /\ instr_off = NoInstr
  /\ tracked = {} /\ ir_enabled = TRUE
  /\ sa_block_exit_pc = LastPc + 1 /\ sa_block_alloc_size = 0
  /\ flash_code_sector = 0 /\ flash_code_address = 0
  /\ pre_alloc_next_free = 0

-----------------------------------------------------------------------------
(* The allocators search the sectors round from next_free_sector. *)

Distance(s) == (s + Sectors - next_free_sector) % Sectors
Nearest(S)  == CHOOSE s \in S : \A r \in S : Distance(s) <= Distance(r)

RoomFor(size) == {s \in Sector : Fits(sector_free_offset[s], size)}

(* A data copy does not keep out of the trampoline pool. *)
RoomForCopy ==
  {s \in Sector : sector_free_offset[s] + CopySize <= SectorSize}

(* Opens a block at entry in an allocation of size bytes. *)
Open(entry, size) ==
  LET s == Nearest(RoomFor(size)) IN
  /\ RoomFor(size) # {}
  /\ flash_code_sector' = s
  /\ flash_code_address' = HeaderStart(sector_free_offset[s])
  /\ sector_free_offset' =
       [sector_free_offset EXCEPT ![s] = AllocEnd(@, size)]
  /\ next_free_sector' = s /\ pre_alloc_next_free' = next_free_sector
  /\ stage' = "loop" /\ pc' = entry /\ entry_pc' = entry
  /\ code_index' = 0 /\ instr_off' = NoInstr
  /\ tracked' = {} /\ ir_enabled' = TRUE

-----------------------------------------------------------------------------
(* recompile_opcode: how many bytes it emits for the instruction at p. *)

Room(n) == code_index + n < CodeSize
ExitRoom == 27                                   \* EPILOGUE_SIZE + 6
Template == 19                                   \* branch through $FFF0
Direct   == 5                                    \* Bxx_inv +3, JMP

Compiled(t) == pc_table[t].flag = "compiled"     \* lookup_native_addr_safe
SameBank(t) ==
  Compiled(t) /\ Bank(pc_table[t].sec) = Bank(flash_code_sector)

OrInterpret(n, room) == IF Room(room) THEN n ELSE 0
DirectOr(reachable, n) ==
  IF reachable /\ Room(Direct + ExitRoom) THEN Direct ELSE n

(* block_has_jsr & 2: no loop inside a block with a JSR that is not clean. *)
HasDirtyCall == \E q \in DOMAIN instr_off : insn[q].op = "dirty"
LoopInBlock(p, t) == t >= entry_pc /\ t < p /\ ~HasDirtyCall

BranchLen(p, t) ==
  IF t > p
  THEN DirectOr(SameBank(t), OrInterpret(Template, Template + 14))
  ELSE IF ~Compiled(t)
  THEN OrInterpret(Template, Template + 14)
  ELSE DirectOr(LoopInBlock(p, t) \/ SameBank(t), 0)

JmpLen(t) ==
  IF pass = 2 /\ Room(3) /\ SameBank(t) THEN 3 ELSE OrInterpret(17, 17)

CopyInReach == Bank(Nearest(RoomForCopy)) = Bank(flash_code_sector)

EmitLen(p) ==
  LET i == insn[p] IN
  CASE i.op \in {"plain", "full"} -> i.size
    [] i.op \in {"call", "dirty", "rts"} ->
         OrInterpret(i.size, i.size + ExitRoom)
    [] i.op = "branch"            -> BranchLen(p, i.target)
    [] i.op = "jmp"               -> JmpLen(i.target)
    [] i.op = "romread" ->
         IF RoomForCopy # {} /\ CopyInReach THEN 3 ELSE 0
    [] i.op = "io"                -> 0

Interpreted(p) == EmitLen(p) = 0 /\ insn[p].op # "plain"

NextPc(p) ==
  IF Interpreted(p) THEN p
  ELSE IF insn[p].op = "jmp" THEN insn[p].target ELSE p + 1

(* The block goes on behind the instruction at p. *)
PastListedExit_Never(q) == FALSE
PastListedExit(q) == pass = 2 /\ q >= sa_block_exit_pc
Continues(p) ==
  /\ ~Interpreted(p) /\ insn[p].op \notin {"jmp", "rts"}
  /\ code_index + EmitLen(p) <= CodeSize - 6
  /\ NextPc(p) \in Pc
  /\ ~PastListedExit(NextPc(p))

(* flash_cache_pc_update: a slot is programmed once between two erasures. *)
Slot(flag, off) ==
  [flag |-> flag, sec |-> flash_code_sector,
   addr |-> flash_code_address + BlockHeaderSize + off]
Programmed(S, flag, off) ==
  [p \in Pc |-> IF p \in S /\ pc_table[p] = ErasedSlot
                THEN Slot(flag, off[p]) ELSE pc_table[p]]

(* One turn of the compile loop.  In pass 2 the tables are left alone for
   as long as the IR records the block.                                   *)
CompileInstruction ==
  LET p   == pc
      off == code_index
      how == IF Interpreted(p) THEN "interpreted" ELSE "compiled"
      overflow == insn[p].op = "full"
  IN
  /\ stage = "loop"
  /\ code_index' = code_index + EmitLen(p)
  /\ pc' = NextPc(p)
  /\ ir_enabled' = (ir_enabled /\ ~overflow)
  /\ instr_off' = IF Interpreted(p) THEN instr_off
                  ELSE [q \in DOMAIN instr_off \cup {p} |->
                          IF q = p THEN off ELSE instr_off[q]]
  /\ tracked' = IF pass = 2 /\ ir_enabled' THEN tracked \cup {p} ELSE tracked
  /\ pc_table' = IF pass = 2 /\ ir_enabled' THEN pc_table
                 ELSE Programmed({p}, how, [q \in {p} |-> off])
  /\ IF insn[p].op = "romread" /\ RoomForCopy # {}
     THEN sector_free_offset' =
            [sector_free_offset EXCEPT ![Nearest(RoomForCopy)] = @ + CopySize]
     ELSE UNCHANGED sector_free_offset
  /\ stage' = IF Continues(p) THEN "loop" ELSE "end"
  /\ UNCHANGED <<prog, pass, cursor, entry_list, blocks, next_free_sector,
                 blockVars>>

(* No code came out: the allocation is given back. *)
UndoBlock ==
  /\ stage = "end" /\ code_index = 0
  /\ sector_free_offset' =
       [sector_free_offset EXCEPT ![flash_code_sector] = flash_code_address]
  /\ next_free_sector' = pre_alloc_next_free
  /\ cursor' = cursor + 1 /\ stage' = "between"
  /\ UNCHANGED <<prog, pass, entry_list, pc_table, blocks, blockVars,
                 loopVars>>

-----------------------------------------------------------------------------
(* Pass 1 *)

Unscanned == {p \in prog.known : p >= cursor /\ pc_table[p] = ErasedSlot}
NextEntries == {p \in Unscanned : \A q \in Unscanned : p <= q}

ScanNext ==
  /\ pass = 0 /\ stage = "between"
  /\ \E p \in NextEntries : Open(p, MaxBlock) /\ cursor' = p
  /\ UNCHANGED <<prog, pass, entry_list, pc_table, blocks, sa_block_exit_pc,
                 sa_block_alloc_size>>

MeasuredLen_CodeOnly == code_index
MeasuredLen == code_index + EpilogueSize

ListBlock ==
  /\ pass = 0 /\ stage = "end" /\ code_index > 0
  /\ entry_list' = Append(entry_list,
       [entry |-> entry_pc, exit |-> pc, len |-> MeasuredLen])
  /\ cursor' = cursor + 1 /\ stage' = "between"
  /\ UNCHANGED <<prog, pass, pc_table, blocks, allocVars, blockVars, loopVars>>

(* Between the passes: erase, reset the allocator, start on the list. *)
SurvivingTable_OfPass1 == pc_table
SurvivingTable == AllErased
ResetOffsets_Kept == sector_free_offset
ResetOffsets == [s \in Sector |-> 0]

StartPass2 ==
  /\ pass = 0 /\ stage = "between"
  /\ Unscanned = {} \/ RoomFor(MaxBlock) = {}
  /\ pass' = 2 /\ cursor' = 1
  /\ pc_table' = SurvivingTable
  /\ sector_free_offset' = ResetOffsets /\ next_free_sector' = 0
  /\ UNCHANGED <<prog, entry_list, blocks, stage, blockVars, loopVars>>

-----------------------------------------------------------------------------
(* Pass 2 *)

More == cursor <= Len(entry_list)
Listed == entry_list[cursor]

ReopenBlock ==
  /\ pass = 2 /\ stage = "between" /\ More
  /\ Open(Listed.entry, Listed.len)
  /\ sa_block_exit_pc' = Listed.exit
  /\ sa_block_alloc_size' = Listed.len
  /\ UNCHANGED <<prog, pass, cursor, entry_list, pc_table, blocks>>

(* Code, header and epilogue reach the flash, then the entry PC and every
   tracked instruction in front of the epilogue are published.            *)
WriteBlock ==
  /\ pass = 2 /\ stage = "end" /\ code_index > 0
  /\ blocks' = blocks \cup
       {[entry |-> entry_pc, exit |-> pc, sec |-> flash_code_sector,
         base |-> flash_code_address, at |-> instr_off,
         alloc |-> sa_block_alloc_size, len |-> code_index + EpilogueSize]}
  /\ pc_table' = Programmed(
       {entry_pc} \cup {p \in tracked \cap DOMAIN instr_off :
                          instr_off[p] < code_index},
       "compiled", instr_off)
  /\ cursor' = cursor + 1 /\ stage' = "between"
  /\ UNCHANGED <<prog, pass, entry_list, allocVars, blockVars, loopVars>>

Finish ==
  /\ pass = 2 /\ stage = "between"
  /\ More => RoomFor(Listed.len) = {}
  /\ pass' = 3
  /\ sa_block_exit_pc' = LastPc + 1 /\ sa_block_alloc_size' = 0
  /\ UNCHANGED <<prog, cursor, entry_list, pc_table, blocks, allocVars, stage,
                 entry_pc, flash_code_sector, flash_code_address,
                 pre_alloc_next_free, loopVars>>

Done == pass = 3 /\ UNCHANGED vars

Next ==
  \/ ScanNext \/ CompileInstruction \/ UndoBlock \/ ListBlock
  \/ StartPass2 \/ ReopenBlock \/ WriteBlock \/ Finish \/ Done

Spec == Init /\ [][Next]_vars

-----------------------------------------------------------------------------
(* Properties *)

(* Once pass 2 has begun, an address the tables call compiled leads to that
   very instruction inside a block pass 2 has written: nothing dispatch or a
   branch finds stems from pass 1, whose code is gone.                      *)
TablesCurrent ==
  pass # 0 /\ stage = "between" =>
    \A p \in Pc : Compiled(p) =>
      \E b \in blocks :
        /\ p \in DOMAIN b.at
        /\ pc_table[p].sec = b.sec
        /\ pc_table[p].addr = b.base + BlockHeaderSize + b.at[p]

(* Pass 2 keeps inside the block boundaries of pass 1, although its code has
   other lengths and lies in other banks: no guest instruction is translated
   into two blocks.                                                         *)
CompiledOnce ==
  \A b, c \in blocks : b # c => DOMAIN b.at \cap DOMAIN c.at = {}

(* What pass 1 found room for at maximal size, pass 2 finds room for at its
   measured size: the list is worked off to its end.                        *)
Pass2HasRoom == pass = 3 => cursor > Len(entry_list)

(* static_analysis.c:1668: "Pass 2 code_len <= pass 1 code_len (shorter
   branches), so the tight allocation always has sufficient space."         *)
TightFits == \A b \in blocks : b.len <= b.alloc

(* What a block outgrows its allocation by is due to its backward branches:
   one that pass 1 emits as 5 bytes may come out as a template of 19.       *)
BackwardIn(b) ==
  {p \in DOMAIN b.at : insn[p].op = "branch" /\ insn[p].target <= p}
OverrunBounded ==
  \A b \in blocks :
    b.len <= b.alloc + Cardinality(BackwardIn(b)) * (Template - Direct)
=============================================================================
