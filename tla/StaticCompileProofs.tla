------------------------- MODULE StaticCompileProofs -------------------------
(***************************************************************************)
(* Proofs about the two-pass static compile: what the PC tables call       *)
(* compiled once pass 2 has begun is in a block of pass 2, no guest        *)
(* instruction is translated into two blocks, what a block outgrows its    *)
(* allocation by is due to its backward branches, and without data copies  *)
(* pass 2 has room for the whole list; for every guest program, sector     *)
(* size and number of sectors.                                             *)
(***************************************************************************)
EXTENDS StaticCompile, FiniteSetTheorems, TLAPS

Erased(p) == pc_table[p] = ErasedSlot
Entry == [entry : Pc, exit : Nat, len : Nat]

TypeInv ==
  /\ prog \in Programs
  /\ pass \in {0, 2, 3} /\ stage \in {"between", "loop", "end"}
  /\ pass = 3 => stage = "between"
  /\ cursor \in Nat /\ (pass # 0 => cursor >= 1)
  /\ entry_list \in Seq(Entry)
  /\ entry_pc \in Pc /\ pc \in Nat /\ (stage = "loop" => pc \in Pc)
  /\ code_index \in Nat /\ DOMAIN instr_off \subseteq Pc

\* The compile loop walks forward from the entry of the block.
LoopInv ==
  /\ stage = "loop" =>
       /\ entry_pc <= pc /\ \A q \in DOMAIN instr_off : q < pc
       /\ (pc = entry_pc /\ code_index = 0) \/ entry_pc \in DOMAIN instr_off
       /\ ~ir_enabled => code_index > 0
  /\ stage = "end" => code_index = 0 \/ entry_pc \in DOMAIN instr_off

\* A compiled address leads into a block of pass 2, or into the one that is
\* being compiled with the IR given up.
InBlock(p) ==
  \E b \in blocks :
    /\ p \in DOMAIN b.at
    /\ pc_table[p].sec = b.sec
    /\ pc_table[p].addr = b.base + BlockHeaderSize + b.at[p]
InFlight(p) ==
  /\ stage # "between" /\ code_index > 0
  /\ p \in DOMAIN instr_off
  /\ pc_table[p].sec = flash_code_sector
  /\ pc_table[p].addr = flash_code_address + BlockHeaderSize + instr_off[p]
TablesInv == pass # 0 => \A p \in Pc : Compiled(p) => InBlock(p) \/ InFlight(p)

\* The instructions that pass 2 may translate for an entry of the list.
Span(code, e) ==
  {p \in Pc : /\ e.entry <= p
              /\ \A q \in Pc : e.entry <= q /\ q < p =>
                   code[q].op \notin {"jmp", "rts"} /\ q + 1 < e.exit}

\* Pass 1 lists entries in ascending order, each behind the spans before it:
\* it has programmed the slots of a span before it lists it.
ListInv ==
  /\ \A i, j \in 1..Len(entry_list) : i < j =>
       /\ entry_list[i].entry < entry_list[j].entry
       /\ entry_list[j].entry \notin Span(insn, entry_list[i])
  /\ pass = 0 /\ stage = "between" =>
       \A i \in 1..Len(entry_list) : entry_list[i].entry < cursor
  /\ pass = 0 /\ stage # "between" =>
       /\ cursor = entry_pc
       /\ \A i \in 1..Len(entry_list) :
            /\ entry_list[i].entry < entry_pc
            /\ entry_pc \notin Span(insn, entry_list[i])
SlotsInv ==
  pass = 0 =>
    /\ \A i \in 1..Len(entry_list) :
         \A q \in Span(insn, entry_list[i]) : ~Erased(q)
    /\ stage = "loop" =>
         \A q \in Pc : entry_pc <= q /\ q < pc => ~Erased(q)
    /\ stage = "end" =>
         \A q \in Span(insn, [entry |-> entry_pc, exit |-> pc]) : ~Erased(q)

\* Pass 2 keeps to the span of the entry it is at.
ReplayInv ==
  pass = 2 /\ stage # "between" =>
    /\ cursor <= Len(entry_list)
    /\ entry_pc = entry_list[cursor].entry
    /\ sa_block_exit_pc = entry_list[cursor].exit
    /\ DOMAIN instr_off \subseteq Span(insn, entry_list[cursor])
    /\ stage = "loop" => pc \in Span(insn, entry_list[cursor])
BlocksInv ==
  /\ pass = 0 => blocks = {}
  /\ \A b \in blocks : \E i \in 1..Len(entry_list) :
       /\ i < cursor /\ b.entry = entry_list[i].entry
       /\ DOMAIN b.at \subseteq Span(insn, entry_list[i])
  /\ \A b, c \in blocks : b.entry = c.entry => b = c

-----------------------------------------------------------------------------
(* One turn of the compile loop *)

(* recompile_opcode advances the write position, by nothing only for an     *)
(* instruction left to the interpreter or one that needs no code.           *)
LEMMA EmitLenNat ==
  ASSUME TypeInv, NEW p \in Pc PROVE EmitLen(p) \in Nat
<1>1. insn[p] \in [op : Ops, size : Nat, target : Pc]
  BY StaticAssumption DEF TypeInv, insn
<1>2. BranchLen(p, insn[p].target) \in Nat
  BY DEF BranchLen, DirectOr, OrInterpret, Template, Direct
<1>3. JmpLen(insn[p].target) \in Nat
  BY DEF JmpLen, OrInterpret
<1>4. \A n, room \in Nat : OrInterpret(n, room) \in Nat
  BY DEF OrInterpret
<1>5. insn[p].size + ExitRoom \in Nat
  BY <1>1 DEF ExitRoom
<1>6. CASE insn[p].op \in {"plain", "full"} BY <1>1, <1>6 DEF EmitLen
<1>7. CASE insn[p].op \in {"call", "dirty", "rts"} BY <1>1, <1>4, <1>5, <1>7 DEF EmitLen
<1>8. CASE insn[p].op = "branch" BY <1>2, <1>8 DEF EmitLen
<1>9. CASE insn[p].op = "jmp" BY <1>3, <1>9 DEF EmitLen
<1>10. CASE insn[p].op \in {"romread", "io"} BY <1>10 DEF EmitLen
<1> QED BY <1>1, <1>6, <1>7, <1>8, <1>9, <1>10 DEF Ops

(* What one turn of the loop (static_analysis.c:985-1112) does to the       *)
(* position in the guest and in the code.                                   *)
LEMMA LoopTurn ==
  ASSUME TypeInv, CompileInstruction
  PROVE  /\ stage = "loop" /\ pc \in Pc
         /\ code_index' \in Nat /\ code_index' >= code_index
         /\ ~Interpreted(pc) /\ insn[pc].op = "full" => code_index' > 0
         /\ pc' = NextPc(pc) /\ pc' \in Nat
         /\ stage' = IF Continues(pc) THEN "loop" ELSE "end"
         /\ Continues(pc) =>
              /\ ~Interpreted(pc) /\ insn[pc].op \notin {"jmp", "rts"}
              /\ NextPc(pc) = pc + 1 /\ pc + 1 \in Pc
              /\ ~PastListedExit(pc + 1)
         /\ instr_off' = IF Interpreted(pc) THEN instr_off
                         ELSE [q \in DOMAIN instr_off \cup {pc} |->
                                 IF q = pc THEN code_index ELSE instr_off[q]]
<1>1. stage = "loop" /\ pc \in Pc
  BY DEF CompileInstruction, TypeInv
<1>2. EmitLen(pc) \in Nat
  BY <1>1, EmitLenNat
<1>3. insn[pc] \in [op : Ops, size : Nat, target : Pc]
  BY <1>1, StaticAssumption DEF TypeInv, insn
<1>4. code_index' = code_index + EmitLen(pc)
  BY DEF CompileInstruction
<1>5. code_index' \in Nat /\ code_index' >= code_index
  BY <1>2, <1>4 DEF TypeInv
<1>6. ~Interpreted(pc) /\ insn[pc].op = "full" => code_index' > 0
  BY <1>2, <1>4 DEF TypeInv, Interpreted
<1>7. pc' = NextPc(pc) BY DEF CompileInstruction
<1>8. NextPc(pc) \in Nat BY <1>1, <1>3 DEF NextPc, Pc
<1>9. stage' = IF Continues(pc) THEN "loop" ELSE "end" BY DEF CompileInstruction
<1>10. Continues(pc) =>
         /\ ~Interpreted(pc) /\ insn[pc].op \notin {"jmp", "rts"}
         /\ NextPc(pc) = pc + 1 /\ pc + 1 \in Pc
         /\ ~PastListedExit(pc + 1)
  BY DEF Continues, NextPc
<1>11. instr_off' = IF Interpreted(pc) THEN instr_off
                    ELSE [q \in DOMAIN instr_off \cup {pc} |->
                            IF q = pc THEN code_index ELSE instr_off[q]]
  BY DEF CompileInstruction
<1> QED BY <1>1, <1>5, <1>6, <1>7, <1>8, <1>9, <1>10, <1>11

-----------------------------------------------------------------------------
(* Types *)

(* Where a block is opened (static_analysis.c:955-983).                     *)
OpenedAt(p) ==
  /\ p \in Pc /\ p \in Nat
  /\ stage' = "loop" /\ pc' = p /\ entry_pc' = p /\ code_index' = 0
  /\ DOMAIN instr_off' = {} /\ ir_enabled' = TRUE

(* Pass 1 opens a block at an address that it has not programmed yet.       *)
LEMMA ScanOpens ==
  ASSUME TypeInv, ScanNext
  PROVE  \E p \in Pc : OpenedAt(p) /\ cursor' = p /\ p >= cursor /\ Erased(p)
<1>1. PICK p \in NextEntries : Open(p, MaxBlock) /\ cursor' = p
  BY DEF ScanNext
<1>2. p \in Pc /\ p >= cursor /\ Erased(p)
  BY <1>1, StaticAssumption DEF NextEntries, Unscanned, Erased, TypeInv
<1>3. OpenedAt(p)
  BY <1>1, <1>2 DEF Open, OpenedAt, NoInstr, Pc
<1> QED BY <1>1, <1>2, <1>3

(* Pass 2 opens a block at the entry it is at in the list.                  *)
LEMMA ReplayOpens ==
  ASSUME TypeInv, ReopenBlock
  PROVE  OpenedAt(Listed.entry) /\ Listed \in Entry /\ cursor \in 1..Len(entry_list)
<1>1. cursor \in 1..Len(entry_list)
  BY DEF ReopenBlock, More, TypeInv
<1>2. Listed \in Entry
  BY <1>1 DEF Listed, TypeInv
<1>3. Listed.entry \in Pc
  BY <1>2 DEF Entry
<1> QED BY <1>1, <1>2, <1>3 DEF ReopenBlock, Open, OpenedAt, NoInstr, Pc

(* Before pass 1 the state is well typed (static_analysis.c:1673-1694).     *)
LEMMA InitTypes == Init => TypeInv
<1> SUFFICES ASSUME Init PROVE TypeInv OBVIOUS
<1>1. 0 \in Pc BY StaticAssumption DEF Pc
<1>2. entry_list \in Seq(Entry) BY DEF Init
<1> QED BY <1>1, <1>2 DEF Init, TypeInv, NoInstr

(* No step of the static compile leaves the types.                          *)
LEMMA StepTypes == TypeInv /\ [Next]_vars => TypeInv'
<1> SUFFICES ASSUME TypeInv, [Next]_vars PROVE TypeInv' OBVIOUS
<1>1. CASE ScanNext
  <2>1. PICK p \in Pc : OpenedAt(p) /\ cursor' = p
    BY <1>1, ScanOpens
  <2> QED BY <1>1, <2>1 DEF OpenedAt, ScanNext, TypeInv
<1>2. CASE CompileInstruction
  <2>1. DOMAIN instr_off' \subseteq Pc
    BY <1>2, LoopTurn DEF TypeInv
  <2>2. stage' = "loop" => pc' \in Pc
    BY <1>2, LoopTurn
  <2>3. stage' \in {"loop", "end"}
    BY <1>2, LoopTurn
  <2> QED BY <1>2, <2>1, <2>2, <2>3, LoopTurn DEF CompileInstruction, blockVars, TypeInv
<1>3. CASE UndoBlock
  BY <1>3 DEF UndoBlock, blockVars, loopVars, TypeInv
<1>4. CASE ListBlock
  <2>1. MeasuredLen \in Nat BY LayoutAssumption DEF MeasuredLen, TypeInv
  <2>2. entry_list' \in Seq(Entry)
    BY <1>4, <2>1 DEF ListBlock, Entry, TypeInv
  <2> QED BY <1>4, <2>2 DEF ListBlock, blockVars, loopVars, TypeInv
<1>5. CASE StartPass2
  BY <1>5 DEF StartPass2, blockVars, loopVars, TypeInv
<1>6. CASE ReopenBlock
  <2>1. PICK p \in Pc : OpenedAt(p)
    BY <1>6, ReplayOpens DEF OpenedAt
  <2> QED BY <1>6, <2>1 DEF OpenedAt, ReopenBlock, TypeInv
<1>7. CASE WriteBlock
  BY <1>7 DEF WriteBlock, blockVars, loopVars, TypeInv
<1>8. CASE Finish
  BY <1>8 DEF Finish, loopVars, TypeInv
<1>9. CASE UNCHANGED vars
  BY <1>9 DEF vars, blockVars, loopVars, TypeInv
<1> QED
  BY <1>1, <1>2, <1>3, <1>4, <1>5, <1>6, <1>7, <1>8, <1>9 DEF Next, Done

-----------------------------------------------------------------------------
(* The compile loop *)

(* A block whose IR is given up has code from then on: the instruction at   *)
(* which that happens is compiled (static_analysis.c:1074-1097).            *)
LEMMA GivenUpHasCode ==
  ASSUME TypeInv, LoopInv, CompileInstruction, ~ir_enabled', ~Interpreted(pc)
  PROVE  code_index' > 0
<1>1. CASE ~ir_enabled
  BY <1>1, LoopTurn DEF LoopInv, TypeInv
<1>2. CASE ir_enabled
  <2>1. insn[pc].op = "full" BY <1>2 DEF CompileInstruction
  <2> QED BY <2>1, LoopTurn
<1> QED BY <1>1, <1>2

(* The compile loop walks forward and keeps its entry among the             *)
(* instructions it has compiled (static_analysis.c:985-1112).               *)
LEMMA StepLoop == TypeInv /\ LoopInv /\ [Next]_vars => LoopInv'
<1> SUFFICES ASSUME TypeInv, LoopInv, [Next]_vars PROVE LoopInv' OBVIOUS
<1>1. CASE ScanNext
  <2>1. PICK p \in Pc : OpenedAt(p)
    BY <1>1, ScanOpens
  <2> QED BY <2>1 DEF OpenedAt, LoopInv
<1>2. CASE CompileInstruction
  <2>1. entry_pc' = entry_pc /\ entry_pc \in Nat /\ pc \in Nat
    BY <1>2 DEF CompileInstruction, blockVars, TypeInv, Pc
  <2>2. ASSUME stage' = "loop"
        PROVE /\ entry_pc' <= pc' /\ \A q \in DOMAIN instr_off' : q < pc'
              /\ entry_pc' \in DOMAIN instr_off'
    <3>1. Continues(pc) /\ ~Interpreted(pc) /\ pc' = pc + 1 BY <1>2, <2>2, LoopTurn
    <3>2. DOMAIN instr_off' = DOMAIN instr_off \cup {pc} BY <1>2, <3>1, LoopTurn
    <3>3. \A q \in DOMAIN instr_off : q \in Nat /\ q < pc
      BY <1>2, LoopTurn DEF LoopInv, TypeInv, Pc
    <3> QED BY <1>2, <2>1, <3>1, <3>2, <3>3, LoopTurn DEF LoopInv
  <2>3. ASSUME stage' = "loop", ~ir_enabled' PROVE code_index' > 0
    BY <1>2, <2>3, LoopTurn, GivenUpHasCode
  <2>4. ASSUME stage' = "end" PROVE code_index' = 0 \/ entry_pc' \in DOMAIN instr_off'
    <3>1. CASE Interpreted(pc)
      <4>1. code_index' = code_index BY <1>2, <3>1 DEF CompileInstruction, Interpreted, TypeInv
      <4>2. instr_off' = instr_off BY <1>2, <3>1, LoopTurn
      <4>3. CASE entry_pc \in DOMAIN instr_off BY <2>1, <4>2, <4>3
      <4>4. CASE entry_pc = pc /\ entry_pc \notin DOMAIN instr_off
        BY <1>2, <2>1, <4>1, <4>4, LoopTurn DEF LoopInv, TypeInv
      <4> QED BY <1>2, <4>3, <4>4, LoopTurn DEF LoopInv
    <3>2. CASE ~Interpreted(pc)
      <4>1. DOMAIN instr_off' = DOMAIN instr_off \cup {pc} BY <1>2, <3>2, LoopTurn
      <4> QED BY <1>2, <2>1, <4>1, LoopTurn DEF LoopInv
    <3> QED BY <3>1, <3>2
  <2> QED BY <2>2, <2>3, <2>4 DEF LoopInv
<1>3. CASE UndoBlock \/ ListBlock \/ WriteBlock
  BY <1>3 DEF UndoBlock, ListBlock, WriteBlock, LoopInv
<1>4. CASE StartPass2 \/ Finish
  BY <1>4 DEF StartPass2, Finish, LoopInv
<1>5. CASE ReopenBlock
  BY <1>5, ReplayOpens DEF OpenedAt, LoopInv
<1>6. CASE UNCHANGED vars
  BY <1>6 DEF vars, blockVars, loopVars, LoopInv
<1> QED BY <1>1, <1>2, <1>3, <1>4, <1>5, <1>6 DEF Next, Done

-----------------------------------------------------------------------------
(* The PC tables *)

(* One turn of the loop programs no slot but that of the instruction, and   *)
(* in pass 2 only once the IR is given up (static_analysis.c:1074-1110).    *)
LEMMA SlotsOfTurn ==
  ASSUME CompileInstruction, NEW q \in Pc, pc_table'[q] # pc_table[q]
  PROVE  /\ q = pc /\ (pass # 2 \/ ~ir_enabled')
         /\ pc_table'[q] = Slot(IF Interpreted(pc) THEN "interpreted"
                                ELSE "compiled", code_index)
  BY DEF CompileInstruction, Programmed

(* A slot is programmed for code that is in flash or will be before the     *)
(* next block begins (static_analysis.c:1037-1110, 1286-1370).              *)
LEMMA StepTables == TypeInv /\ LoopInv /\ TablesInv /\ [Next]_vars => TablesInv'
<1> SUFFICES ASSUME TypeInv, LoopInv, TablesInv, [Next]_vars PROVE TablesInv'
  OBVIOUS
<1>1. CASE ScanNext \/ ListBlock
  BY <1>1 DEF ScanNext, ListBlock, TablesInv
<1>2. CASE CompileInstruction
  <2> SUFFICES ASSUME pass = 2, NEW q \in Pc, Compiled(q)'
               PROVE  InBlock(q)' \/ InFlight(q)'
    BY <1>2, LoopTurn DEF CompileInstruction, TypeInv, TablesInv
  <2>1. /\ stage = "loop" /\ stage' # "between" /\ blocks' = blocks
        /\ flash_code_sector' = flash_code_sector
        /\ flash_code_address' = flash_code_address
    BY <1>2, LoopTurn DEF CompileInstruction, blockVars
  <2>2. CASE pc_table'[q] = pc_table[q]
    <3>1. Compiled(q) BY <2>2 DEF Compiled
    <3>2. CASE InBlock(q)
      BY <2>1, <2>2, <3>2 DEF InBlock
    <3>3. CASE InFlight(q)
      <4>1. q # pc BY <1>2, <3>3, <2>1, LoopTurn DEF InFlight, LoopInv, TypeInv, Pc
      <4>2. q \in DOMAIN instr_off' /\ instr_off'[q] = instr_off[q]
        BY <1>2, <3>3, <4>1, LoopTurn DEF InFlight
      <4>3. code_index' > 0 BY <1>2, <3>3, LoopTurn DEF InFlight, TypeInv
      <4> QED BY <2>1, <2>2, <3>3, <4>2, <4>3 DEF InFlight
    <3> QED BY <3>1, <3>2, <3>3 DEF TablesInv
  <2>3. CASE pc_table'[q] # pc_table[q]
    <3>1. /\ q = pc /\ ~ir_enabled'
          /\ pc_table'[q] = Slot(IF Interpreted(pc) THEN "interpreted"
                                 ELSE "compiled", code_index)
      BY <1>2, <2>3, SlotsOfTurn
    <3>2. ~Interpreted(pc) BY <3>1 DEF Compiled, Slot
    <3>3. code_index' > 0 BY <1>2, <3>1, <3>2, GivenUpHasCode
    <3>4. pc \in DOMAIN instr_off' /\ instr_off'[pc] = code_index
      BY <1>2, <3>2, LoopTurn
    <3> QED BY <2>1, <3>1, <3>2, <3>3, <3>4 DEF InFlight, Slot
  <2> QED BY <2>2, <2>3
<1>3. CASE UndoBlock
  <2> SUFFICES ASSUME pass # 0, NEW q \in Pc, Compiled(q)' PROVE InBlock(q)'
    BY <1>3 DEF UndoBlock, TablesInv
  <2>1. ~InFlight(q) BY <1>3 DEF UndoBlock, InFlight
  <2> QED BY <1>3, <2>1 DEF UndoBlock, TablesInv, Compiled, InBlock
<1>4. CASE StartPass2
  BY <1>4 DEF StartPass2, SurvivingTable, AllErased, ErasedSlot, TablesInv, Compiled
<1>5. CASE ReopenBlock
  BY <1>5 DEF ReopenBlock, TablesInv, Compiled, InBlock, InFlight
<1>6. CASE WriteBlock
  <2> SUFFICES ASSUME NEW q \in Pc, Compiled(q)' PROVE InBlock(q)'
    BY DEF TablesInv
  <2> DEFINE b == [entry |-> entry_pc, exit |-> pc, sec |-> flash_code_sector,
                   base |-> flash_code_address, at |-> instr_off,
                   alloc |-> sa_block_alloc_size,
                   len |-> code_index + EpilogueSize]
             S == {entry_pc} \cup {p \in tracked \cap DOMAIN instr_off :
                                     instr_off[p] < code_index}
  <2>1. blocks' = blocks \cup {b} /\ pc_table' = Programmed(S, "compiled", instr_off)
    BY <1>6 DEF WriteBlock
  <2>2. S \subseteq DOMAIN instr_off
    BY <1>6 DEF WriteBlock, LoopInv, TypeInv
  <2>3. CASE q \in S /\ pc_table[q] = ErasedSlot
    <3>1. pc_table'[q] = Slot("compiled", instr_off[q])
      BY <2>1, <2>3 DEF Programmed
    <3>2. pc_table'[q].sec = b.sec /\ pc_table'[q].addr = b.base + BlockHeaderSize + b.at[q]
      BY <3>1 DEF Slot
    <3>3. q \in DOMAIN b.at BY <2>2, <2>3
    <3> QED BY <2>1, <3>2, <3>3 DEF InBlock
  <2>4. CASE ~(q \in S /\ pc_table[q] = ErasedSlot)
    <3>1. pc_table'[q] = pc_table[q] BY <2>1, <2>4 DEF Programmed
    <3>2. Compiled(q) BY <3>1 DEF Compiled
    <3>3. CASE InBlock(q) BY <2>1, <3>1, <3>3 DEF InBlock
    <3>4. CASE InFlight(q)
      <4>1. /\ q \in DOMAIN b.at /\ pc_table'[q].sec = b.sec
            /\ pc_table'[q].addr = b.base + BlockHeaderSize + b.at[q]
        BY <3>1, <3>4 DEF InFlight
      <4> QED BY <2>1, <4>1 DEF InBlock
    <3> QED BY <1>6, <3>2, <3>3, <3>4 DEF WriteBlock, TablesInv
  <2> QED BY <2>3, <2>4
<1>7. CASE Finish
  BY <1>7 DEF Finish, loopVars, TablesInv, Compiled, InBlock, InFlight
<1>8. CASE UNCHANGED vars
  BY <1>8 DEF vars, blockVars, loopVars, TablesInv, Compiled, InBlock, InFlight
<1> QED
  BY <1>1, <1>2, <1>3, <1>4, <1>5, <1>6, <1>7, <1>8 DEF Next, Done

(* For every guest program and every flash geometry: once pass 2 has begun, *)
(* an address that the PC tables call compiled leads to that instruction in *)
(* a block written by pass 2 (static_analysis.c:1783-1829, 1286-1370).      *)
THEOREM TablesLeadToPass2 == Spec => []TablesCurrent
<1> DEFINE Inv == TypeInv /\ LoopInv /\ TablesInv
<1>1. Init => Inv
  BY InitTypes DEF Init, LoopInv, TablesInv
<1>2. Inv /\ [Next]_vars => Inv'
  BY StepTypes, StepLoop, StepTables
<1>3. Inv => TablesCurrent
  BY DEF TablesInv, TablesCurrent, InBlock, InFlight
<1> QED BY <1>1, <1>2, <1>3, PTL DEF Spec

-----------------------------------------------------------------------------
(* The list *)

(* A span is an interval that begins at its entry.                          *)
LEMMA SpanInterval ==
  ASSUME NEW code, NEW e, e.entry \in Pc,
         NEW p \in Span(code, e), NEW r \in Pc, e.entry <= r, r <= p
  PROVE  r \in Span(code, e)
  BY DEF Span, Pc

(* The entry of a block belongs to its span.                                *)
LEMMA SpanBeginsAtEntry ==
  ASSUME NEW code, NEW e, e.entry \in Pc PROVE e.entry \in Span(code, e)
  BY DEF Span, Pc

(* The entries of the list are guest addresses.                            *)
LEMMA EntryTypes ==
  ASSUME TypeInv
  PROVE  \A i \in 1..Len(entry_list) :
           /\ entry_list[i] \in Entry
           /\ entry_list[i].entry \in Pc /\ entry_list[i].entry \in Nat
<1> SUFFICES ASSUME NEW i \in 1..Len(entry_list)
             PROVE  /\ entry_list[i] \in Entry
                    /\ entry_list[i].entry \in Pc /\ entry_list[i].entry \in Nat
  OBVIOUS
<1>1. entry_list[i] \in Entry BY DEF TypeInv
<1> QED BY <1>1 DEF Entry, Pc

(* The guest program never changes.                                         *)
LEMMA SameProgram == [Next]_vars => insn' = insn
  BY DEF Next, ScanNext, CompileInstruction, UndoBlock, ListBlock, StartPass2,
         ReopenBlock, WriteBlock, Finish, Done, vars, insn

(* Pass 1 lists its blocks in ascending order, each behind the spans of     *)
(* those before it (static_analysis.c:1698-1772).                           *)
LEMMA StepList == TypeInv /\ ListInv /\ SlotsInv /\ [Next]_vars => ListInv'
<1> SUFFICES ASSUME TypeInv, ListInv, SlotsInv, [Next]_vars PROVE ListInv'
  OBVIOUS
<1>0. insn' = insn BY SameProgram
<1>1. CASE ScanNext
  <2>1. PICK p \in Pc : OpenedAt(p) /\ cursor' = p /\ p >= cursor /\ Erased(p)
    BY <1>1, ScanOpens
  <2>2. \A i \in 1..Len(entry_list) : entry_list[i].entry \in Nat
    BY EntryTypes
  <2>3. \A i \in 1..Len(entry_list) :
          entry_list[i].entry < p /\ p \notin Span(insn, entry_list[i])
    BY <1>1, <2>1, <2>2 DEF ScanNext, ListInv, SlotsInv, TypeInv, Pc
  <2> QED BY <1>0, <1>1, <2>1, <2>3 DEF ScanNext, OpenedAt, ListInv
<1>2. CASE CompileInstruction
  BY <1>0, <1>2, LoopTurn DEF CompileInstruction, blockVars, ListInv
<1>3. CASE UndoBlock
  <2>1. \A i \in 1..Len(entry_list) : entry_list[i].entry \in Nat
    BY EntryTypes
  <2> QED BY <1>0, <1>3, <2>1 DEF UndoBlock, blockVars, ListInv, TypeInv, Pc
<1>4. CASE ListBlock
  <2> DEFINE e == [entry |-> entry_pc, exit |-> pc, len |-> MeasuredLen]
             n == Len(entry_list)
  <2>1. e \in Entry
    BY LayoutAssumption DEF TypeInv, Entry, MeasuredLen
  <2>2. entry_list' = Append(entry_list, e) /\ n \in Nat
    BY <1>4 DEF ListBlock, TypeInv
  <2>3. /\ Len(entry_list') = n + 1 /\ entry_list'[n + 1] = e
        /\ \A i \in 1..n : entry_list'[i] = entry_list[i]
    BY <2>1, <2>2 DEF TypeInv
  <2>4. \A i \in 1..n : /\ entry_list[i].entry < entry_pc
                        /\ entry_pc \notin Span(insn, entry_list[i])
    BY <1>4 DEF ListBlock, ListInv
  <2>5. ASSUME NEW i \in 1..(n + 1), NEW j \in 1..(n + 1), i < j
        PROVE /\ entry_list'[i].entry < entry_list'[j].entry
              /\ entry_list'[j].entry \notin Span(insn, entry_list'[i])
    <3>1. i \in 1..n BY <2>2, <2>5
    <3>2. CASE j \in 1..n BY <2>3, <2>5, <3>1, <3>2 DEF ListInv
    <3>3. CASE j = n + 1 BY <2>3, <2>4, <3>1, <3>3
    <3> QED BY <2>2, <3>2, <3>3
  <2>6. \A i \in 1..(n + 1) : entry_list'[i].entry < cursor'
    <3>1. cursor' = entry_pc + 1 /\ entry_pc \in Nat
      BY <1>4 DEF ListBlock, ListInv, TypeInv, Pc
    <3>2. \A i \in 1..n : entry_list[i].entry \in Nat
      BY EntryTypes
    <3> QED BY <2>2, <2>3, <2>4, <3>1, <3>2
  <2> QED BY <1>0, <1>4, <2>3, <2>5, <2>6 DEF ListBlock, ListInv
<1>5. CASE StartPass2 \/ ReopenBlock \/ WriteBlock \/ Finish
  BY <1>0, <1>5 DEF StartPass2, ReopenBlock, WriteBlock, Finish, ListInv
<1>6. CASE UNCHANGED vars
  BY <1>0, <1>6 DEF vars, blockVars, loopVars, ListInv
<1> QED BY <1>1, <1>2, <1>3, <1>4, <1>5, <1>6 DEF Next, Done

(* When a block of pass 1 ends, every slot of its span is programmed: the   *)
(* block ends in front of its exit, or with the jump that led there.        *)
LEMMA SpanProgrammed ==
  ASSUME TypeInv, LoopInv, CompileInstruction, stage' = "end", pass = 0,
         \A q \in Pc : entry_pc <= q /\ q < pc => ~Erased(q),
         NEW q \in Span(insn, [entry |-> entry_pc, exit |-> pc'])
  PROVE  ~Erased(q)'
<1>1. /\ pc \in Pc /\ pc \in Nat /\ entry_pc \in Nat /\ entry_pc <= pc
      /\ q \in Pc /\ q \in Nat /\ entry_pc <= q
  BY LoopTurn DEF LoopInv, TypeInv, Span, Pc
<1>2. pc_table'[pc] # ErasedSlot
  BY <1>1 DEF CompileInstruction, Programmed, Slot, ErasedSlot
<1>3. \A r \in Pc : ~Erased(r) => pc_table'[r] # ErasedSlot
  BY DEF CompileInstruction, Programmed, Erased
<1>4. q <= pc
  <2> SUFFICES ASSUME q > pc PROVE FALSE BY <1>1
  <2>1. insn[pc].op \notin {"jmp", "rts"} /\ pc + 1 < pc'
    BY <1>1 DEF Span
  <2>2. pc' \in {pc, pc + 1}
    BY <2>1, LoopTurn DEF NextPc
  <2> QED BY <1>1, <2>1, <2>2
<1> QED BY <1>1, <1>2, <1>3, <1>4 DEF Erased

(* What pass 1 has listed it has programmed in the PC tables, and skips     *)
(* from then on (static_analysis.c:1707-1717).                              *)
LEMMA StepSlots ==
  TypeInv /\ LoopInv /\ ListInv /\ SlotsInv /\ [Next]_vars => SlotsInv'
<1> SUFFICES ASSUME TypeInv, LoopInv, ListInv, SlotsInv, [Next]_vars
             PROVE  SlotsInv'
  OBVIOUS
<1>0. insn' = insn BY SameProgram
<1>1. CASE ScanNext
  <2>1. PICK p \in Pc : OpenedAt(p) BY <1>1, ScanOpens
  <2>2. \A q \in Pc : ~(entry_pc' <= q /\ q < pc')
    BY <2>1 DEF OpenedAt, Pc
  <2> QED BY <1>0, <1>1, <2>1, <2>2 DEF ScanNext, OpenedAt, SlotsInv, Erased
<1>2. CASE CompileInstruction
  <2> SUFFICES ASSUME pass = 0 PROVE SlotsInv'
    BY <1>2 DEF CompileInstruction, SlotsInv
  <2>1. \A q \in Pc : ~Erased(q) => ~Erased(q)'
    BY <1>2 DEF CompileInstruction, Programmed, Erased
  <2>2. \A q \in Pc : entry_pc <= q /\ q < pc => ~Erased(q)
    BY <1>2, LoopTurn DEF SlotsInv
  <2>3. entry_list' = entry_list /\ entry_pc' = entry_pc
    BY <1>2 DEF CompileInstruction, blockVars
  <2>4. \A i \in 1..Len(entry_list) :
          \A q \in Span(insn, entry_list[i]) : ~Erased(q)'
    BY <2>1 DEF SlotsInv, Span
  <2>5. ASSUME stage' = "loop", NEW q \in Pc, entry_pc <= q, q < pc'
        PROVE  ~Erased(q)'
    <3>1. pc' = pc + 1 /\ pc \in Pc BY <1>2, <2>5, LoopTurn
    <3>2. CASE q = pc
      BY <1>2, <3>2 DEF CompileInstruction, Programmed, Slot, ErasedSlot, Erased
    <3>3. CASE q # pc BY <2>1, <2>2, <2>5, <3>1, <3>3 DEF Pc
    <3> QED BY <3>2, <3>3
  <2>6. ASSUME stage' = "end",
               NEW q \in Span(insn, [entry |-> entry_pc, exit |-> pc'])
        PROVE  ~Erased(q)'
    BY <1>2, <2>2, <2>6, SpanProgrammed
  <2> QED BY <1>0, <2>3, <2>4, <2>5, <2>6 DEF SlotsInv
<1>3. CASE UndoBlock
  BY <1>0, <1>3 DEF UndoBlock, SlotsInv, Erased
<1>4. CASE ListBlock
  <2> DEFINE e == [entry |-> entry_pc, exit |-> pc, len |-> MeasuredLen]
             n == Len(entry_list)
  <2>1. entry_list' = Append(entry_list, e) /\ n \in Nat /\ pc_table' = pc_table
    BY <1>4 DEF ListBlock, TypeInv
  <2>2. e \in Entry
    BY LayoutAssumption DEF TypeInv, Entry, MeasuredLen
  <2>3. /\ Len(entry_list') = n + 1 /\ entry_list'[n + 1] = e
        /\ \A i \in 1..n : entry_list'[i] = entry_list[i]
    BY <2>1, <2>2 DEF TypeInv
  <2>4. Span(insn, e) = Span(insn, [entry |-> entry_pc, exit |-> pc])
    BY DEF Span
  <2>5. \A q \in Span(insn, e) : ~Erased(q)
    BY <1>4, <2>4 DEF ListBlock, SlotsInv
  <2>6. ASSUME NEW i \in 1..(n + 1), NEW q \in Span(insn, entry_list'[i])
        PROVE  ~Erased(q)'
    <3>1. CASE i \in 1..n
      BY <1>4, <2>1, <2>3, <2>6, <3>1 DEF ListBlock, SlotsInv, Erased
    <3>2. CASE i = n + 1
      BY <2>1, <2>3, <2>5, <2>6, <3>2 DEF Erased
    <3> QED BY <2>1, <3>1, <3>2
  <2> QED BY <1>0, <1>4, <2>3, <2>6 DEF ListBlock, SlotsInv
<1>5. CASE StartPass2 \/ ReopenBlock \/ WriteBlock \/ Finish
  BY <1>5 DEF StartPass2, ReopenBlock, WriteBlock, Finish, SlotsInv
<1>6. CASE UNCHANGED vars
  BY <1>0, <1>6 DEF vars, blockVars, loopVars, SlotsInv, Erased
<1> QED BY <1>1, <1>2, <1>3, <1>4, <1>5, <1>6 DEF Next, Done

-----------------------------------------------------------------------------
(* Pass 2 *)

(* The compile loop of pass 2 stays in the span of its entry: it stops at    *)
(* the exit listed by pass 1 or earlier (static_analysis.c:1066-1072).      *)
LEMMA StepReplay == TypeInv /\ LoopInv /\ ReplayInv /\ [Next]_vars => ReplayInv'
<1> SUFFICES ASSUME TypeInv, LoopInv, ReplayInv, [Next]_vars PROVE ReplayInv'
  OBVIOUS
<1>0. insn' = insn BY SameProgram
<1>1. CASE ScanNext \/ ListBlock
  BY <1>1 DEF ScanNext, ListBlock, ReplayInv
<1>2. CASE CompileInstruction
  <2> DEFINE e == entry_list[cursor]
  <2> SUFFICES ASSUME pass = 2 PROVE ReplayInv'
    BY <1>2 DEF CompileInstruction, ReplayInv
  <2>1. /\ cursor <= Len(entry_list) /\ entry_pc = e.entry
        /\ sa_block_exit_pc = e.exit
        /\ DOMAIN instr_off \subseteq Span(insn, e) /\ pc \in Span(insn, e)
    BY <1>2, LoopTurn DEF ReplayInv
  <2>2. /\ cursor' = cursor /\ entry_list' = entry_list /\ entry_pc' = entry_pc
        /\ sa_block_exit_pc' = sa_block_exit_pc
    BY <1>2 DEF CompileInstruction, blockVars
  <2>3. DOMAIN instr_off' \subseteq Span(insn, e)
    BY <1>2, <2>1, LoopTurn
  <2>4. ASSUME stage' = "loop" PROVE pc' \in Span(insn, e)
    <3>1. /\ pc' = pc + 1 /\ pc \in Pc /\ pc + 1 \in Pc
          /\ insn[pc].op \notin {"jmp", "rts"} /\ ~PastListedExit(pc + 1)
      BY <1>2, <2>4, LoopTurn
    <3>2. e \in Entry /\ e.entry \in Nat
      BY <2>1, EntryTypes DEF TypeInv
    <3>3. pc + 1 < e.exit
      BY <2>1, <3>1, <3>2 DEF PastListedExit, Entry, Pc
    <3>4. \A q \in Pc : q < pc + 1 => q < pc \/ q = pc
      BY <3>1 DEF Pc
    <3>5. e.entry <= pc + 1 BY <2>1, <3>1, <3>2 DEF Span, Pc
    <3> QED BY <2>1, <3>1, <3>3, <3>4, <3>5 DEF Span
  <2> QED BY <1>0, <2>1, <2>2, <2>3, <2>4 DEF ReplayInv
<1>3. CASE UndoBlock \/ StartPass2 \/ WriteBlock \/ Finish
  BY <1>3 DEF UndoBlock, StartPass2, WriteBlock, Finish, ReplayInv, TypeInv
<1>4. CASE ReopenBlock
  <2>1. OpenedAt(Listed.entry) /\ Listed \in Entry /\ cursor \in 1..Len(entry_list)
    BY <1>4, ReplayOpens
  <2>2. Listed.entry \in Span(insn, Listed)
    BY <2>1, SpanBeginsAtEntry DEF OpenedAt
  <2>3. /\ pc' = Listed.entry /\ entry_pc' = Listed.entry
        /\ DOMAIN instr_off' = {} /\ cursor <= Len(entry_list)
    BY <2>1 DEF OpenedAt
  <2> QED BY <1>0, <1>4, <2>2, <2>3 DEF ReopenBlock, Listed, ReplayInv
<1>5. CASE UNCHANGED vars
  BY <1>0, <1>5 DEF vars, blockVars, loopVars, ReplayInv
<1> QED BY <1>1, <1>2, <1>3, <1>4, <1>5 DEF Next, Done

(* Each entry of the list becomes at most one block of pass 2               *)
(* (static_analysis.c:1873-1956).                                           *)
LEMMA StepBlocks ==
  TypeInv /\ ListInv /\ ReplayInv /\ BlocksInv /\ [Next]_vars => BlocksInv'
<1> SUFFICES ASSUME TypeInv, ListInv, ReplayInv, BlocksInv, [Next]_vars
             PROVE  BlocksInv'
  OBVIOUS
<1>0. insn' = insn BY SameProgram
<1>1. CASE pass = 0 /\ blocks' = blocks
  BY <1>1 DEF BlocksInv
<1>2. CASE WriteBlock
  <2> DEFINE b == [entry |-> entry_pc, exit |-> pc, sec |-> flash_code_sector,
                   base |-> flash_code_address, at |-> instr_off,
                   alloc |-> sa_block_alloc_size,
                   len |-> code_index + EpilogueSize]
  <2>1. /\ blocks' = blocks \cup {b} /\ entry_list' = entry_list
        /\ cursor' = cursor + 1 /\ pass' = 2 /\ pass = 2 /\ stage = "end"
    BY <1>2 DEF WriteBlock
  <2>2. /\ cursor \in 1..Len(entry_list) /\ b.entry = entry_list[cursor].entry
        /\ DOMAIN b.at \subseteq Span(insn, entry_list[cursor])
    BY <2>1 DEF ReplayInv, TypeInv
  <2>3. ASSUME NEW c \in blocks'
        PROVE  \E i \in 1..Len(entry_list) :
                 /\ i < cursor + 1 /\ c.entry = entry_list[i].entry
                 /\ DOMAIN c.at \subseteq Span(insn, entry_list[i])
    <3>1. CASE c = b BY <2>2, <3>1
    <3>2. CASE c \in blocks
      <4>1. PICK i \in 1..Len(entry_list) :
                 /\ i < cursor /\ c.entry = entry_list[i].entry
                 /\ DOMAIN c.at \subseteq Span(insn, entry_list[i])
        BY <3>2 DEF BlocksInv
      <4> QED BY <2>2, <4>1
    <3> QED BY <2>1, <3>1, <3>2
  <2>4. ASSUME NEW c \in blocks PROVE c.entry # b.entry
    <3>1. PICK i \in 1..Len(entry_list) : i < cursor /\ c.entry = entry_list[i].entry
      BY DEF BlocksInv
    <3>2. entry_list[i].entry < entry_list[cursor].entry
      BY <2>2, <3>1 DEF ListInv
    <3> QED BY <2>2, <3>1, <3>2, EntryTypes
  <2>5. \A c, d \in blocks' : c.entry = d.entry => c = d
    BY <2>1, <2>4 DEF BlocksInv
  <2> QED BY <1>0, <2>1, <2>3, <2>5 DEF BlocksInv
<1>3. CASE blocks' = blocks /\ entry_list' = entry_list /\ cursor' \in Nat
           /\ cursor' >= cursor /\ pass' # 0
  <2>1. ASSUME NEW c \in blocks
        PROVE  \E i \in 1..Len(entry_list) :
                 /\ i < cursor' /\ c.entry = entry_list[i].entry
                 /\ DOMAIN c.at \subseteq Span(insn, entry_list[i])
    <3>1. PICK i \in 1..Len(entry_list) :
                 /\ i < cursor /\ c.entry = entry_list[i].entry
                 /\ DOMAIN c.at \subseteq Span(insn, entry_list[i])
      BY DEF BlocksInv
    <3> QED BY <1>3, <3>1 DEF TypeInv
  <2> QED BY <1>0, <1>3, <2>1 DEF BlocksInv
<1>4. CASE ScanNext \/ ListBlock \/ StartPass2
  BY <1>1, <1>4 DEF ScanNext, ListBlock, StartPass2
<1>5. CASE CompileInstruction \/ UndoBlock \/ ReopenBlock \/ Finish \/ UNCHANGED vars
  <2>1. (blocks' = blocks /\ entry_list' = entry_list /\ pass = 0) \/ pass' # 0
    BY <1>5 DEF CompileInstruction, UndoBlock, ReopenBlock, Finish, vars
  <2>2. blocks' = blocks /\ entry_list' = entry_list /\ cursor' \in Nat /\ cursor' >= cursor
    BY <1>5 DEF CompileInstruction, UndoBlock, ReopenBlock, Finish, vars, TypeInv
  <2> QED BY <1>1, <1>3, <2>1, <2>2
<1> QED BY <1>2, <1>4, <1>5 DEF Next, Done

(* For every guest program: no instruction is in two blocks of pass 2,      *)
(* although its code has other lengths than that of pass 1, lies elsewhere  *)
(* and may end earlier (static_analysis.c:1066-1072, 1873-1943).            *)
THEOREM CompiledOnceAlways == Spec => []CompiledOnce
<1> DEFINE Inv == /\ TypeInv /\ LoopInv /\ ListInv /\ SlotsInv
                  /\ ReplayInv /\ BlocksInv
<1>1. Init => Inv
  BY InitTypes DEF Init, LoopInv, ListInv, SlotsInv, ReplayInv, BlocksInv
<1>2. Inv /\ [Next]_vars => Inv'
  BY StepTypes, StepLoop, StepList, StepSlots, StepReplay, StepBlocks
<1>3. Inv => CompiledOnce
  <2> SUFFICES ASSUME Inv, NEW b \in blocks, NEW c \in blocks, b # c,
                      NEW p \in DOMAIN b.at, p \in DOMAIN c.at
               PROVE  FALSE
    BY DEF CompiledOnce
  <2>1. PICK i \in 1..Len(entry_list) : /\ b.entry = entry_list[i].entry
                                        /\ p \in Span(insn, entry_list[i])
    BY DEF BlocksInv
  <2>2. PICK j \in 1..Len(entry_list) : /\ c.entry = entry_list[j].entry
                                        /\ p \in Span(insn, entry_list[j])
    BY DEF BlocksInv
  <2>3. i # j BY <2>1, <2>2 DEF BlocksInv
  <2>4. \A k, l \in 1..Len(entry_list) :
          k < l /\ p \in Span(insn, entry_list[k])
            => p \notin Span(insn, entry_list[l])
    <3> SUFFICES ASSUME NEW k \in 1..Len(entry_list), NEW l \in 1..Len(entry_list),
                        k < l, p \in Span(insn, entry_list[k]),
                        p \in Span(insn, entry_list[l])
                 PROVE  FALSE
      OBVIOUS
    <3>1. /\ entry_list[k].entry \in Pc /\ entry_list[l].entry \in Pc
          /\ entry_list[k].entry <= entry_list[l].entry
          /\ entry_list[l].entry \notin Span(insn, entry_list[k])
      BY EntryTypes DEF ListInv
    <3>2. entry_list[l].entry <= p BY DEF Span
    <3> QED BY <3>1, <3>2, SpanInterval
  <2> QED BY <2>1, <2>2, <2>3, <2>4
<1> QED BY <1>1, <1>2, <1>3, PTL DEF Spec

-----------------------------------------------------------------------------
(* How far a block of pass 2 outgrows its allocation.                       *)
(*                                                                         *)
(* OverrunBounded compares two compilations of the same instructions that   *)
(* lie far apart.  Pass 1 leaves behind, for every block it lists, offsets  *)
(* with a minimal distance (Measured); pass 2 exceeds that distance at      *)
(* backward branches only, by the difference of the two forms they have.    *)

Backward(code, q) == code[q].op = "branch" /\ code[q].target <= q
Least(code, q) ==
  CASE code[q].op \in {"plain", "full", "call", "dirty", "rts"} -> code[q].size
    [] code[q].op = "branch"  -> IF code[q].target > q THEN Template ELSE Direct
    [] code[q].op = "jmp"     -> 17
    [] code[q].op = "romread" -> 3
    [] code[q].op = "io"      -> 0

(* The offsets w that pass 1 gave the instructions of entry e of the list.  *)
Measured(code, e, w) ==
  /\ Span(code, e) \subseteq DOMAIN w
  /\ w[e.entry] = 0
  /\ \A q \in DOMAIN w :
       /\ w[q] \in Nat
       /\ w[q] + Least(code, q) + EpilogueSize <= e.len
       /\ q + 1 \in DOMAIN w => w[q] + Least(code, q) <= w[q + 1]
ListedInv ==
  \A i \in 1..Len(entry_list) : \E w : Measured(insn, entry_list[i], w)

(* Pass 1 walks up the guest: behind an address that is not programmed yet  *)
(* nothing is.                                                              *)
AheadInv ==
  pass = 0 =>
    /\ \A q, r \in Pc : cursor <= r /\ r <= q /\ Erased(r) => Erased(q)
    /\ stage = "loop" => Erased(pc)

(* The distances in the block that pass 1 is at. *)
PaceInv ==
  pass = 0 /\ stage # "between" =>
    /\ stage = "loop" =>
         \A q \in Pc : entry_pc <= q /\ q < pc => q \in DOMAIN instr_off
    /\ stage = "end" /\ code_index > 0 =>
         Span(insn, [entry |-> entry_pc, exit |-> pc]) \subseteq DOMAIN instr_off
    /\ entry_pc \in DOMAIN instr_off => instr_off[entry_pc] = 0
    /\ \A q \in DOMAIN instr_off :
         /\ instr_off[q] \in Nat
         /\ instr_off[q] + Least(insn, q) <= code_index
         /\ q + 1 \in DOMAIN instr_off =>
              instr_off[q] + Least(insn, q) <= instr_off[q + 1]

(* The block that pass 2 is at, against the distances of pass 1. *)
BackwardAt(code, S) == {q \in S : Backward(code, q)}
Excess == Cardinality(BackwardAt(insn, DOMAIN instr_off)) * (Template - Direct)
TightInv ==
  pass = 2 /\ stage # "between" =>
    /\ sa_block_alloc_size = entry_list[cursor].len
    /\ \A w : Measured(insn, entry_list[cursor], w) =>
         /\ stage = "loop" => code_index <= w[pc] + Excess
         /\ stage = "end" =>
              code_index + EpilogueSize <= entry_list[cursor].len + Excess

LEMMA InsnType ==
  ASSUME TypeInv, NEW p \in Pc
  PROVE  insn[p] \in [op : Ops, size : Nat, target : Pc]
  BY StaticAssumption DEF TypeInv, insn

LEMMA LeastNat ==
  ASSUME TypeInv, NEW p \in Pc PROVE Least(insn, p) \in Nat
<1>1. insn[p].op \in Ops /\ insn[p].size \in Nat BY InsnType
<1>2. CASE insn[p].op \in {"plain", "full", "call", "dirty", "rts"} BY <1>1, <1>2 DEF Least
<1>3. CASE insn[p].op = "branch" BY <1>3 DEF Least, Template, Direct
<1>4. CASE insn[p].op \in {"jmp", "romread", "io"} BY <1>4 DEF Least
<1> QED BY <1>1, <1>2, <1>3, <1>4 DEF Ops

LEMMA BackwardFinite ==
  ASSUME NEW code, NEW S, S \subseteq Pc
  PROVE  /\ IsFiniteSet(BackwardAt(code, S)) /\ Cardinality(BackwardAt(code, S)) \in Nat
<1>1. IsFiniteSet(Pc) BY StaticAssumption, FS_Interval DEF Pc
<1>2. BackwardAt(code, S) \in SUBSET Pc BY DEF BackwardAt
<1>3. IsFiniteSet(BackwardAt(code, S)) BY <1>1, <1>2, FS_Subset
<1> QED BY <1>3, FS_CardinalityType

(* In pass 1 the target of a forward branch is never compiled: an           *)
(* instruction that pass 1 compiles takes its least length or more.         *)
LEMMA Pass1Emits ==
  ASSUME TypeInv, NEW p \in Pc, ~Interpreted(p), pass = 0,
         \A t \in Pc : t > p => ~Compiled(t)
  PROVE  EmitLen(p) >= Least(insn, p)
<1>1. /\ insn[p].op \in Ops /\ insn[p].size \in Nat /\ insn[p].target \in Pc
  BY InsnType
<1>2. EmitLen(p) = 0 => insn[p].op = "plain" BY DEF Interpreted
<1>3. CASE insn[p].op \in {"plain", "full"} BY <1>1, <1>3 DEF EmitLen, Least
<1>4. CASE insn[p].op \in {"call", "dirty", "rts"}
  BY <1>1, <1>2, <1>4 DEF EmitLen, Least, OrInterpret
<1>5. CASE insn[p].op = "branch"
  <2>1. EmitLen(p) = BranchLen(p, insn[p].target) /\ EmitLen(p) # 0
    BY <1>2, <1>5 DEF EmitLen
  <2>2. CASE insn[p].target > p
    <3>1. ~SameBank(insn[p].target) BY <1>1, <2>2 DEF SameBank
    <3>2. EmitLen(p) = Template
      BY <2>1, <2>2, <3>1 DEF BranchLen, DirectOr, OrInterpret
    <3> QED BY <1>5, <2>2, <3>2 DEF Least, Template
  <2>3. CASE ~(insn[p].target > p)
    <3>1. EmitLen(p) \in {Template, Direct}
      BY <2>1, <2>3 DEF BranchLen, DirectOr, OrInterpret
    <3> QED BY <1>5, <2>3, <3>1 DEF Least, Template, Direct
  <2> QED BY <2>2, <2>3
<1>6. CASE insn[p].op = "jmp"
  BY <1>2, <1>6 DEF EmitLen, JmpLen, OrInterpret, Least
<1>7. CASE insn[p].op \in {"romread", "io"} BY <1>2, <1>7 DEF EmitLen, Least
<1> QED BY <1>1, <1>3, <1>4, <1>5, <1>6, <1>7 DEF Ops

(* In either pass it takes no more, but for a backward branch.              *)
LEMMA AnyPassEmits ==
  ASSUME TypeInv, NEW p \in Pc
  PROVE  EmitLen(p) <= Least(insn, p) + (IF Backward(insn, p) THEN Template - Direct ELSE 0)
<1>1. /\ insn[p].op \in Ops /\ insn[p].size \in Nat /\ insn[p].target \in Pc
      /\ p \in Nat /\ insn[p].target \in Nat
  BY InsnType DEF Pc
<1>2. CASE insn[p].op \in {"plain", "full"}
  BY <1>1, <1>2 DEF EmitLen, Least, Backward
<1>3. CASE insn[p].op \in {"call", "dirty", "rts"}
  BY <1>1, <1>3 DEF EmitLen, Least, OrInterpret, Backward
<1>4. CASE insn[p].op = "branch"
  <2>1. EmitLen(p) = BranchLen(p, insn[p].target) BY <1>4 DEF EmitLen
  <2>2. EmitLen(p) \in {0, Template, Direct}
    BY <2>1 DEF BranchLen, DirectOr, OrInterpret
  <2> QED BY <1>1, <1>4, <2>2 DEF Least, Backward, Template, Direct
<1>5. CASE insn[p].op = "jmp"
  BY <1>5 DEF EmitLen, JmpLen, OrInterpret, Least, Backward
<1>6. CASE insn[p].op \in {"romread", "io"} BY <1>6 DEF EmitLen, Least, Backward
<1> QED BY <1>1, <1>2, <1>3, <1>4, <1>5, <1>6 DEF Ops

-----------------------------------------------------------------------------
(* Pass 1 measures. *)

(* Behind the instruction at hand the slots are erased, as they were when   *)
(* the block was opened (static_analysis.c:1698-1722).                      *)
LEMMA StepAhead ==
  TypeInv /\ LoopInv /\ ListInv /\ SlotsInv /\ AheadInv /\ [Next]_vars => AheadInv'
<1> SUFFICES ASSUME TypeInv, LoopInv, ListInv, SlotsInv, AheadInv, [Next]_vars
             PROVE  AheadInv'
  OBVIOUS
<1>1. CASE ScanNext
  <2>1. PICK p \in Pc : OpenedAt(p) /\ cursor' = p /\ p >= cursor /\ Erased(p)
    BY <1>1, ScanOpens
  <2>2. pc_table' = pc_table /\ pass = 0 BY <1>1 DEF ScanNext
  <2>3. \A q, r \in Pc : p <= r /\ r <= q /\ Erased(r) => Erased(q)
    BY <2>1, <2>2 DEF AheadInv, TypeInv, Pc
  <2> QED BY <2>1, <2>2, <2>3 DEF AheadInv, OpenedAt, Erased
<1>2. CASE CompileInstruction
  <2> SUFFICES ASSUME pass = 0 PROVE AheadInv'
    BY <1>2 DEF CompileInstruction, AheadInv
  <2>1. /\ stage = "loop" /\ cursor' = cursor /\ cursor = entry_pc /\ pc \in Pc
        /\ entry_pc <= pc /\ pc \in Nat /\ entry_pc \in Nat
    BY <1>2, LoopTurn DEF CompileInstruction, ListInv, LoopInv, TypeInv, Pc
  <2>2. \A q \in Pc : q # pc => pc_table'[q] = pc_table[q]
    BY <1>2, SlotsOfTurn
  <2>3. pc_table'[pc] # ErasedSlot
    BY <1>2, <2>1 DEF CompileInstruction, Programmed, Slot, ErasedSlot
  <2>4. \A q \in Pc : entry_pc <= q /\ q < pc => ~Erased(q)
    BY <2>1 DEF SlotsInv
  <2>5. Erased(pc) /\ \A q, r \in Pc : cursor <= r /\ r <= q /\ Erased(r) => Erased(q)
    BY <2>1 DEF AheadInv
  <2>6. ASSUME NEW q \in Pc, NEW r \in Pc, cursor <= r, r <= q, pc_table'[r] = ErasedSlot
        PROVE  pc_table'[q] = ErasedSlot
    <3>1. r # pc /\ Erased(r) /\ Erased(q) BY <2>2, <2>3, <2>5, <2>6 DEF Erased
    <3>2. r > pc BY <2>1, <2>4, <2>6, <3>1 DEF Pc
    <3>3. q # pc BY <2>1, <2>6, <3>2 DEF Pc
    <3> QED BY <2>2, <3>1, <3>3 DEF Erased
  <2>7. ASSUME stage' = "loop" PROVE pc' \in Pc /\ pc_table'[pc'] = ErasedSlot
    <3>1. pc' = pc + 1 /\ pc + 1 \in Pc BY <1>2, <2>7, LoopTurn
    <3>2. Erased(pc + 1) BY <2>1, <2>5, <3>1
    <3>3. pc + 1 # pc BY <2>1
    <3> QED BY <2>2, <3>1, <3>2, <3>3 DEF Erased
  <2> QED BY <2>1, <2>6, <2>7 DEF AheadInv, Erased
<1>3. CASE UndoBlock \/ ListBlock
  <2>1. /\ cursor' = cursor + 1 /\ stage' = "between" /\ pc_table' = pc_table
        /\ pass' = pass /\ cursor \in Nat
    BY <1>3 DEF UndoBlock, ListBlock, TypeInv
  <2> QED BY <2>1 DEF AheadInv, Erased, Pc
<1>4. CASE StartPass2 \/ ReopenBlock \/ WriteBlock \/ Finish
  BY <1>4 DEF StartPass2, ReopenBlock, WriteBlock, Finish, AheadInv
<1>5. CASE UNCHANGED vars
  BY <1>5 DEF vars, blockVars, loopVars, AheadInv, Erased
<1> QED BY <1>1, <1>2, <1>3, <1>4, <1>5 DEF Next, Done

(* The span that the listed exit leaves holds nothing that pass 1 did not   *)
(* compile (static_analysis.c:1062-1072, 1737-1750).                        *)
LEMMA SpanCompiled ==
  ASSUME TypeInv, LoopInv, CompileInstruction, code_index' > 0,
         \A q \in Pc : entry_pc <= q /\ q < pc => q \in DOMAIN instr_off,
         NEW q \in Span(insn, [entry |-> entry_pc, exit |-> pc'])
  PROVE  q \in DOMAIN instr_off'
<1>1. /\ pc \in Pc /\ pc \in Nat /\ entry_pc \in Nat /\ entry_pc <= pc
      /\ q \in Pc /\ q \in Nat /\ entry_pc <= q
  BY LoopTurn DEF LoopInv, TypeInv, Span, Pc
<1>2. q <= pc
  <2> SUFFICES ASSUME q > pc PROVE FALSE BY <1>1
  <2>1. insn[pc].op \notin {"jmp", "rts"} /\ pc + 1 < pc'
    BY <1>1 DEF Span
  <2>2. pc' \in {pc, pc + 1}
    BY <2>1, LoopTurn DEF NextPc
  <2> QED BY <1>1, <2>1, <2>2
<1>3. DOMAIN instr_off \subseteq DOMAIN instr_off'
  BY LoopTurn
<1>4. CASE q < pc BY <1>1, <1>3, <1>4
<1>5. CASE q = pc /\ ~Interpreted(pc)
  BY <1>5, LoopTurn
<1>6. CASE q = pc /\ Interpreted(pc)
  <2>1. pc' = pc BY <1>6, LoopTurn DEF NextPc
  <2>2. code_index' = code_index
    BY <1>6 DEF CompileInstruction, Interpreted, TypeInv
  <2>3. pc # entry_pc \/ entry_pc \in DOMAIN instr_off
    BY <2>2, LoopTurn DEF LoopInv
  <2>4. CASE pc = entry_pc BY <1>3, <1>6, <2>3, <2>4
  <2>5. CASE pc > entry_pc
    <3>1. pc - 1 \in Pc /\ entry_pc <= pc - 1 /\ pc - 1 < q
      BY <1>1, <1>6, <2>5, StaticAssumption DEF Pc
    <3>2. (pc - 1) + 1 < pc BY <2>1, <3>1 DEF Span
    <3> QED BY <1>1, <3>2
  <2> QED BY <1>1, <2>4, <2>5
<1> QED BY <1>1, <1>2, <1>4, <1>5, <1>6

(* What an instruction of pass 1 adds to the block is its least length or   *)
(* more (static_analysis.c:985-1062).                                       *)
LEMMA StepPace ==
  TypeInv /\ LoopInv /\ ListInv /\ AheadInv /\ PaceInv /\ [Next]_vars => PaceInv'
<1> SUFFICES ASSUME TypeInv, LoopInv, ListInv, AheadInv, PaceInv, [Next]_vars
             PROVE  PaceInv'
  OBVIOUS
<1>0. insn' = insn BY SameProgram
<1>1. CASE ScanNext
  <2>1. PICK p \in Pc : OpenedAt(p) BY <1>1, ScanOpens
  <2>2. \A q \in Pc : ~(entry_pc' <= q /\ q < pc')
    BY <2>1 DEF OpenedAt, Pc
  <2> QED BY <2>1, <2>2 DEF OpenedAt, PaceInv
<1>2. CASE CompileInstruction
  <2> SUFFICES ASSUME pass = 0 PROVE PaceInv'
    BY <1>2 DEF CompileInstruction, PaceInv
  <2>1. /\ stage = "loop" /\ entry_pc' = entry_pc /\ entry_pc \in Nat
        /\ pc \in Pc /\ pc \in Nat /\ entry_pc <= pc /\ cursor = entry_pc
        /\ \A q \in DOMAIN instr_off : q \in Nat /\ q < pc
        /\ code_index \in Nat
    BY <1>2, LoopTurn DEF CompileInstruction, blockVars, LoopInv, ListInv, TypeInv, Pc
  <2>2. /\ \A q \in Pc : entry_pc <= q /\ q < pc => q \in DOMAIN instr_off
        /\ entry_pc \in DOMAIN instr_off => instr_off[entry_pc] = 0
        /\ \A q \in DOMAIN instr_off :
             /\ instr_off[q] \in Nat
             /\ instr_off[q] + Least(insn, q) <= code_index
             /\ q + 1 \in DOMAIN instr_off =>
                  instr_off[q] + Least(insn, q) <= instr_off[q + 1]
    BY <2>1 DEF PaceInv
  <2>3. stage' = "end" /\ code_index' > 0 =>
          Span(insn, [entry |-> entry_pc, exit |-> pc']) \subseteq DOMAIN instr_off'
    BY <1>2, <2>2, SpanCompiled
  <2>4. stage' = "loop" =>
          \A q \in Pc : entry_pc <= q /\ q < pc' => q \in DOMAIN instr_off'
    <3> SUFFICES ASSUME stage' = "loop", NEW q \in Pc, entry_pc <= q, q < pc'
                 PROVE  q \in DOMAIN instr_off'
      OBVIOUS
    <3>1. pc' = pc + 1 /\ DOMAIN instr_off' = DOMAIN instr_off \cup {pc}
      BY <1>2, LoopTurn
    <3> QED BY <2>1, <2>2, <3>1 DEF Pc
  <2>5. CASE Interpreted(pc)
    <3>1. code_index' = code_index /\ instr_off' = instr_off
      BY <1>2, <2>5, LoopTurn DEF CompileInstruction, Interpreted, TypeInv
    <3> QED BY <1>0, <2>1, <2>2, <2>3, <2>4, <3>1 DEF PaceInv
  <2>6. CASE ~Interpreted(pc)
    <3>1. /\ DOMAIN instr_off' = DOMAIN instr_off \cup {pc} /\ instr_off'[pc] = code_index
          /\ \A q \in DOMAIN instr_off : instr_off'[q] = instr_off[q]
      BY <1>2, <2>1, <2>6, LoopTurn
    <3>2. \A t \in Pc : t > pc => ~Compiled(t)
      <4>1. \A t \in Pc : t > pc => Erased(t)
        BY <2>1 DEF AheadInv, Pc
      <4> QED BY <4>1 DEF Erased, ErasedSlot, Compiled
    <3>3. EmitLen(pc) >= Least(insn, pc) /\ Least(insn, pc) \in Nat /\ EmitLen(pc) \in Nat
      BY <2>1, <2>6, <3>2, Pass1Emits, LeastNat, EmitLenNat
    <3>4. code_index' \in Nat /\ code_index' >= code_index
          /\ code_index' >= code_index + Least(insn, pc)
      BY <1>2, <2>1, <3>3 DEF CompileInstruction
    <3>5. entry_pc \in DOMAIN instr_off' => instr_off'[entry_pc] = 0
      <4>1. CASE pc = entry_pc
        <5>1. code_index = 0 BY <2>1, <4>1 DEF LoopInv
        <5> QED BY <3>1, <4>1, <5>1
      <4>2. CASE pc # entry_pc BY <2>2, <3>1, <4>2
      <4> QED BY <4>1, <4>2
    <3>6. ASSUME NEW q \in DOMAIN instr_off'
          PROVE  /\ instr_off'[q] \in Nat
                 /\ instr_off'[q] + Least(insn, q) <= code_index'
                 /\ q + 1 \in DOMAIN instr_off' =>
                      instr_off'[q] + Least(insn, q) <= instr_off'[q + 1]
      <4>1. CASE q = pc
        <5>1. q + 1 \notin DOMAIN instr_off' BY <2>1, <3>1, <4>1
        <5> QED BY <2>1, <3>1, <3>4, <4>1, <5>1
      <4>2. CASE q # pc
        <5>1. q \in DOMAIN instr_off /\ q \in Pc /\ instr_off'[q] = instr_off[q]
          BY <3>1, <4>2 DEF TypeInv
        <5>2. Least(insn, q) \in Nat BY <5>1, LeastNat
        <5>3. instr_off'[q] + Least(insn, q) <= code_index'
          BY <2>1, <2>2, <3>4, <5>1, <5>2
        <5>4. CASE q + 1 = pc
          <6>1. instr_off'[q + 1] = code_index BY <3>1, <5>4
          <6>2. instr_off[q] + Least(insn, q) <= code_index BY <2>2, <5>1
          <6> QED BY <2>2, <5>1, <5>3, <6>1, <6>2
        <5>5. CASE q + 1 \in DOMAIN instr_off
          <6>1. instr_off'[q + 1] = instr_off[q + 1] BY <3>1, <5>5
          <6>2. instr_off[q] + Least(insn, q) <= instr_off[q + 1] BY <2>2, <5>1, <5>5
          <6> QED BY <2>2, <5>1, <5>3, <6>1, <6>2
        <5>6. q + 1 \notin DOMAIN instr_off' \/ q + 1 = pc \/ q + 1 \in DOMAIN instr_off
          BY <3>1
        <5> QED BY <2>2, <5>1, <5>3, <5>4, <5>5, <5>6
      <4> QED BY <4>1, <4>2
    <3> QED BY <1>0, <2>1, <2>3, <2>4, <3>5, <3>6 DEF PaceInv
  <2> QED BY <2>5, <2>6
<1>3. CASE UndoBlock \/ ListBlock \/ WriteBlock
  BY <1>3 DEF UndoBlock, ListBlock, WriteBlock, PaceInv
<1>4. CASE StartPass2 \/ ReopenBlock \/ Finish
  BY <1>4 DEF StartPass2, ReopenBlock, Finish, PaceInv
<1>5. CASE UNCHANGED vars
  BY <1>0, <1>5 DEF vars, blockVars, loopVars, PaceInv
<1> QED BY <1>1, <1>2, <1>3, <1>4, <1>5 DEF Next, Done

(* An entry of the list is measured by the offsets that pass 1 leaves       *)
(* behind (static_analysis.c:1737-1750).                                    *)
LEMMA StepListed ==
  TypeInv /\ LoopInv /\ PaceInv /\ ListedInv /\ [Next]_vars => ListedInv'
<1> SUFFICES ASSUME TypeInv, LoopInv, PaceInv, ListedInv, [Next]_vars
             PROVE  ListedInv'
  OBVIOUS
<1>0. insn' = insn BY SameProgram
<1>1. CASE entry_list' = entry_list
  BY <1>0, <1>1 DEF ListedInv
<1>2. CASE ListBlock
  <2> DEFINE e == [entry |-> entry_pc, exit |-> pc, len |-> MeasuredLen]
             n == Len(entry_list)
  <2>1. /\ entry_list' = Append(entry_list, e) /\ n \in Nat /\ e \in Entry
        /\ stage = "end" /\ pass = 0 /\ code_index > 0
    BY <1>2, LayoutAssumption DEF ListBlock, TypeInv, MeasuredLen, Entry
  <2>2. /\ Len(entry_list') = n + 1 /\ entry_list'[n + 1] = e
        /\ \A i \in 1..n : entry_list'[i] = entry_list[i]
    BY <2>1 DEF TypeInv
  <2>3. Span(insn, e) = Span(insn, [entry |-> entry_pc, exit |-> pc])
    BY DEF Span
  <2>4. Measured(insn, e, instr_off)
    <3>1. Span(insn, e) \subseteq DOMAIN instr_off BY <2>1, <2>3 DEF PaceInv
    <3>2. instr_off[e.entry] = 0 BY <2>1 DEF PaceInv, LoopInv, TypeInv
    <3>3. ASSUME NEW q \in DOMAIN instr_off
          PROVE  /\ instr_off[q] \in Nat
                 /\ instr_off[q] + Least(insn, q) + EpilogueSize <= e.len
                 /\ q + 1 \in DOMAIN instr_off =>
                      instr_off[q] + Least(insn, q) <= instr_off[q + 1]
      <4>1. Least(insn, q) \in Nat BY LeastNat DEF TypeInv
      <4>2. e.len = code_index + EpilogueSize BY DEF MeasuredLen
      <4>3. /\ instr_off[q] \in Nat
            /\ instr_off[q] + Least(insn, q) <= code_index
            /\ q + 1 \in DOMAIN instr_off =>
                 instr_off[q] + Least(insn, q) <= instr_off[q + 1]
        BY <2>1 DEF PaceInv
      <4> QED BY <4>1, <4>2, <4>3, LayoutAssumption DEF TypeInv
    <3> QED BY <3>1, <3>2, <3>3 DEF Measured
  <2>5. ASSUME NEW i \in 1..(n + 1) PROVE \E w : Measured(insn, entry_list'[i], w)
    <3>1. CASE i \in 1..n BY <2>2, <3>1 DEF ListedInv
    <3>2. CASE i = n + 1 BY <2>2, <2>4, <3>2
    <3> QED BY <2>1, <3>1, <3>2
  <2> QED BY <1>0, <2>2, <2>5 DEF ListedInv
<1> QED
  BY <1>1, <1>2 DEF Next, Done, ScanNext, CompileInstruction, UndoBlock, StartPass2,
     ReopenBlock, WriteBlock, Finish, vars

-----------------------------------------------------------------------------
(* Pass 2 against the measure *)

(* One more instruction in the block adds to the excess what it emits       *)
(* beyond its least length.                                                 *)
LEMMA ExcessGrows ==
  ASSUME TypeInv, LoopInv, CompileInstruction
  PROVE  /\ Excess \in Nat /\ Excess' \in Nat
         /\ EmitLen(pc) + Excess <= Least(insn, pc) + Excess'
<1> DEFINE S == DOMAIN instr_off
           B == BackwardAt(insn, S)
<1>1. /\ pc \in Pc /\ pc \in Nat /\ S \subseteq Pc /\ insn' = insn
      /\ DOMAIN instr_off' \subseteq Pc
  BY LoopTurn DEF TypeInv, Pc, CompileInstruction, insn
<1>2. /\ IsFiniteSet(B) /\ Cardinality(B) \in Nat
      /\ Cardinality(BackwardAt(insn, DOMAIN instr_off')) \in Nat
  BY <1>1, BackwardFinite
<1>3. /\ Excess = Cardinality(B) * 14
      /\ Excess' = Cardinality(BackwardAt(insn, DOMAIN instr_off')) * 14
  BY <1>1 DEF Excess, Template, Direct
<1>4. Least(insn, pc) \in Nat /\ EmitLen(pc) \in Nat
  BY <1>1, LeastNat, EmitLenNat
<1>5. EmitLen(pc) <= Least(insn, pc) + (IF Backward(insn, pc) THEN 14 ELSE 0)
  BY <1>1, AnyPassEmits DEF Template, Direct
<1>6. Excess \in Nat /\ Excess' \in Nat BY <1>2, <1>3
<1>7. CASE Interpreted(pc)
  <2>1. EmitLen(pc) = 0 /\ instr_off' = instr_off
    BY <1>7, LoopTurn DEF Interpreted
  <2>2. Excess' = Excess BY <1>3, <2>1
  <2> QED BY <1>4, <1>6, <2>1, <2>2
<1>8. CASE ~Interpreted(pc) /\ ~Backward(insn, pc)
  <2>1. DOMAIN instr_off' = S \cup {pc} BY <1>8, LoopTurn
  <2>2. BackwardAt(insn, DOMAIN instr_off') = B BY <1>8, <2>1 DEF BackwardAt
  <2>3. Excess' = Excess BY <1>3, <2>2
  <2> QED BY <1>4, <1>5, <1>6, <1>8, <2>3
<1>9. CASE ~Interpreted(pc) /\ Backward(insn, pc)
  <2>1. DOMAIN instr_off' = S \cup {pc} BY <1>9, LoopTurn
  <2>2. BackwardAt(insn, DOMAIN instr_off') = B \cup {pc}
    BY <1>9, <2>1 DEF BackwardAt
  <2>3. pc \notin B BY <1>1, LoopTurn DEF LoopInv, BackwardAt
  <2>4. Cardinality(B \cup {pc}) = Cardinality(B) + 1
    BY <1>2, <2>3, FS_AddElement
  <2>5. \A n \in Nat : (n + 1) * 14 = n * 14 + 14 OBVIOUS
  <2>6. Excess' = Excess + 14
    <3>1. (Cardinality(B) + 1) * 14 = Cardinality(B) * 14 + 14 BY <1>2, <2>5
    <3> QED BY <1>3, <2>2, <2>4, <3>1
  <2> QED BY <1>4, <1>5, <1>6, <1>9, <2>6
<1> QED BY <1>7, <1>8, <1>9

(* Pass 2 keeps the pace of pass 1, but for its backward branches           *)
(* (static_analysis.c:985-1112, 1873-1943).                                 *)
LEMMA StepTight ==
  TypeInv /\ LoopInv /\ ReplayInv /\ TightInv /\ [Next]_vars => TightInv'
<1> SUFFICES ASSUME TypeInv, LoopInv, ReplayInv, TightInv, [Next]_vars
             PROVE  TightInv'
  OBVIOUS
<1>0. insn' = insn BY SameProgram
<1>1. CASE ReopenBlock
  <2>1. OpenedAt(Listed.entry) /\ Listed \in Entry /\ cursor \in 1..Len(entry_list)
    BY <1>1, ReplayOpens
  <2>2. /\ cursor' = cursor /\ entry_list' = entry_list
        /\ sa_block_alloc_size' = Listed.len
    BY <1>1 DEF ReopenBlock
  <2>3. DOMAIN instr_off' = {} /\ code_index' = 0 /\ pc' = Listed.entry /\ stage' = "loop"
    BY <2>1 DEF OpenedAt
  <2>4. BackwardAt(insn', DOMAIN instr_off') = {} BY <2>3 DEF BackwardAt
  <2>5. Cardinality(BackwardAt(insn', DOMAIN instr_off')) = 0 BY <2>4, FS_EmptySet
  <2>6. Excess' = 0 BY <2>5 DEF Excess, Template, Direct
  <2>7. \A w : Measured(insn, Listed, w) => code_index' <= w[pc'] + Excess'
    BY <2>3, <2>6 DEF Measured
  <2> QED BY <1>0, <2>2, <2>3, <2>7 DEF TightInv, Listed
<1>2. CASE CompileInstruction
  <2> DEFINE e == entry_list[cursor]
  <2> SUFFICES ASSUME pass = 2 PROVE TightInv'
    BY <1>2 DEF CompileInstruction, TightInv
  <2>1. /\ stage = "loop" /\ pc \in Pc /\ pc \in Nat /\ code_index \in Nat
        /\ pc \in Span(insn, e) /\ cursor \in 1..Len(entry_list)
        /\ sa_block_alloc_size = e.len
    BY <1>2, LoopTurn DEF ReplayInv, TypeInv, Pc, TightInv
  <2>2. e \in Entry BY <2>1 DEF TypeInv
  <2>3. e.len \in Nat BY <2>2 DEF Entry
  <2>4. /\ cursor' = cursor /\ entry_list' = entry_list
        /\ sa_block_alloc_size' = sa_block_alloc_size
        /\ code_index' = code_index + EmitLen(pc)
    BY <1>2 DEF CompileInstruction, blockVars
  <2>5. /\ Excess \in Nat /\ Excess' \in Nat
        /\ EmitLen(pc) + Excess <= Least(insn, pc) + Excess'
    BY <1>2, ExcessGrows
  <2>6. Least(insn, pc) \in Nat /\ EmitLen(pc) \in Nat
    BY <2>1, LeastNat, EmitLenNat
  <2>7. ASSUME stage' = "loop" PROVE pc' = pc + 1 /\ pc + 1 \in Span(insn, e)
    <3>1. pc' = pc + 1 BY <1>2, <2>7, LoopTurn
    <3>2. ReplayInv' BY StepReplay
    <3>3. pass' = 2 BY <1>2 DEF CompileInstruction
    <3>4. pc' \in Span(insn', entry_list'[cursor']) BY <2>7, <3>2, <3>3 DEF ReplayInv
    <3> QED BY <1>0, <2>4, <3>1, <3>4
  <2>8. ASSUME NEW w, Measured(insn, e, w)
        PROVE  /\ stage' = "loop" => code_index' <= w[pc'] + Excess'
               /\ stage' = "end" => code_index' + EpilogueSize <= e.len + Excess'
    <3>1. /\ pc \in DOMAIN w /\ w[pc] \in Nat
          /\ w[pc] + Least(insn, pc) + EpilogueSize <= e.len
      BY <2>1, <2>8 DEF Measured
    <3>2. code_index <= w[pc] + Excess BY <2>1, <2>8 DEF TightInv
    <3>3. code_index' <= w[pc] + Least(insn, pc) + Excess'
      BY <2>1, <2>4, <2>5, <2>6, <3>1, <3>2
    <3>4. ASSUME stage' = "loop" PROVE code_index' <= w[pc'] + Excess'
      <4>1. pc + 1 \in DOMAIN w BY <2>7, <2>8, <3>4 DEF Measured
      <4>2. w[pc + 1] \in Nat /\ w[pc] + Least(insn, pc) <= w[pc + 1]
        BY <2>8, <3>1, <4>1 DEF Measured
      <4>3. code_index' \in Nat BY <2>1, <2>4, <2>6
      <4>4. code_index' <= w[pc + 1] + Excess'
        BY <2>5, <2>6, <3>1, <3>3, <4>2, <4>3
      <4> QED BY <2>7, <3>4, <4>4
    <3>5. code_index' + EpilogueSize <= e.len + Excess'
      <4>1. code_index' \in Nat BY <2>1, <2>4, <2>6
      <4> QED BY <2>3, <2>5, <2>6, <3>1, <3>3, <4>1, LayoutAssumption
    <3> QED BY <3>4, <3>5
  <2> QED BY <1>0, <2>1, <2>4, <2>8 DEF TightInv
<1>3. CASE ScanNext \/ UndoBlock \/ ListBlock \/ StartPass2 \/ WriteBlock \/ Finish
  BY <1>3 DEF ScanNext, UndoBlock, ListBlock, StartPass2, WriteBlock, Finish, TightInv,
     TypeInv
<1>4. CASE UNCHANGED vars
  <2>1. Excess' = Excess BY <1>0, <1>4 DEF vars, loopVars, Excess
  <2> QED BY <1>0, <1>4, <2>1 DEF vars, blockVars, loopVars, TightInv
<1> QED BY <1>1, <1>2, <1>3, <1>4 DEF Next, Done

(* A block enters the flash with no more excess than its backward branches  *)
(* account for (static_analysis.c:1286-1370).                               *)
LEMMA StepOverrun ==
  /\ TypeInv /\ ReplayInv /\ ListedInv /\ TightInv /\ OverrunBounded
  /\ [Next]_vars
  => OverrunBounded'
<1> SUFFICES ASSUME TypeInv, ReplayInv, ListedInv, TightInv, OverrunBounded, [Next]_vars
             PROVE  OverrunBounded'
  OBVIOUS
<1>0. insn' = insn BY SameProgram
<1>1. CASE WriteBlock
  <2> DEFINE b == [entry |-> entry_pc, exit |-> pc, sec |-> flash_code_sector,
                   base |-> flash_code_address, at |-> instr_off,
                   alloc |-> sa_block_alloc_size,
                   len |-> code_index + EpilogueSize]
  <2>1. blocks' = blocks \cup {b} /\ pass = 2 /\ stage = "end"
    BY <1>1 DEF WriteBlock
  <2>2. cursor \in 1..Len(entry_list) BY <2>1 DEF ReplayInv, TypeInv
  <2>3. PICK w : Measured(insn, entry_list[cursor], w) BY <2>2 DEF ListedInv
  <2>4. /\ sa_block_alloc_size = entry_list[cursor].len
        /\ code_index + EpilogueSize <= entry_list[cursor].len + Excess
    BY <2>1, <2>3 DEF TightInv
  <2>5. BackwardIn(b) = BackwardAt(insn, DOMAIN instr_off)
    BY DEF BackwardIn, BackwardAt, Backward
  <2>6. b.len <= b.alloc + Cardinality(BackwardIn(b)) * (Template - Direct)
    BY <2>4, <2>5 DEF Excess
  <2>7. ASSUME NEW c \in blocks'
        PROVE  c.len <= c.alloc + Cardinality(BackwardIn(c)) * (Template - Direct)
    <3>1. CASE c \in blocks BY <3>1 DEF OverrunBounded
    <3>2. CASE c = b BY <2>6, <3>2
    <3> QED BY <2>1, <3>1, <3>2
  <2>8. \A c : BackwardIn(c)' = BackwardIn(c) BY <1>0 DEF BackwardIn
  <2> QED BY <2>7, <2>8 DEF OverrunBounded
<1>2. CASE blocks' = blocks
  <2>1. \A c : BackwardIn(c)' = BackwardIn(c) BY <1>0 DEF BackwardIn
  <2> QED BY <1>2, <2>1 DEF OverrunBounded
<1> QED
  BY <1>1, <1>2 DEF Next, Done, ScanNext, CompileInstruction, UndoBlock, ListBlock,
     StartPass2, ReopenBlock, Finish, vars

(* For every guest program: what a block of pass 2 takes beyond its tight   *)
(* allocation is due to its backward branches, 14 bytes at most for each    *)
(* (static_analysis.c:1668, 1873-1943).                                     *)
THEOREM OverrunAlwaysBounded == Spec => []OverrunBounded
<1> DEFINE Inv == /\ TypeInv /\ LoopInv /\ ListInv /\ SlotsInv /\ ReplayInv
                  /\ AheadInv /\ PaceInv /\ ListedInv /\ TightInv
                  /\ OverrunBounded
<1>1. Init => Inv
  <2> SUFFICES ASSUME Init PROVE Inv OBVIOUS
  <2>1. TypeInv /\ LoopInv /\ ListInv /\ SlotsInv /\ ReplayInv
    BY InitTypes DEF Init, LoopInv, ListInv, SlotsInv, ReplayInv
  <2>2. AheadInv BY DEF Init, AheadInv, Erased, AllErased
  <2>3. PaceInv /\ ListedInv /\ TightInv /\ OverrunBounded
    BY DEF Init, PaceInv, ListedInv, TightInv, OverrunBounded
  <2> QED BY <2>1, <2>2, <2>3
<1>2. Inv /\ [Next]_vars => Inv'
  BY StepTypes, StepLoop, StepList, StepSlots, StepReplay, StepAhead, StepPace,
     StepListed, StepTight, StepOverrun
<1> QED BY <1>1, <1>2, PTL DEF Spec

-----------------------------------------------------------------------------
(* Room for the list: without data copies pass 1 puts its blocks, all of    *)
(* maximal size, on a grid.  Every sector has a fixed number of places on   *)
(* the grid, and no entry of the list is without one of its own.  A block   *)
(* of pass 2 reaches into one place at most, so that a place is untouched   *)
(* for as long as there is an entry left to compile.                        *)

NoRomReads == \A g \in Programs : \A p \in Pc : g.insn[p].op # "romread"

Stride  == CodeStart(MaxBlock)
Grid(i) == BlockAlignment + i * Stride
Lim     == SectorSize - PoolSize
Places  == {x \in Sector \X Nat : Grid(x[2]) + MaxBlock <= Lim}
Taken   == {x \in Sector \X Nat :
              Grid(x[2]) < CodeStart(sector_free_offset[x[1]])}
InHand  == IF stage = "between" THEN 0 ELSE 1

\* What the allocator and the block in hand have to do with each other.
RoomInv ==
  /\ sector_free_offset \in [Sector -> Nat]
  /\ next_free_sector \in Sector /\ pre_alloc_next_free \in Sector
  /\ stage # "between" =>
       /\ flash_code_sector \in Sector /\ flash_code_address \in Nat
       /\ flash_code_address <= sector_free_offset[flash_code_sector]
  /\ code_index <= CodeSize /\ (stage = "loop" => code_index <= CodeSize - 6)
  /\ \A i \in 1..Len(entry_list) : entry_list[i].len <= MaxBlock

\* In pass 1 the free offset of a sector is behind k places of the grid.
Behind(s, k) ==
  /\ CodeStart(sector_free_offset[s]) = Grid(k)
  /\ k > 0 => Grid(k - 1) + MaxBlock <= Lim
InPlace(k) ==
  /\ CodeStart(flash_code_address) = Grid(k)
  /\ CodeStart(sector_free_offset[flash_code_sector]) = Grid(k + 1)
  /\ Grid(k) + MaxBlock <= Lim
GridInv ==
  pass = 0 =>
    /\ \A s \in Sector : \E k \in Nat : Behind(s, k)
    /\ stage # "between" => \E k \in Nat : InPlace(k)
    /\ Len(entry_list) + InHand <= Cardinality(Taken)

\* In pass 2 no more places are taken than entries have been worked off.
PlacesInv ==
  /\ Len(entry_list) <= Cardinality(Places)
  /\ pass = 2 =>
       IsFiniteSet(Taken) /\ Cardinality(Taken) + 1 <= cursor + InHand
  /\ pass = 3 => cursor > Len(entry_list)

(* Rounding up to the next aligned address that leaves room for a header    *)
(* (dynamos.c:1546-1584).                                                   *)
LEMMA RoundUp ==
  ASSUME NEW cur \in Nat
  PROVE  /\ CodeStart(cur) \in Nat /\ CodeStart(cur) >= BlockAlignment
         /\ CodeStart(cur) >= cur + BlockHeaderSize
         /\ HeaderStart(cur) \in Nat /\ HeaderStart(cur) <= CodeStart(cur)
         /\ CodeStart(HeaderStart(cur)) = CodeStart(cur)
         /\ \E m \in Nat : CodeStart(cur) = 16 * m
BY DEF CodeStart, HeaderStart, BlockHeaderSize, BlockAlignment

LEMMA RoundUpMonotone ==
  ASSUME NEW a \in Nat, NEW b \in Nat, a <= b
  PROVE  CodeStart(a) <= CodeStart(b)
BY DEF CodeStart, BlockHeaderSize, BlockAlignment

LEMMA RoundUpAdds ==
  ASSUME NEW a \in Nat, NEW b \in Nat
  PROVE  CodeStart(CodeStart(a) + b) = CodeStart(a) + CodeStart(b)
<1>1. PICK m \in Nat : CodeStart(a) = 16 * m BY RoundUp
<1>2. \A n \in Nat : CodeStart(16 * m + n) = 16 * m + CodeStart(n)
  BY <1>1 DEF CodeStart, BlockHeaderSize, BlockAlignment
<1> QED BY <1>1, <1>2

(* The places of the grid lie a stride apart.                               *)
LEMMA GridSteps ==
  /\ MaxBlock \in Nat /\ Stride \in Nat /\ Stride > MaxBlock /\ Stride > 0
  /\ CodeStart(0) = Grid(0) /\ Grid(0) = BlockAlignment
  /\ \A i \in Nat : Grid(i) \in Nat /\ Grid(i + 1) = Grid(i) + Stride
                    /\ Grid(i) >= BlockAlignment /\ Grid(i) >= i
  /\ \A i, j \in Nat : i < j => Grid(i) + Stride <= Grid(j)
<1>1. MaxBlock \in Nat BY LayoutAssumption DEF MaxBlock
<1>2. Stride \in Nat /\ Stride > MaxBlock /\ Stride >= 16
  BY <1>1, RoundUp DEF Stride, BlockHeaderSize, BlockAlignment
<1> HIDE DEF Stride
<1>3. CodeStart(0) = Grid(0) /\ Grid(0) = BlockAlignment
  BY <1>2 DEF CodeStart, Grid, BlockHeaderSize, BlockAlignment
<1>4. \A i, d \in Nat : (i + d) * Stride = i * Stride + d * Stride
  BY <1>2
<1>5. \A i \in Nat : i * Stride \in Nat /\ i * Stride >= i
  BY <1>2
<1>6. 1 * Stride = Stride BY <1>2
<1>7. \A i \in Nat : (i + 1) * Stride = i * Stride + Stride
  BY <1>4, <1>6
<1>8. \A i \in Nat : Grid(i) \in Nat /\ Grid(i + 1) = Grid(i) + Stride
                     /\ Grid(i) >= BlockAlignment /\ Grid(i) >= i
  BY <1>2, <1>5, <1>7 DEF Grid, BlockAlignment
<1>9. ASSUME NEW i \in Nat, NEW j \in Nat, i < j PROVE Grid(i) + Stride <= Grid(j)
  <2>1. j = (i + 1) + (j - (i + 1)) /\ j - (i + 1) \in Nat BY <1>9
  <2>2. j * Stride = (i + 1) * Stride + (j - (i + 1)) * Stride
    <3>1. ((i + 1) + (j - (i + 1))) * Stride = (i + 1) * Stride + (j - (i + 1)) * Stride
      BY <1>4, <2>1
    <3> QED BY <2>1, <3>1
  <2>3. (j - (i + 1)) * Stride \in Nat BY <1>5, <2>1
  <2> QED BY <1>2, <1>5, <1>7, <2>2, <2>3 DEF Grid, BlockAlignment
<1> QED BY <1>1, <1>2, <1>3, <1>8, <1>9

LEMMA GridOrder ==
  ASSUME NEW i \in Nat, NEW j \in Nat
  PROVE  (Grid(i) < Grid(j) <=> i < j) /\ (i <= j => Grid(i) <= Grid(j))
<1>1. /\ Grid(i) \in Nat /\ Grid(j) \in Nat /\ Stride \in Nat /\ Stride > 0
      /\ i < j => Grid(i) + Stride <= Grid(j)
      /\ j < i => Grid(j) + Stride <= Grid(i)
  BY GridSteps
<1> HIDE DEF Grid, Stride
<1> QED BY <1>1

LEMMA PlacesFinite == IsFiniteSet(Places) /\ Cardinality(Places) \in Nat
<1>1. Lim \in Nat BY LayoutAssumption DEF Lim
<1>2. IsFiniteSet(Sector) /\ IsFiniteSet(0..Lim)
  <2>1. IsFiniteSet(0..(Sectors - 1)) BY StaticAssumption, FS_Interval
  <2> QED BY <1>1, <2>1, FS_Interval DEF Sector
<1>3. IsFiniteSet(Sector \X (0..Lim)) BY <1>2, FS_Product
<1>4. Places \subseteq Sector \X (0..Lim)
  <2> SUFFICES ASSUME NEW x \in Places PROVE x \in Sector \X (0..Lim) OBVIOUS
  <2>1. x \in Sector \X Nat /\ Grid(x[2]) + MaxBlock <= Lim BY DEF Places
  <2>2. Grid(x[2]) >= x[2] /\ Grid(x[2]) \in Nat /\ MaxBlock \in Nat BY <2>1, GridSteps
  <2>3. x[2] \in 0..Lim
    <3>1. x[2] \in Nat BY <2>1
    <3> HIDE DEF Grid, MaxBlock
    <3> QED BY <1>1, <2>1, <2>2, <3>1
  <2> QED BY <2>1, <2>3
<1>5. IsFiniteSet(Places) BY <1>3, <1>4, FS_Subset
<1> QED BY <1>5, FS_CardinalityType

LEMMA LeastNumber ==
  ASSUME NEW S \in SUBSET Nat, S # {}
  PROVE  \E m \in S : \A n \in S : m <= n
<1>1. PICK m \in S : \A n \in S : ~ (<<n, m>> \in OpToRel(<, Nat))
  <2>1. S \subseteq Nat OBVIOUS
  <2> QED BY <2>1, NatLessThanWellFounded, WFMin
<1>2. \A n \in S : m \in Nat /\ n \in Nat /\ ~(n < m) BY <1>1 DEF OpToRel
<1> QED BY <1>2

(* The search for room ends at a sector that has it (dynamos.c:1546-1584).  *)
LEMMA NearestIsOne ==
  ASSUME next_free_sector \in Sector, NEW S \in SUBSET Sector, S # {}
  PROVE  Nearest(S) \in S
<1> DEFINE D == {Distance(s) : s \in S}
<1>1. \A s \in S : Distance(s) \in Nat
  BY StaticAssumption DEF Distance, Sector
<1>2. D \in SUBSET Nat /\ D # {} BY <1>1
<1>3. \E s \in S : \A r \in S : Distance(s) <= Distance(r)
  <2>1. PICK m \in D : \A n \in D : m <= n
    <3> HIDE DEF D
    <3> QED BY <1>2, LeastNumber
  <2>2. PICK s \in S : m = Distance(s) BY <2>1
  <2> QED BY <2>1, <2>2
<1> QED BY <1>3 DEF Nearest

(* What is compiled stays within the code buffer: a template that no room   *)
(* is left for becomes a single interpreted instruction, and the loop keeps *)
(* the slack that the others need (static_analysis.c:985-1072).             *)
LEMMA CodeFits ==
  ASSUME TypeInv, CompileInstruction, code_index <= CodeSize - 6
  PROVE  /\ code_index' <= CodeSize
         /\ stage' = "loop" => code_index' <= CodeSize - 6
<1>1. /\ pc \in Pc /\ code_index \in Nat /\ EmitLen(pc) \in Nat
      /\ code_index' = code_index + EmitLen(pc)
  BY LoopTurn, EmitLenNat DEF TypeInv, CompileInstruction
<1>2. CodeSize \in Nat BY LayoutAssumption
<1>3. /\ insn[pc].op \in Ops /\ insn[pc].size \in Nat
      /\ insn[pc].op \in {"plain", "full"} => insn[pc].size <= 6
  BY <1>1, InsnType, StaticAssumption DEF TypeInv, insn
<1>4. \A n, room \in Nat : n <= room => code_index + OrInterpret(n, room) <= CodeSize
  BY <1>1, <1>2 DEF OrInterpret, Room
<1>5. code_index + EmitLen(pc) <= CodeSize
  <2>1. CASE insn[pc].op \in {"plain", "full"} BY <1>1, <1>2, <1>3, <2>1 DEF EmitLen
  <2>2. CASE insn[pc].op \in {"call", "dirty", "rts"}
    <3>1. insn[pc].size + ExitRoom \in Nat /\ insn[pc].size <= insn[pc].size + ExitRoom
      BY <1>3 DEF ExitRoom
    <3> QED BY <1>3, <1>4, <2>2, <3>1 DEF EmitLen
  <2>3. CASE insn[pc].op = "branch"
    <3>1. /\ code_index + OrInterpret(Template, Template + 14) <= CodeSize
          /\ OrInterpret(Template, Template + 14) \in Nat
      BY <1>4 DEF Template, OrInterpret
    <3>2. code_index + BranchLen(pc, insn[pc].target) <= CodeSize
      BY <1>1, <1>2, <3>1 DEF BranchLen, DirectOr, Room, Direct, ExitRoom
    <3> QED BY <2>3, <3>2 DEF EmitLen
  <2>4. CASE insn[pc].op = "jmp"
    BY <1>1, <1>2, <2>4 DEF EmitLen, JmpLen, OrInterpret, Room
  <2>5. CASE insn[pc].op \in {"romread", "io"}
    BY <1>1, <1>2, <2>5 DEF EmitLen
  <2> QED BY <1>3, <2>1, <2>2, <2>3, <2>4, <2>5 DEF Ops
<1>6. stage' = "loop" => code_index' <= CodeSize - 6
  BY <1>1, LoopTurn DEF Continues
<1> QED BY <1>1, <1>5, <1>6

(* What opening a block (static_analysis.c:955-983) does to the allocator.  *)
Opened(s, size) ==
  /\ s \in Sector /\ flash_code_sector' = s
  /\ flash_code_address' = HeaderStart(sector_free_offset[s])
  /\ CodeStart(sector_free_offset[s]) + size <= Lim
  /\ sector_free_offset' = [sector_free_offset EXCEPT
                              ![s] = CodeStart(sector_free_offset[s]) + size]
  /\ next_free_sector' = s /\ pre_alloc_next_free' = next_free_sector
  /\ stage' = "loop" /\ code_index' = 0

LEMMA OpenFinds ==
  ASSUME RoomInv, NEW entry, NEW size \in Nat, Open(entry, size)
  PROVE  \E s \in Sector : Opened(s, size)
<1> DEFINE s == Nearest(RoomFor(size))
<1>1. RoomFor(size) \in SUBSET Sector /\ RoomFor(size) # {}
  BY DEF RoomFor, Open
<1>2. s \in RoomFor(size) BY <1>1, NearestIsOne DEF RoomInv
<1>3. s \in Sector /\ CodeStart(sector_free_offset[s]) + size <= Lim
  BY <1>2 DEF RoomFor, Fits, AllocEnd, Lim
<1>4. Opened(s, size)
  BY <1>3 DEF Open, Opened, AllocEnd
<1> QED BY <1>3, <1>4

(* Without data copies a turn of the loop allocates nothing.                *)
LEMMA TurnAllocatesNothing ==
  ASSUME NoRomReads, TypeInv, CompileInstruction
  PROVE  UNCHANGED <<sector_free_offset, next_free_sector, flash_code_sector,
                     flash_code_address, pre_alloc_next_free, entry_list, pass, cursor>>
<1>1. insn[pc].op # "romread" BY LoopTurn DEF NoRomReads, TypeInv, insn
<1> QED BY <1>1 DEF CompileInstruction, blockVars

(* The allocator's state stays what its name says, no block outgrows the    *)
(* code buffer and no entry of the list the maximal block                   *)
(* (static_analysis.c:955-1130, 1737-1750).                                 *)
LEMMA StepRoom ==
  ASSUME NoRomReads, TypeInv, RoomInv, [Next]_vars PROVE RoomInv'
<1>0. CodeSize \in Nat /\ CodeSize > 6 /\ MaxBlock \in Nat /\ 0 \in Sector
  BY LayoutAssumption, StaticAssumption, GridSteps DEF Sector
<1> HIDE DEF MaxBlock
<1>1. ASSUME NEW size \in Nat, NEW s \in Sector, Opened(s, size), entry_list' = entry_list
      PROVE  RoomInv'
  <2>1. sector_free_offset[s] \in Nat BY DEF RoomInv
  <2>2. /\ HeaderStart(sector_free_offset[s]) \in Nat
        /\ CodeStart(sector_free_offset[s]) \in Nat
        /\ HeaderStart(sector_free_offset[s]) <= CodeStart(sector_free_offset[s])
    BY <2>1, RoundUp
  <2>3. CodeStart(sector_free_offset[s]) + size \in Nat BY <2>2
  <2>4. /\ sector_free_offset' \in [Sector -> Nat]
        /\ sector_free_offset'[s] = CodeStart(sector_free_offset[s]) + size
    BY <1>1, <2>3 DEF Opened, RoomInv
  <2>5. flash_code_address' \in Nat /\ flash_code_address' <= sector_free_offset'[s]
    BY <1>1, <2>2, <2>4 DEF Opened
  <2> QED BY <1>0, <1>1, <2>4, <2>5 DEF Opened, RoomInv
<1>2. CASE ScanNext
  <2>1. PICK p \in NextEntries : Open(p, MaxBlock) BY <1>2 DEF ScanNext
  <2>2. PICK s \in Sector : Opened(s, MaxBlock) BY <1>0, <2>1, OpenFinds
  <2> QED BY <1>0, <1>1, <1>2, <2>2 DEF ScanNext
<1>3. CASE ReopenBlock
  <2>1. Listed.len \in Nat BY <1>3, ReplayOpens DEF Entry
  <2>2. PICK s \in Sector : Opened(s, Listed.len)
    BY <1>3, <2>1, OpenFinds DEF ReopenBlock
  <2> QED BY <1>1, <1>3, <2>1, <2>2 DEF ReopenBlock
<1>4. CASE CompileInstruction
  <2>1. stage = "loop" /\ stage # "between" BY <1>4, LoopTurn
  <2> QED BY <1>4, <2>1, TurnAllocatesNothing, CodeFits DEF RoomInv
<1>5. CASE UndoBlock
  <2>1. stage' = "between" /\ stage # "between" /\ next_free_sector' = pre_alloc_next_free
    BY <1>5 DEF UndoBlock
  <2>2. sector_free_offset' \in [Sector -> Nat]
    BY <1>5, <2>1 DEF UndoBlock, RoomInv
  <2> QED BY <1>5, <2>1, <2>2 DEF UndoBlock, RoomInv, blockVars, loopVars
<1>6. CASE ListBlock
  <2> DEFINE e == [entry |-> entry_pc, exit |-> pc, len |-> MeasuredLen]
             n == Len(entry_list)
  <2>1. /\ entry_list' = Append(entry_list, e) /\ e.len <= MaxBlock /\ n \in Nat
    BY <1>6, LayoutAssumption DEF ListBlock, TypeInv, RoomInv, MeasuredLen, MaxBlock
  <2>2. \A i \in 1..Len(entry_list') : entry_list'[i].len <= MaxBlock
    <3>1. /\ Len(entry_list') = n + 1 /\ entry_list'[n + 1] = e
          /\ \A i \in 1..n : entry_list'[i] = entry_list[i]
      BY <2>1 DEF TypeInv
    <3>2. \A i \in 1..(n + 1) : i \in 1..n \/ i = n + 1 BY <2>1
    <3> QED BY <2>1, <3>1, <3>2 DEF RoomInv
  <2>3. stage' = "between" BY <1>6 DEF ListBlock
  <2> QED BY <1>6, <2>2, <2>3 DEF ListBlock, RoomInv, allocVars, blockVars, loopVars
<1>7. CASE StartPass2
  BY <1>0, <1>7 DEF StartPass2, ResetOffsets, RoomInv, blockVars, loopVars
<1>8. CASE WriteBlock
  BY <1>8 DEF WriteBlock, RoomInv, allocVars, blockVars, loopVars
<1>9. CASE Finish
  BY <1>9 DEF Finish, RoomInv, allocVars, loopVars
<1>10. CASE UNCHANGED vars
  BY <1>10 DEF vars, RoomInv, allocVars, blockVars, loopVars
<1> QED
  BY <1>2, <1>3, <1>4, <1>5, <1>6, <1>7, <1>8, <1>9, <1>10 DEF Next, Done

(* Places of the grid *)

LEMMA BehindTakes ==
  ASSUME NEW s, NEW k \in Nat, Behind(s, k), NEW i \in Nat
  PROVE  Grid(i) < CodeStart(sector_free_offset[s]) <=> i < k
BY GridOrder DEF Behind

(* What pass 1 has allocated are places of the grid.                        *)
LEMMA TakenOnGrid ==
  ASSUME \A s \in Sector : \E k \in Nat : Behind(s, k)
  PROVE  /\ Taken \subseteq Places /\ IsFiniteSet(Taken)
         /\ Cardinality(Taken) \in Nat /\ Cardinality(Taken) <= Cardinality(Places)
<1>1. ASSUME NEW x \in Taken PROVE x \in Places
  <2>1. x[1] \in Sector /\ x[2] \in Nat /\ Grid(x[2]) < CodeStart(sector_free_offset[x[1]])
    BY DEF Taken
  <2>2. PICK k \in Nat : Behind(x[1], k) BY <2>1
  <2>3. x[2] < k BY <2>1, <2>2, BehindTakes
  <2>4. k - 1 \in Nat /\ Grid(k - 1) + MaxBlock <= Lim BY <2>1, <2>2, <2>3 DEF Behind
  <2>5. Grid(x[2]) <= Grid(k - 1) BY <2>1, <2>3, <2>4, GridOrder
  <2>6. Grid(x[2]) + MaxBlock <= Lim
    <3>1. Grid(x[2]) \in Nat /\ Grid(k - 1) \in Nat /\ MaxBlock \in Nat
      BY <2>1, <2>4, GridSteps
    <3>2. Lim \in Nat BY LayoutAssumption DEF Lim
    <3> HIDE DEF Grid, MaxBlock, Lim
    <3> QED BY <2>4, <2>5, <3>1, <3>2
  <2> QED BY <2>6 DEF Places, Taken
<1>2. Taken \in SUBSET Places BY <1>1
<1> QED BY <1>2, PlacesFinite, FS_Subset, FS_CardinalityType

(* A block of maximal size that is opened behind a place of the grid takes  *)
(* the next one.                                                            *)
LEMMA OpenTakesNext ==
  ASSUME RoomInv, NEW s \in Sector, Opened(s, MaxBlock), NEW k \in Nat, Behind(s, k)
  PROVE  /\ InPlace(k)' /\ Behind(s, k + 1)'
         /\ Taken' = Taken \cup {<<s, k>>} /\ <<s, k>> \notin Taken
<1> DEFINE cur == sector_free_offset[s]
<1>1. cur \in Nat /\ MaxBlock \in Nat BY GridSteps DEF RoomInv
<1>2. CodeStart(cur) = Grid(k) /\ Grid(k) + MaxBlock <= Lim
  BY DEF Behind, Opened
<1>3. CodeStart(flash_code_address') = Grid(k)
  BY <1>1, <1>2, RoundUp DEF Opened
<1>4. sector_free_offset'[s] = CodeStart(cur) + MaxBlock
  BY DEF Opened, RoomInv
<1>5. CodeStart(sector_free_offset'[s]) = Grid(k + 1)
  <2>1. CodeStart(CodeStart(cur) + MaxBlock) = CodeStart(cur) + Stride
    BY <1>1, RoundUpAdds DEF Stride
  <2>2. Grid(k + 1) = Grid(k) + Stride BY GridSteps
  <2> QED BY <1>2, <1>4, <2>1, <2>2
<1>6. InPlace(k)' BY <1>2, <1>3, <1>5 DEF InPlace, Opened, Grid, Stride
<1>7. Behind(s, k + 1)'
  <2>1. (k + 1) - 1 = k OBVIOUS
  <2> QED BY <1>2, <1>5, <2>1 DEF Behind, Grid, Stride
<1>8. ASSUME NEW x \in Sector \X Nat
      PROVE  Grid(x[2]) < CodeStart(sector_free_offset'[x[1]]) <=>
               Grid(x[2]) < CodeStart(sector_free_offset[x[1]]) \/ x = <<s, k>>
  <2>1. CASE x[1] # s
    BY <2>1 DEF Opened, RoomInv
  <2>2. CASE x[1] = s
    <3>1. x[2] \in Nat /\ x = <<x[1], x[2]>> OBVIOUS
    <3>2. Grid(x[2]) < CodeStart(sector_free_offset[s]) <=> x[2] < k
      BY <3>1, BehindTakes
    <3>3. Grid(x[2]) < Grid(k + 1) <=> x[2] < k + 1
      <4>1. k + 1 \in Nat OBVIOUS
      <4> QED BY <3>1, <4>1, GridOrder
    <3> QED BY <1>5, <2>2, <3>1, <3>2, <3>3
  <2> QED BY <2>1, <2>2
<1>9. <<s, k>> \notin Taken
  <2>1. ~(k < k) OBVIOUS
  <2> QED BY <2>1, BehindTakes DEF Taken
<1>10. Taken' = Taken \cup {<<s, k>>}
  BY <1>8 DEF Taken, Grid, Stride
<1> QED BY <1>6, <1>7, <1>9, <1>10

(* A block that is no larger than that reaches into one more place at most. *)
LEMMA OpenTakesOne ==
  ASSUME RoomInv, NEW s \in Sector, NEW size \in Nat, size <= MaxBlock,
         Opened(s, size), IsFiniteSet(Taken)
  PROVE  /\ IsFiniteSet(Taken')
         /\ Cardinality(Taken) \in Nat /\ Cardinality(Taken') \in Nat
         /\ Cardinality(Taken') <= Cardinality(Taken) + 1
<1> DEFINE c == CodeStart(sector_free_offset[s])
<1>1. /\ sector_free_offset[s] \in Nat /\ c \in Nat /\ Stride \in Nat
      /\ CodeStart(size) \in Nat /\ CodeStart(size) <= Stride
  BY RoundUp, RoundUpMonotone, GridSteps DEF RoomInv, Stride
<1>2. CodeStart(sector_free_offset'[s]) <= c + Stride
  <2>1. sector_free_offset'[s] = c + size BY DEF Opened, RoomInv
  <2>2. CodeStart(c + size) = c + CodeStart(size) BY <1>1, RoundUpAdds
  <2> HIDE DEF c
  <2> QED BY <1>1, <2>1, <2>2
<1>3. CodeStart(sector_free_offset'[s]) \in Nat
  <2>1. sector_free_offset'[s] \in Nat BY <1>1 DEF Opened, RoomInv
  <2> QED BY <2>1, RoundUp
<1>4. ASSUME NEW x \in Taken', x \notin Taken
      PROVE  /\ x = <<s, x[2]>> /\ x[2] \in Nat
             /\ c <= Grid(x[2]) /\ Grid(x[2]) < c + Stride
  <2>1. x \in Sector \X Nat /\ Grid(x[2]) < CodeStart(sector_free_offset'[x[1]])
    BY <1>4 DEF Taken, Grid, Stride
  <2>2. ~(Grid(x[2]) < CodeStart(sector_free_offset[x[1]])) BY <1>4, <2>1 DEF Taken
  <2>3. x[1] = s BY <2>1, <2>2 DEF Opened, RoomInv
  <2>4. Grid(x[2]) \in Nat BY <2>1, GridSteps
  <2>5. c <= Grid(x[2]) /\ Grid(x[2]) < c + Stride
    BY <1>1, <1>2, <1>3, <2>1, <2>2, <2>3, <2>4
  <2> QED BY <2>1, <2>3, <2>5
<1>5. ASSUME NEW x \in Taken', x \notin Taken, NEW y \in Taken', y \notin Taken
      PROVE  x = y
  <2>1. /\ x = <<s, x[2]>> /\ x[2] \in Nat /\ c <= Grid(x[2]) /\ Grid(x[2]) < c + Stride
        /\ y = <<s, y[2]>> /\ y[2] \in Nat /\ c <= Grid(y[2]) /\ Grid(y[2]) < c + Stride
    BY <1>4, <1>5
  <2>2. /\ Grid(x[2]) \in Nat /\ Grid(y[2]) \in Nat
        /\ x[2] < y[2] => Grid(x[2]) + Stride <= Grid(y[2])
        /\ y[2] < x[2] => Grid(y[2]) + Stride <= Grid(x[2])
    BY <2>1, GridSteps
  <2>3. x[2] = y[2]
    <3> HIDE DEF c, Grid, Stride
    <3> QED BY <1>1, <2>1, <2>2
  <2> QED BY <2>1, <2>3
<1>6. \E x : Taken' \subseteq Taken \cup {x}
  <2>1. CASE \E x \in Taken' : x \notin Taken
    <3>1. PICK x \in Taken' : x \notin Taken BY <2>1
    <3>2. \A y \in Taken' : y \notin Taken => y = x BY <1>5, <3>1
    <3>3. Taken' \subseteq Taken \cup {x} BY <3>2
    <3> QED BY <3>3
  <2>2. CASE Taken' \subseteq Taken BY <2>2
  <2> QED BY <2>1, <2>2
<1>7. PICK x : Taken' \subseteq Taken \cup {x} BY <1>6
<1>8. /\ IsFiniteSet(Taken \cup {x}) /\ Cardinality(Taken) \in Nat
      /\ Cardinality(Taken \cup {x}) <= Cardinality(Taken) + 1
  <2>1. Cardinality(Taken) \in Nat BY FS_CardinalityType
  <2>2. /\ IsFiniteSet(Taken \cup {x})
        /\ Cardinality(Taken \cup {x}) =
             IF x \in Taken THEN Cardinality(Taken) ELSE Cardinality(Taken) + 1
    BY FS_AddElement
  <2> HIDE DEF Taken
  <2> QED BY <2>1, <2>2
<1>9. Taken' \in SUBSET (Taken \cup {x}) BY <1>7
<1>10. /\ IsFiniteSet(Taken') /\ Cardinality(Taken') <= Cardinality(Taken \cup {x})
  BY <1>8, <1>9, FS_Subset
<1>11. Cardinality(Taken \cup {x}) \in Nat /\ Cardinality(Taken') \in Nat
  BY <1>8, <1>10, FS_CardinalityType
<1> QED BY <1>8, <1>10, <1>11

(* A block that is given back leaves the places as they were, or fewer.     *)
LEMMA UndoFrees ==
  ASSUME RoomInv, UndoBlock PROVE Taken' \subseteq Taken
<1> DEFINE s == flash_code_sector
<1>1. /\ s \in Sector /\ flash_code_address \in Nat /\ sector_free_offset[s] \in Nat
      /\ flash_code_address <= sector_free_offset[s]
      /\ sector_free_offset' = [sector_free_offset EXCEPT ![s] = flash_code_address]
  BY DEF RoomInv, UndoBlock
<1>2. /\ CodeStart(flash_code_address) <= CodeStart(sector_free_offset[s])
      /\ CodeStart(flash_code_address) \in Nat /\ CodeStart(sector_free_offset[s]) \in Nat
  BY <1>1, RoundUp, RoundUpMonotone
<1> SUFFICES ASSUME NEW x \in Taken' PROVE x \in Taken OBVIOUS
<1>3. /\ x \in Sector \X Nat /\ x[1] \in Sector
      /\ Grid(x[2]) < CodeStart(sector_free_offset'[x[1]])
  BY DEF Taken, Grid, Stride
<1>4. Grid(x[2]) \in Nat BY <1>3, GridSteps
<1>5. CASE x[1] = s
  <2>1. sector_free_offset'[s] = flash_code_address BY <1>1 DEF RoomInv
  <2>2. Grid(x[2]) < CodeStart(sector_free_offset[s])
    <3>1. Grid(x[2]) < CodeStart(flash_code_address) BY <1>3, <1>5, <2>1
    <3> HIDE DEF Grid, s
    <3> QED BY <1>2, <1>4, <3>1
  <2> QED BY <1>3, <1>5, <2>2 DEF Taken
<1>6. CASE x[1] # s
  <2>1. sector_free_offset'[x[1]] = sector_free_offset[x[1]]
    BY <1>1, <1>3, <1>6 DEF RoomInv
  <2> QED BY <1>3, <2>1 DEF Taken
<1> QED BY <1>5, <1>6

(* Pass 1 fills the grid (static_analysis.c:1698-1760).                     *)
LEMMA StepGrid ==
  ASSUME NoRomReads, TypeInv, RoomInv, GridInv, [Next]_vars PROVE GridInv'
<1>1. CASE ScanNext
  <2>1. /\ pass = 0 /\ stage = "between" /\ pass' = pass /\ entry_list' = entry_list
    BY <1>1 DEF ScanNext
  <2>2. PICK p \in NextEntries : Open(p, MaxBlock) BY <1>1 DEF ScanNext
  <2>3. PICK s \in Sector : Opened(s, MaxBlock) BY <2>2, OpenFinds, GridSteps
  <2>4. PICK k \in Nat : Behind(s, k) BY <2>1 DEF GridInv
  <2>5. /\ InPlace(k)' /\ Behind(s, k + 1)'
        /\ Taken' = Taken \cup {<<s, k>>} /\ <<s, k>> \notin Taken
    BY <2>3, <2>4, OpenTakesNext
  <2>6. ASSUME NEW r \in Sector PROVE \E j \in Nat : Behind(r, j)'
    <3>1. CASE r = s BY <2>4, <2>5, <3>1
    <3>2. CASE r # s
      <4>1. sector_free_offset'[r] = sector_free_offset[r]
        BY <2>3, <3>2 DEF Opened, RoomInv
      <4>2. PICK j \in Nat : Behind(r, j) BY <2>1 DEF GridInv
      <4>3. Behind(r, j)' BY <4>1, <4>2 DEF Behind, Grid, Stride
      <4> QED BY <4>3
    <3> QED BY <3>1, <3>2
  <2>7. Len(entry_list') + InHand' <= Cardinality(Taken')
    <3>1. IsFiniteSet(Taken) /\ Cardinality(Taken) \in Nat
      BY <2>1, TakenOnGrid DEF GridInv
    <3>2. Cardinality(Taken') = Cardinality(Taken) + 1
      BY <2>5, <3>1, FS_AddElement
    <3>3. InHand = 0 /\ InHand' = 1 BY <2>1, <2>3 DEF InHand, Opened
    <3>4. Len(entry_list) + InHand <= Cardinality(Taken) /\ Len(entry_list) \in Nat
      BY <2>1 DEF GridInv, TypeInv
    <3> HIDE DEF Taken, InHand
    <3> QED BY <2>1, <3>1, <3>2, <3>3, <3>4
  <2> QED BY <2>4, <2>5, <2>6, <2>7 DEF GridInv
<1>2. CASE CompileInstruction
  <2>1. stage # "between" /\ stage' # "between" BY <1>2, LoopTurn
  <2>2. UNCHANGED <<sector_free_offset, flash_code_sector, flash_code_address,
                    entry_list, pass>>
    BY <1>2, TurnAllocatesNothing
  <2>3. Taken' = Taken /\ InHand' = InHand
    BY <2>1, <2>2 DEF Taken, InHand, Grid, Stride
  <2>4. \A s, k : Behind(s, k)' = Behind(s, k) /\ InPlace(k)' = InPlace(k)
    BY <2>2 DEF Behind, InPlace, Grid, Stride
  <2> QED BY <2>1, <2>2, <2>3, <2>4 DEF GridInv
<1>3. CASE UndoBlock
  <2> SUFFICES ASSUME pass = 0 PROVE GridInv' BY <1>3 DEF UndoBlock, GridInv
  <2> DEFINE s == flash_code_sector
  <2>1. /\ stage = "end" /\ stage' = "between" /\ entry_list' = entry_list /\ s \in Sector
        /\ sector_free_offset' = [sector_free_offset EXCEPT ![s] = flash_code_address]
    BY <1>3 DEF UndoBlock, RoomInv
  <2>2. PICK k \in Nat : InPlace(k) BY <2>1 DEF GridInv
  <2>3. Behind(s, k)'
    <3>1. sector_free_offset'[s] = flash_code_address BY <2>1 DEF RoomInv
    <3>2. ASSUME k > 0 PROVE Grid(k - 1) + MaxBlock <= Lim
      <4>1. k - 1 \in Nat /\ k - 1 <= k BY <3>2
      <4>2. Grid(k - 1) <= Grid(k) BY <4>1, GridOrder
      <4>3. Grid(k - 1) \in Nat /\ Grid(k) \in Nat /\ MaxBlock \in Nat /\ Lim \in Nat
        BY <4>1, GridSteps, LayoutAssumption DEF Lim
      <4>4. Grid(k) + MaxBlock <= Lim BY <2>2 DEF InPlace
      <4> HIDE DEF Grid, MaxBlock, Lim
      <4> QED BY <4>2, <4>3, <4>4
    <3>3. CodeStart(sector_free_offset'[s]) = Grid(k) BY <2>2, <3>1 DEF InPlace
    <3>4. s' = s BY <1>3 DEF UndoBlock, blockVars
    <3> QED BY <3>2, <3>3, <3>4 DEF Behind, Grid, Stride
  <2>4. ASSUME NEW r \in Sector PROVE \E j \in Nat : Behind(r, j)'
    <3>1. CASE r = s
      <4>1. s' = s BY <1>3 DEF UndoBlock, blockVars
      <4> QED BY <2>3, <3>1, <4>1
    <3>2. CASE r # s
      <4>1. sector_free_offset'[r] = sector_free_offset[r] BY <2>1, <3>2 DEF RoomInv
      <4>2. PICK j \in Nat : Behind(r, j) BY DEF GridInv
      <4>3. Behind(r, j)' BY <4>1, <4>2 DEF Behind, Grid, Stride
      <4> QED BY <4>3
    <3> QED BY <3>1, <3>2
  <2>5. Taken \subseteq Taken' \cup {<<s, k>>}
    <3> SUFFICES ASSUME NEW x \in Taken, x # <<s, k>> PROVE x \in Taken' OBVIOUS
    <3>1. /\ x \in Sector \X Nat /\ x[1] \in Sector /\ x[2] \in Nat
          /\ Grid(x[2]) < CodeStart(sector_free_offset[x[1]])
      BY DEF Taken
    <3>2. CASE x[1] # s
      <4>1. sector_free_offset'[x[1]] = sector_free_offset[x[1]]
        BY <2>1, <3>1, <3>2 DEF RoomInv
      <4> QED BY <3>1, <4>1 DEF Taken, Grid, Stride
    <3>3. CASE x[1] = s
      <4>1. x[2] # k BY <3>1, <3>3
      <4>2. Grid(x[2]) < Grid(k + 1) BY <2>2, <3>1, <3>3 DEF InPlace
      <4>3. x[2] < k + 1
        <5>1. k + 1 \in Nat OBVIOUS
        <5> QED BY <3>1, <4>2, <5>1, GridOrder
      <4>4. x[2] < k BY <3>1, <4>1, <4>3
      <4>5. Grid(x[2]) < Grid(k) BY <3>1, <4>4, GridOrder
      <4>6. CodeStart(sector_free_offset'[s]) = Grid(k)
        BY <2>1, <2>2 DEF InPlace, RoomInv
      <4> QED BY <3>1, <3>3, <4>5, <4>6 DEF Taken, Grid, Stride
    <3> QED BY <3>2, <3>3
  <2>6. Len(entry_list') + InHand' <= Cardinality(Taken')
    <3>1. IsFiniteSet(Taken) /\ Cardinality(Taken) \in Nat
      BY TakenOnGrid DEF GridInv
    <3>2. Taken' \in SUBSET Taken BY <1>3, UndoFrees
    <3>3. IsFiniteSet(Taken') /\ Cardinality(Taken') \in Nat
      BY <3>1, <3>2, FS_Subset, FS_CardinalityType
    <3>4. /\ IsFiniteSet(Taken' \cup {<<s, k>>})
          /\ Cardinality(Taken' \cup {<<s, k>>}) =
               IF <<s, k>> \in Taken' THEN Cardinality(Taken') ELSE Cardinality(Taken') + 1
      BY <3>3, FS_AddElement
    <3>5. Taken \in SUBSET (Taken' \cup {<<s, k>>}) BY <2>5
    <3>6. Cardinality(Taken) <= Cardinality(Taken' \cup {<<s, k>>})
      BY <3>4, <3>5, FS_Subset
    <3>7. InHand = 1 /\ InHand' = 0 BY <2>1 DEF InHand
    <3>8. Len(entry_list) + InHand <= Cardinality(Taken) /\ Len(entry_list) \in Nat
      BY DEF GridInv, TypeInv
    <3> HIDE DEF Taken, InHand
    <3> QED BY <2>1, <3>1, <3>3, <3>4, <3>6, <3>7, <3>8
  <2> QED BY <2>1, <2>4, <2>6 DEF GridInv
<1>4. CASE ListBlock
  <2>1. /\ pass = 0 /\ pass' = pass /\ stage = "end" /\ stage' = "between"
        /\ UNCHANGED allocVars
        /\ Len(entry_list) \in Nat /\ Len(entry_list') = Len(entry_list) + 1
    BY <1>4 DEF ListBlock, TypeInv
  <2>2. Taken' = Taken BY <2>1 DEF Taken, allocVars, Grid, Stride
  <2>3. \A s, k : Behind(s, k)' = Behind(s, k)
    BY <2>1 DEF Behind, allocVars, Grid, Stride
  <2>4. InHand = 1 /\ InHand' = 0 BY <2>1 DEF InHand
  <2>5. Len(entry_list') + InHand' <= Cardinality(Taken')
    BY <2>1, <2>2, <2>4 DEF GridInv
  <2> QED BY <2>1, <2>3, <2>5 DEF GridInv
<1>5. CASE StartPass2 \/ ReopenBlock \/ WriteBlock \/ Finish
  BY <1>5 DEF StartPass2, ReopenBlock, WriteBlock, Finish, GridInv
<1>6. CASE UNCHANGED vars
  <2>1. UNCHANGED <<sector_free_offset, flash_code_sector, flash_code_address,
                    entry_list, pass, stage>>
    BY <1>6 DEF vars, allocVars, blockVars
  <2>2. Taken' = Taken /\ InHand' = InHand
    BY <2>1 DEF Taken, InHand, Grid, Stride
  <2>3. \A s, k : Behind(s, k)' = Behind(s, k) /\ InPlace(k)' = InPlace(k)
    BY <2>1 DEF Behind, InPlace, Grid, Stride
  <2> QED BY <2>1, <2>2, <2>3 DEF GridInv
<1> QED BY <1>1, <1>2, <1>3, <1>4, <1>5, <1>6 DEF Next, Done

(* While there is an entry left to compile there is room for it: fewer      *)
(* entries have been worked off than there are places, and a place that is  *)
(* untouched lies behind the free offset of its sector                      *)
(* (static_analysis.c:1762-1790).                                           *)
LEMMA RoomWhileMore ==
  ASSUME TypeInv, RoomInv, PlacesInv, pass = 2, stage = "between", More
  PROVE  RoomFor(Listed.len) # {}
<1>1. /\ cursor \in Nat /\ cursor >= 1 /\ Len(entry_list) \in Nat
      /\ cursor <= Len(entry_list) /\ InHand = 0
  BY DEF TypeInv, More, InHand
<1>2. cursor \in 1..Len(entry_list) BY <1>1
<1>3. Listed \in Entry /\ Listed.len \in Nat /\ Listed.len <= MaxBlock
  <2>1. Listed \in Entry BY <1>2 DEF Listed, TypeInv
  <2>2. Listed.len <= MaxBlock BY <1>2 DEF Listed, RoomInv
  <2> QED BY <2>1, <2>2 DEF Entry
<1>4. /\ IsFiniteSet(Taken) /\ Cardinality(Taken) \in Nat
      /\ Cardinality(Taken) < Cardinality(Places)
  <2>1. /\ IsFiniteSet(Taken) /\ Cardinality(Taken) + 1 <= cursor + InHand
        /\ Len(entry_list) <= Cardinality(Places)
    BY DEF PlacesInv
  <2>2. Cardinality(Taken) \in Nat /\ Cardinality(Places) \in Nat
    BY <2>1, FS_CardinalityType, PlacesFinite
  <2> HIDE DEF Taken, Places, InHand
  <2> QED BY <1>1, <2>1, <2>2
<1>5. PICK x \in Places : x \notin Taken
  <2> SUFFICES ASSUME Places \subseteq Taken PROVE FALSE OBVIOUS
  <2>1. Places \in SUBSET Taken OBVIOUS
  <2>2. Cardinality(Places) <= Cardinality(Taken) BY <1>4, <2>1, FS_Subset
  <2>3. Cardinality(Places) \in Nat BY PlacesFinite
  <2> HIDE DEF Taken, Places
  <2> QED BY <1>4, <2>2, <2>3
<1> DEFINE s == x[1]
           c == CodeStart(sector_free_offset[s])
<1>6. /\ x \in Sector \X Nat /\ s \in Sector /\ x[2] \in Nat
      /\ Grid(x[2]) + MaxBlock <= Lim
  BY <1>5 DEF Places
<1>7. ~(Grid(x[2]) < c) BY <1>5, <1>6 DEF Taken
<1>8. c \in Nat /\ Grid(x[2]) \in Nat /\ MaxBlock \in Nat /\ Lim \in Nat
  <2>1. c \in Nat BY <1>6, RoundUp DEF RoomInv
  <2>2. Lim \in Nat BY LayoutAssumption DEF Lim
  <2> QED BY <1>6, <2>1, <2>2, GridSteps
<1>9. c + Listed.len <= Lim
  <2> HIDE DEF c, Grid, MaxBlock, Lim
  <2> QED BY <1>3, <1>6, <1>7, <1>8
<1>10. Fits(sector_free_offset[s], Listed.len) BY <1>9 DEF Fits, AllocEnd, Lim
<1> QED BY <1>6, <1>10 DEF RoomFor

(* The list never grows beyond the places there are, and pass 2 takes no    *)
(* more of them than it has entries behind it                               *)
(* (static_analysis.c:1698-1815).                                           *)
LEMMA StepPlaces ==
  ASSUME NoRomReads, TypeInv, RoomInv, GridInv, PlacesInv, [Next]_vars
  PROVE  PlacesInv'
<1>0. Places' = Places BY DEF Places, Sector, Grid, Stride, Lim
<1>1. CASE ScanNext
  BY <1>0, <1>1 DEF ScanNext, PlacesInv
<1>2. CASE CompileInstruction
  <2>1. stage # "between" /\ stage' # "between" BY <1>2, LoopTurn
  <2>2. UNCHANGED <<sector_free_offset, entry_list, pass, cursor>>
    BY <1>2, TurnAllocatesNothing
  <2>3. Taken' = Taken /\ InHand' = InHand
    BY <2>1, <2>2 DEF Taken, InHand, Grid, Stride
  <2> QED BY <1>0, <2>2, <2>3 DEF PlacesInv
<1>3. CASE UndoBlock
  <2>1. /\ pass' = pass /\ entry_list' = entry_list /\ cursor' = cursor + 1
        /\ stage = "end" /\ stage' = "between" /\ cursor \in Nat
    BY <1>3 DEF UndoBlock, TypeInv
  <2>2. InHand = 1 /\ InHand' = 0 BY <2>1 DEF InHand
  <2>3. pass # 3 BY <2>1 DEF TypeInv
  <2>4. ASSUME pass = 2
        PROVE  IsFiniteSet(Taken') /\ Cardinality(Taken') + 1 <= cursor' + InHand'
    <3>1. IsFiniteSet(Taken) /\ Cardinality(Taken) + 1 <= cursor + InHand
      BY <2>4 DEF PlacesInv
    <3>2. Taken' \in SUBSET Taken BY <1>3, UndoFrees
    <3>3. IsFiniteSet(Taken') /\ Cardinality(Taken') <= Cardinality(Taken)
      BY <3>1, <3>2, FS_Subset
    <3>4. Cardinality(Taken) \in Nat /\ Cardinality(Taken') \in Nat
      BY <3>1, <3>3, FS_CardinalityType
    <3> HIDE DEF Taken, InHand
    <3> QED BY <2>1, <2>2, <3>1, <3>3, <3>4
  <2> QED BY <1>0, <2>1, <2>3, <2>4 DEF PlacesInv
<1>4. CASE ListBlock
  <2>1. /\ pass = 0 /\ pass' = 0 /\ stage = "end" /\ Len(entry_list) \in Nat
        /\ Len(entry_list') = Len(entry_list) + 1
    BY <1>4 DEF ListBlock, TypeInv
  <2>2. Len(entry_list) + InHand <= Cardinality(Taken) /\ InHand = 1
    BY <2>1 DEF GridInv, InHand
  <2>3. Cardinality(Taken) \in Nat /\ Cardinality(Taken) <= Cardinality(Places)
    BY <2>1, TakenOnGrid DEF GridInv
  <2>4. Len(entry_list') <= Cardinality(Places)
    <3>1. Cardinality(Places) \in Nat BY PlacesFinite
    <3> HIDE DEF Taken, Places, InHand
    <3> QED BY <2>1, <2>2, <2>3, <3>1
  <2> QED BY <1>0, <2>1, <2>4 DEF PlacesInv
<1>5. CASE StartPass2
  <2>1. /\ pass' = 2 /\ cursor' = 1 /\ stage' = "between" /\ entry_list' = entry_list
        /\ sector_free_offset' = [s \in Sector |-> 0]
    BY <1>5 DEF StartPass2, ResetOffsets
  <2>2. Taken' = {}
    <3> SUFFICES ASSUME NEW x \in Taken' PROVE FALSE OBVIOUS
    <3>1. x \in Sector \X Nat /\ Grid(x[2]) < CodeStart(sector_free_offset'[x[1]])
      BY DEF Taken, Grid, Stride
    <3>2. sector_free_offset'[x[1]] = 0 BY <2>1, <3>1
    <3>3. Grid(x[2]) < Grid(0) /\ x[2] \in Nat BY <3>1, <3>2, GridSteps
    <3>4. x[2] < 0
      <4>1. 0 \in Nat OBVIOUS
      <4> QED BY <3>3, <4>1, GridOrder
    <3> QED BY <3>1, <3>4
  <2>3. IsFiniteSet(Taken') /\ Cardinality(Taken') = 0 BY <2>2, FS_EmptySet
  <2>4. InHand' = 0 BY <2>1 DEF InHand
  <2> QED BY <1>0, <2>1, <2>3, <2>4 DEF PlacesInv
<1>6. CASE ReopenBlock
  <2>1. /\ pass = 2 /\ pass' = 2 /\ cursor' = cursor /\ entry_list' = entry_list
        /\ stage = "between" /\ cursor \in Nat
    BY <1>6 DEF ReopenBlock, TypeInv
  <2>2. cursor \in 1..Len(entry_list) /\ Listed \in Entry BY <1>6, ReplayOpens
  <2>3. Listed.len \in Nat /\ Listed.len <= MaxBlock
    BY <2>2 DEF Entry, Listed, RoomInv
  <2>4. PICK s \in Sector : Opened(s, Listed.len)
    BY <1>6, <2>3, OpenFinds DEF ReopenBlock
  <2>5. InHand = 0 /\ InHand' = 1 BY <2>1, <2>4 DEF InHand, Opened
  <2>6. IsFiniteSet(Taken) /\ Cardinality(Taken) + 1 <= cursor + InHand
    BY <2>1 DEF PlacesInv
  <2>7. /\ IsFiniteSet(Taken') /\ Cardinality(Taken) \in Nat
        /\ Cardinality(Taken') \in Nat /\ Cardinality(Taken') <= Cardinality(Taken) + 1
    BY <2>3, <2>4, <2>6, OpenTakesOne
  <2>8. Cardinality(Taken') + 1 <= cursor' + InHand'
    <3> HIDE DEF Taken, InHand
    <3> QED BY <2>1, <2>5, <2>6, <2>7
  <2> QED BY <1>0, <2>1, <2>7, <2>8 DEF PlacesInv
<1>7. CASE WriteBlock
  <2>1. /\ pass = 2 /\ pass' = 2 /\ cursor' = cursor + 1 /\ entry_list' = entry_list
        /\ stage = "end" /\ stage' = "between" /\ cursor \in Nat
        /\ sector_free_offset' = sector_free_offset
    BY <1>7 DEF WriteBlock, allocVars, TypeInv
  <2>2. Taken' = Taken BY <2>1 DEF Taken, Grid, Stride
  <2>3. cursor + InHand = cursor' + InHand' BY <2>1 DEF InHand
  <2> QED BY <1>0, <2>1, <2>2, <2>3 DEF PlacesInv
<1>8. CASE Finish
  <2>1. /\ pass = 2 /\ pass' = 3 /\ cursor' = cursor /\ entry_list' = entry_list
        /\ stage = "between" /\ (More => RoomFor(Listed.len) = {})
    BY <1>8 DEF Finish
  <2>2. ~More BY <2>1, RoomWhileMore
  <2>3. cursor > Len(entry_list) BY <2>2 DEF More, TypeInv
  <2> QED BY <1>0, <2>1, <2>3 DEF PlacesInv
<1>9. CASE UNCHANGED vars
  <2>1. UNCHANGED <<sector_free_offset, stage, cursor, pass, entry_list>>
    BY <1>9 DEF vars, allocVars
  <2>2. Taken' = Taken /\ InHand' = InHand
    BY <2>1 DEF Taken, InHand, Grid, Stride
  <2> QED BY <1>0, <2>1, <2>2 DEF PlacesInv
<1> QED
  BY <1>1, <1>2, <1>3, <1>4, <1>5, <1>6, <1>7, <1>8, <1>9 DEF Next, Done

(* For every guest program on a platform without data copies (all but the   *)
(* NES), every sector size and number of sectors: pass 2 finds room for     *)
(* whatever pass 1 has listed, and works the list off to its end            *)
(* (static_analysis.c:1657-1815).                                           *)
THEOREM ListWorkedOff == NoRomReads /\ Spec => []Pass2HasRoom
<1> SUFFICES ASSUME NoRomReads PROVE Spec => []Pass2HasRoom OBVIOUS
<1> DEFINE Inv == TypeInv /\ RoomInv /\ GridInv /\ PlacesInv
<1>1. Init => Inv
  <2> SUFFICES ASSUME Init PROVE Inv OBVIOUS
  <2>1. TypeInv BY InitTypes
  <2>2. 0 \in Sector /\ CodeSize \in Nat /\ Len(entry_list) = 0
    BY StaticAssumption, LayoutAssumption DEF Sector, Init
  <2>3. RoomInv BY <2>2, LayoutAssumption DEF Init, RoomInv
  <2>4. \A s \in Sector : Behind(s, 0)
    BY GridSteps DEF Init, Behind
  <2>5. Cardinality(Taken) \in Nat BY <2>4, TakenOnGrid
  <2>6. GridInv BY <2>2, <2>4, <2>5 DEF Init, GridInv, InHand
  <2>7. PlacesInv BY <2>2, PlacesFinite DEF Init, PlacesInv
  <2> QED BY <2>1, <2>3, <2>6, <2>7
<1>2. Inv /\ [Next]_vars => Inv'
  BY StepTypes, StepRoom, StepGrid, StepPlaces
<1>3. Inv => Pass2HasRoom
  BY DEF PlacesInv, Pass2HasRoom
<1> QED BY <1>1, <1>2, <1>3, PTL DEF Spec
=============================================================================
