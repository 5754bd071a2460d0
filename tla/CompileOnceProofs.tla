------------------------- MODULE CompileOnceProofs -------------------------
(***************************************************************************)
(* Proofs about FlashCache: no PC-table entry is programmed twice, and no  *)
(* PC is the entry of two translations, for every guest program, number of *)
(* sectors and sector geometry.                                            *)
(*                                                                         *)
(* NoDuplicateBlocks is not inductive: run_6502 asks the flag of the entry *)
(* before it compiles and sets it long after, once the block is in flash.  *)
(* OnceInv says that nothing the compile does in between, the marks for    *)
(* the interpreter included, takes the entry's slot away or leaves the     *)
(* entry out of the list of PCs to publish.                                *)
(***************************************************************************)
EXTENDS FlashCacheProofs

-----------------------------------------------------------------------------
(* The PC tables. *)

(* A flag byte is programmed into an erased one. *)
FlagInv ==
  TypeInv /\ (stage = "flag" => \A p \in Pc : Publishing(p) => pc_flag[p] = Erased)

LEMMA FlagNext == ASSUME FlagInv, [Next]_vars PROVE FlagInv'
<1>1. TypeInv /\ TypeInv'
  BY TypeNext DEF FlagInv
<1>2. CASE stage' # "flag"
  BY <1>1, <1>2 DEF FlagInv
<1>3. ASSUME NEW p \in Pc, PublishAddress(p), stage' = "flag" PROVE FlagInv'
  <2>1. /\ SlotErased(p) /\ Publishing(p)
        /\ UNCHANGED <<pc_flag, unpublished>>
    BY <1>3 DEF PublishAddress
  <2>2. \A q \in Pc : Publishing(q)' => q = p
    BY <2>1, PublishingUnique DEF Publishing
  <2> QED
    BY <1>1, <2>1, <2>2 DEF FlagInv, SlotErased
<1>4. CASE UNCHANGED vars
  BY <1>1, <1>4 DEF FlagInv, vars, flashVars, jobVars, Publishing
<1>5. ASSUME NEW p \in Pc, PublishFlag(p) PROVE stage' # "flag"
  BY <1>5 DEF PublishFlag
<1>6. ASSUME stage' = "flag", Next
      PROVE  \E p \in Pc : PublishAddress(p)
  BY <1>5, <1>6 DEF Next, CompileStep, Boot, Reset, RunGuest, NoRoom, NeedsCompile,
     BeginBlock, CompileInstruction, CompileRomRead, CompileRomReadNoRoom,
     Emit, StopHere, TornMark, Undo, ProgramBlock, SealBlock, Shrink
<1> QED
  BY <1>2, <1>3, <1>4, <1>6

(* The two tables where a PC is marked for the interpreter. *)
LEMMA MarkOnce ==
  ASSUME TypeInv, NEW q \in Pc, MarkInterpreted(q), NEW p \in Pc
  PROVE  /\ pc_native[p] # NoAddr => pc_native'[p] = pc_native[p]
         /\ pc_flag[p] # Erased => pc_flag'[p] = pc_flag[p]
BY DEF MarkInterpreted, SlotErased, TypeInv, TypeOK

LEMMA TornOnce ==
  ASSUME TypeInv, NEW q \in Pc, NEW off, TornMark(q, off), NEW p \in Pc
  PROVE  /\ pc_native[p] # NoAddr => pc_native'[p] = pc_native[p]
         /\ pc_flag[p] # Erased => pc_flag'[p] = pc_flag[p]
BY DEF TornMark, SlotErased, TypeInv, TypeOK

LEMMA OnceStep ==
  ASSUME FlagInv, Next, stage # "off", NEW p \in Pc
  PROVE  /\ pc_native[p] # NoAddr => pc_native'[p] = pc_native[p]
         /\ pc_flag[p] # Erased => pc_flag'[p] = pc_flag[p]
<1> USE DEF FlagInv
<1>1. CASE Reset \/ RunGuest \/ Undo \/ Shrink \/ \E s \in Sector : BeginBlock(s)
  BY <1>1 DEF Reset, RunGuest, Undo, Shrink, BeginBlock, flashVars
<1>2. CASE NoRoom
  BY <1>2 DEF NoRoom, TornMark, SlotErased, TypeInv, TypeOK
<1>3. CASE \/ CompileInstruction
           \/ \E s \in Sector : CompileRomRead(s)
           \/ CompileRomReadNoRoom
  <2>1. pc \in Pc
    BY <1>3, CacheAssumption
       DEF TypeInv, BufferInv, CompileInstruction, CompileRomRead,
           CompileRomReadNoRoom
  <2>2. \/ UNCHANGED <<pc_flag, pc_native>>
        \/ MarkInterpreted(pc)
        \/ TornMark(pc, code_index)
    BY <1>3 DEF CompileInstruction, CompileRomRead, CompileRomReadNoRoom, StopHere
  <2> QED
    BY <2>1, <2>2, MarkOnce, TornOnce
<1>4. CASE ProgramBlock \/ SealBlock
  BY <1>4 DEF ProgramBlock, SealBlock
<1>5. ASSUME NEW q \in Pc, PublishAddress(q)
      PROVE  /\ pc_native[p] # NoAddr => pc_native'[p] = pc_native[p]
             /\ pc_flag[p] # Erased => pc_flag'[p] = pc_flag[p]
  BY <1>5 DEF PublishAddress, SlotErased, TypeInv, TypeOK
<1>6. ASSUME NEW q \in Pc, PublishFlag(q)
      PROVE  /\ pc_native[p] # NoAddr => pc_native'[p] = pc_native[p]
             /\ pc_flag[p] # Erased => pc_flag'[p] = pc_flag[p]
  BY <1>6 DEF PublishFlag, TypeInv, TypeOK
<1> QED
  BY <1>1, <1>2, <1>3, <1>4, <1>5, <1>6 DEF Next, CompileStep, Boot

(* A PC-table entry is programmed once between two erases, with a cache that
   survives resets or not: publication and the marks for the interpreter never
   AND a second address or flag into a slot (flash_cache_pc_update).         *)
THEOREM TablesOnce == Spec => TablesProgrammedOnce
<1>1. Init => FlagInv
  BY TypeInit DEF FlagInv, Init
<1>2. FlagInv /\ [Next]_vars => FlagInv'
  BY FlagNext
<1>3. FlagInv /\ [Next]_vars =>
        [stage # "off" =>
           \A p \in Pc : /\ pc_native[p] # NoAddr => pc_native'[p] = pc_native[p]
                         /\ pc_flag[p] # Erased => pc_flag'[p] = pc_flag[p]]_vars
  BY OnceStep
<1> QED
  BY <1>1, <1>2, <1>3, PTL DEF Spec, TablesProgrammedOnce
-----------------------------------------------------------------------------
(* One translation per PC. *)

(* An erased flag has an erased address beside it, but for the slot whose
   address is written and whose flag is next.                            *)
SlotsInSync ==
  \A p \in Pc : pc_flag[p] = Erased =>
    \/ pc_native[p] = NoAddr
    \/ stage = "flag" /\ Publishing(p)

(* The entry of the block that is compiled keeps its erased flag, and is the
   first instruction of the block, until its turn to be published comes.   *)
EntryInv ==
  /\ stage \in {"loop", "program", "seal"} => pc_flag[entry_pc] = Erased
  /\ stage = "loop" =>
       \/ pc = entry_pc /\ code_index = 0
       \/ pc > entry_pc /\ instr_off[entry_pc] = 0
  /\ stage \in {"program", "seal"} =>
       instr_off[entry_pc] = 0 /\ code_index > 0

(* run_6502 will not compile the entry of a complete block again. *)
EntriesTaken ==
  \A b \in sealed :
    \/ pc_flag[b.entry] # Erased
    \/ stage \in {"publish", "flag"} /\ b = ThisBlock /\ b.entry \in unpublished

OnceInv ==
  /\ FlagInv /\ NoDuplicateBlocks
  /\ stage # "off" => SlotsInSync /\ EntryInv /\ EntriesTaken

LEMMA OnceInit == Init => OnceInv
BY TypeInit DEF Init, OnceInv, FlagInv, NoDuplicateBlocks

(* The address of a block is never the one of an erased slot. *)
LEMMA NativeIsAddress ==
  ASSUME TypeInv, NEW off PROVE NativeAddr(off) # NoAddr
BY CacheAssumption DEF NativeAddr, NoAddr, TypeInv, TypeOK, Sector

(* A mark keeps the tables in step, takes no slot but its own, and frees
   none.                                                               *)
LEMMA MarkSync ==
  ASSUME TypeInv, NEW q \in Pc, MarkInterpreted(q), NEW p \in Pc
  PROVE  /\ p # q => pc_flag'[p] = pc_flag[p] /\ pc_native'[p] = pc_native[p]
         /\ pc_flag'[p] = Erased =>
              pc_flag[p] = Erased /\ pc_native'[p] = pc_native[p]
BY DEF MarkInterpreted, SlotErased, TypeInv, TypeOK, Erased

(* A step that marks at most one PC and keeps the complete blocks. *)
LEMMA SlotsStay ==
  ASSUME OnceInv, stage \notin {"off", "publish", "flag"}, sealed' = sealed,
         \A p \in Pc : pc_flag'[p] = Erased =>
           pc_flag[p] = Erased /\ pc_native'[p] = pc_native[p]
  PROVE  SlotsInSync' /\ EntriesTaken'
<1>1. \A b \in sealed : b.entry \in Pc
  BY DEF OnceInv, FlagInv, TypeInv, TypeOK
<1> QED
  BY <1>1 DEF OnceInv, SlotsInSync, EntriesTaken

(* Without power nothing is promised but what is in flash. *)
LEMMA OffOnce ==
  ASSUME OnceInv, FlagInv', stage' = "off", UNCHANGED sealed PROVE OnceInv'
BY DEF OnceInv, NoDuplicateBlocks

(* A turn of the compile loop: an instruction behind the entry may be marked,
   the entry itself only when nothing has been compiled.                    *)
LEMMA LoopOnce ==
  ASSUME OnceInv, TypeInv',
         \/ CompileInstruction
         \/ \E s \in Sector : CompileRomRead(s)
         \/ CompileRomReadNoRoom,
         stage' # "off"
  PROVE  OnceInv'
<1>1. /\ stage = "loop" /\ pc \in Pc /\ entry_pc \in Pc /\ TypeInv
      /\ code_index \in Nat /\ instr_off \in [Pc -> NativeOff]
  <2>1. TypeInv /\ stage = "loop"
    BY DEF OnceInv, FlagInv, CompileInstruction, CompileRomRead,
           CompileRomReadNoRoom
  <2> QED
    BY <2>1, CacheAssumption, LayoutAssumption DEF TypeInv, TypeOK, BufferInv
<1>2. UNCHANGED <<sealed, entry_pc>>
  BY DEF CompileInstruction, CompileRomRead, CompileRomReadNoRoom
<1> DEFINE Stopped ==
             /\ MarkInterpreted(pc)
             /\ stage' = IF code_index = 0 THEN "undo" ELSE "program"
             /\ UNCHANGED <<code_index, instr_off, pc>>
<1>3. \/ EmitsCode(pc, code_index) /\ Emit /\ UNCHANGED <<pc_flag, pc_native>>
      \/ Stopped
  BY DEF CompileInstruction, CompileRomRead, CompileRomReadNoRoom, EmitsCode,
         StopHere, TornMark
<1>4. stage' \in {"loop", "undo", "program"}
  BY <1>3 DEF Emit
<1>5. NoDuplicateBlocks'
  BY <1>2 DEF OnceInv, NoDuplicateBlocks
<1>6. \A p \in Pc : pc_flag'[p] = Erased =>
        pc_flag[p] = Erased /\ pc_native'[p] = pc_native[p]
  BY <1>1, <1>3, MarkSync
<1>7. SlotsInSync' /\ EntriesTaken'
  BY <1>1, <1>2, <1>6, SlotsStay
<1>8. /\ pc_flag[entry_pc] = Erased
      /\ \/ pc = entry_pc /\ code_index = 0
         \/ pc > entry_pc /\ instr_off[entry_pc] = 0
  BY <1>1 DEF OnceInv, EntryInv
<1>9. EntryInv'
  <2>1. CASE EmitsCode(pc, code_index) /\ Emit /\ UNCHANGED <<pc_flag, pc_native>>
    <3>1. instr_off'[entry_pc] = 0
      <4>1. instr_off' = [instr_off EXCEPT ![pc] = code_index]
        BY <2>1 DEF Emit
      <4>2. CASE pc = entry_pc /\ code_index = 0
        BY <1>1, <4>1, <4>2
      <4>3. CASE pc > entry_pc /\ instr_off[entry_pc] = 0
        <5>1. pc # entry_pc
          BY <1>1, <4>3 DEF Pc
        <5> QED
          BY <1>1, <4>1, <4>3, <5>1
      <4> QED
        BY <1>8, <4>2, <4>3
    <3>2. stage' = "loop" => pc' = pc + 1
      BY <2>1 DEF Emit, Continues, NextPc
    <3>3. stage' = "loop" => pc' > entry_pc
      BY <1>1, <1>8, <3>2, CacheAssumption DEF Pc
    <3>4. code_index' \in Nat
      BY LayoutAssumption DEF TypeInv, TypeOK
    <3>5. stage' = "program" => code_index' > 0
      BY <2>1, <3>4 DEF Emit
    <3> QED
      BY <1>2, <1>4, <1>8, <2>1, <3>1, <3>3, <3>5 DEF EntryInv
  <2>2. CASE Stopped
    <3>1. stage' = "program" => code_index > 0
      BY <1>1, <2>2
    <3>2. stage' = "program" => pc # entry_pc /\ instr_off[entry_pc] = 0
      BY <1>1, <1>8, <3>1 DEF Pc
    <3>3. stage' = "program" => pc_flag'[entry_pc] = Erased
      BY <1>1, <1>8, <2>2, <3>2, MarkSync
    <3>4. stage' \in {"undo", "program"} /\ UNCHANGED <<code_index, instr_off>>
      BY <2>2
    <3> QED
      BY <1>2, <3>1, <3>2, <3>3, <3>4 DEF EntryInv
  <2> QED
    BY <1>3, <2>1, <2>2
<1> QED
  BY <1>4, <1>5, <1>7, <1>9 DEF OnceInv, FlagInv

(* The block is complete: its entry heads the list of PCs to publish, and no
   other complete block has it.                                            *)
LEMMA SealOnce == ASSUME OnceInv, TypeInv', SealBlock PROVE OnceInv'
<1>1. /\ stage = "seal" /\ stage' = "publish" /\ TypeInv
      /\ sealed' = sealed \cup {ThisBlock} /\ unpublished' = Publishable
      /\ UNCHANGED <<pc_flag, pc_native>> /\ ThisBlock' = ThisBlock
  BY DEF OnceInv, FlagInv, SealBlock, ThisBlock
<1>2. /\ pc_flag[entry_pc] = Erased /\ entry_pc \in Publishable
      /\ ThisBlock.entry = entry_pc
  BY <1>1 DEF OnceInv, EntryInv, Publishable, NoOff, TypeInv, TypeOK, ThisBlock
<1>3. \A b \in sealed : pc_flag[b.entry] # Erased
  BY <1>1 DEF OnceInv, EntriesTaken
<1>4. NoDuplicateBlocks'
  BY <1>1, <1>2, <1>3 DEF OnceInv, NoDuplicateBlocks
<1>5. EntriesTaken'
  BY <1>1, <1>2, <1>3 DEF EntriesTaken
<1>6. SlotsInSync' /\ EntryInv'
  BY <1>1 DEF OnceInv, SlotsInSync, EntryInv
<1> QED
  BY <1>1, <1>4, <1>5, <1>6 DEF OnceInv, FlagInv

(* The slot of the entry is still erased when its turn comes, so that it is
   not passed over.                                                       *)
LEMMA AddressOnce ==
  ASSUME OnceInv, FlagInv', NEW p \in Pc, PublishAddress(p) PROVE OnceInv'
<1>1. /\ stage = "publish" /\ Publishing(p) /\ TypeInv /\ p \in unpublished
      /\ UNCHANGED <<pc_flag, sealed>> /\ ThisBlock' = ThisBlock
  BY DEF OnceInv, FlagInv, PublishAddress, ThisBlock, Publishing
<1>2. NoDuplicateBlocks'
  BY <1>1 DEF OnceInv, NoDuplicateBlocks
<1>3. SlotsInSync /\ EntriesTaken
  BY <1>1 DEF OnceInv
<1>4. CASE SlotErased(p)
  <2>1. /\ stage' = "flag" /\ unpublished' = unpublished
        /\ \A q \in Pc : q # p => pc_native'[q] = pc_native[q]
    BY <1>1, <1>4 DEF PublishAddress, TypeInv, TypeOK
  <2>2. SlotsInSync'
    BY <1>1, <1>3, <2>1 DEF SlotsInSync, Publishing
  <2>3. EntriesTaken' /\ EntryInv'
    BY <1>1, <1>3, <2>1 DEF EntriesTaken, EntryInv
  <2> QED
    BY <1>2, <2>2, <2>3 DEF OnceInv
<1>5. CASE ~SlotErased(p)
  <2>1. /\ stage' = "publish" /\ unpublished' = unpublished \ {p}
        /\ UNCHANGED pc_native
    BY <1>1, <1>5 DEF PublishAddress
  <2>2. pc_flag[p] # Erased
    BY <1>1, <1>3, <1>5 DEF SlotsInSync, SlotErased
  <2>3. SlotsInSync' /\ EntryInv'
    BY <1>1, <1>3, <2>1 DEF SlotsInSync, EntryInv
  <2>4. EntriesTaken'
    BY <1>1, <1>3, <2>1, <2>2 DEF EntriesTaken
  <2> QED
    BY <1>2, <2>3, <2>4 DEF OnceInv
<1> QED
  BY <1>4, <1>5

LEMMA FlagOnce ==
  ASSUME OnceInv, FlagInv', NEW p \in Pc, PublishFlag(p) PROVE OnceInv'
<1>1. /\ stage = "flag" /\ stage' = "publish" /\ Publishing(p) /\ TypeInv
      /\ UNCHANGED <<pc_native, sealed>> /\ ThisBlock' = ThisBlock
      /\ unpublished' = unpublished \ {p}
  BY DEF OnceInv, FlagInv, PublishFlag, ThisBlock
<1>2. /\ pc_flag'[p] # Erased
      /\ \A q \in Pc : q # p => pc_flag'[q] = pc_flag[q]
  BY DEF OnceInv, FlagInv, TypeInv, TypeOK, PublishFlag, Erased
<1>3. SlotsInSync /\ EntriesTaken /\ \A b \in sealed : b.entry \in Pc
  BY <1>1 DEF OnceInv, TypeInv, TypeOK
<1>4. NoDuplicateBlocks'
  BY <1>1 DEF OnceInv, NoDuplicateBlocks
<1>5. SlotsInSync'
  BY <1>1, <1>2, <1>3, PublishingUnique DEF SlotsInSync
<1>6. EntriesTaken' /\ EntryInv'
  BY <1>1, <1>2, <1>3 DEF EntriesTaken, EntryInv
<1> QED
  BY <1>4, <1>5, <1>6 DEF OnceInv

LEMMA OnceNext ==
  ASSUME ~CachePersist, OnceInv, [Next]_vars PROVE OnceInv'
<1>1. FlagInv' /\ TypeInv' /\ TypeInv
  BY FlagNext DEF OnceInv, FlagInv
<1>2. CASE Boot
  <2>1. /\ stage' = "dispatch" /\ sealed' = {}
        /\ pc_flag' = [p \in Pc |-> Erased] /\ pc_native' = [p \in Pc |-> NoAddr]
    BY <1>2 DEF Boot, FlashFormat
  <2> QED
    BY <1>1, <2>1 DEF OnceInv, NoDuplicateBlocks, SlotsInSync, EntryInv,
                      EntriesTaken
<1>3. CASE Reset
  BY <1>1, <1>3 DEF OnceInv, Reset, flashVars, NoDuplicateBlocks
<1>4. CASE RunGuest \/ Undo
  <2>1. /\ stage \in {"dispatch", "undo"} /\ stage' = "dispatch"
        /\ UNCHANGED <<sealed, pc_flag, pc_native>>
    BY <1>4 DEF RunGuest, Undo, flashVars
  <2>2. SlotsInSync' /\ EntriesTaken'
    BY <2>1, SlotsStay
  <2> QED
    BY <1>1, <2>1, <2>2 DEF OnceInv, EntryInv, NoDuplicateBlocks
<1>5. CASE NoRoom
  <2>1. stage = "dispatch" /\ stage' \in {"dispatch", "off"} /\ UNCHANGED sealed
    BY <1>5 DEF NoRoom, NeedsCompile, TornMark
  <2>2. CASE stage' = "off"
    BY <1>1, <2>1, <2>2, OffOnce
  <2>3. CASE stage' = "dispatch"
    <3>1. \A p \in Pc : pc_flag'[p] = Erased =>
            pc_flag[p] = Erased /\ pc_native'[p] = pc_native[p]
      BY <1>1, <1>5, <2>3 DEF NoRoom, TornMark, SlotErased, TypeInv, TypeOK, Erased
    <3>2. SlotsInSync' /\ EntriesTaken'
      BY <2>1, <3>1, SlotsStay
    <3> QED
      BY <1>1, <2>1, <2>3, <3>2 DEF OnceInv, EntryInv, NoDuplicateBlocks
  <2> QED
    BY <2>1, <2>2, <2>3
<1>6. ASSUME NEW s \in Sector, BeginBlock(s) PROVE OnceInv'
  <2>1. /\ stage = "dispatch" /\ stage' = "loop" /\ pc_flag[pc] = Erased
        /\ UNCHANGED <<sealed, pc_flag, pc_native, pc>>
        /\ entry_pc' = pc /\ code_index' = 0
    BY <1>6 DEF BeginBlock, NeedsCompile, flashVars
  <2>2. SlotsInSync' /\ EntriesTaken'
    BY <2>1, SlotsStay
  <2> QED
    BY <1>1, <2>1, <2>2 DEF OnceInv, EntryInv, NoDuplicateBlocks
<1>7. CASE \/ CompileInstruction
           \/ \E s \in Sector : CompileRomRead(s)
           \/ CompileRomReadNoRoom
  <2>1. UNCHANGED sealed
    BY <1>7 DEF CompileInstruction, CompileRomRead, CompileRomReadNoRoom
  <2> QED
    BY <1>1, <1>7, <2>1, LoopOnce, OffOnce
<1>8. CASE ProgramBlock
  <2>1. /\ stage = "program" /\ stage' = "seal"
        /\ UNCHANGED <<sealed, pc_flag, pc_native, entry_pc, code_index, instr_off>>
    BY <1>8 DEF ProgramBlock, jobVars
  <2>2. SlotsInSync' /\ EntriesTaken'
    BY <2>1, SlotsStay
  <2> QED
    BY <1>1, <2>1, <2>2 DEF OnceInv, EntryInv, NoDuplicateBlocks
<1>9. CASE SealBlock
  BY <1>1, <1>9, SealOnce
<1>10. ASSUME NEW p \in Pc, PublishAddress(p) \/ PublishFlag(p) PROVE OnceInv'
  BY <1>1, <1>10, AddressOnce, FlagOnce
<1>11. CASE Shrink
  <2>1. /\ stage = "publish" /\ stage' = "dispatch" /\ unpublished = {}
        /\ UNCHANGED <<sealed, pc_flag, pc_native>>
    BY <1>11 DEF Shrink, flashVars
  <2> QED
    BY <1>1, <2>1 DEF OnceInv, SlotsInSync, EntryInv, EntriesTaken,
                      NoDuplicateBlocks
<1>12. CASE UNCHANGED vars
  BY <1>1, <1>12 DEF vars, flashVars, wramVars, jobVars, OnceInv, SlotsInSync,
     EntryInv, EntriesTaken, NoDuplicateBlocks, ThisBlock, Publishing
<1> QED
  BY <1>2, <1>3, <1>4, <1>5, <1>6, <1>7, <1>8, <1>9, <1>10, <1>11, <1>12
     DEF Next, CompileStep

(* In a build whose caches are formatted at power-on, no PC is the entry of
   two translations, whatever resets and failed compiles come in between (the
   "already recompiled" guard of run_6502).                                   *)
THEOREM CompiledOnce == ~CachePersist /\ Spec => []NoDuplicateBlocks
<1> SUFFICES ASSUME ~CachePersist PROVE Spec => []NoDuplicateBlocks
  OBVIOUS
<1>1. OnceInv /\ [Next]_vars => OnceInv'
  BY OnceNext
<1>2. Spec => []OnceInv
  BY OnceInit, <1>1, PTL DEF Spec
<1> QED
  BY <1>2, PTL DEF OnceInv
=============================================================================
