---------------------------- MODULE BranchLinker ----------------------------
(***************************************************************************)
(* optimizer_v2_simple: turning the exits of translated blocks into direct *)
(* native jumps.  A block ends in a patchable epilogue and its body may    *)
(* hold $FFF0 templates, jumps with an operand that still leads to the     *)
(* dispatcher.  Once the guest PC behind such an operand is translated, it *)
(* is programmed with the native address.                                  *)
(*                                                                         *)
(* Flash programming only clears bits.  An epilogue operand is $FFFF and   *)
(* takes any address; a template operand is $FFF0 and takes only addresses *)
(* with a zero low nibble, all others need a trampoline: three bytes, jmp  *)
(* to the target, on a 16-byte boundary behind the block or in the pool at *)
(* the end of the sector.                                                  *)
(*                                                                         *)
(* An address is <<sector, offset>>.  Everything here runs between guest   *)
(* instructions, from run_6502 after a compile and from opt2_frame_tick;   *)
(* plan holds the passes that the current call has still to make.          *)
(***************************************************************************)
EXTENDS SectorLayout, Sequences, FiniteSets

CONSTANTS
  Sectors, SectorsPerBank,
  Pc,            \* guest PCs
  Blocks,        \* the translations the guest program can give rise to
  Code,          \* Code[b]: where block b goes and what it consists of
  QueueSize,     \* MAX_PENDING_PATCHES
  MaxDeferred,   \* IR_MAX_DEFERRED_PATCHES, templates of a block queued
  MaxPatches,    \* EPILOGUE_FULL_SCAN_MAX
  ScanBatch,     \* EPILOGUE_SCAN_BATCH
  SweepEvery,    \* blocks between two sweeps of run_6502 (8)
  SettleFrames, Cooldown,    \* SETTLE_FRAMES, RESETTLE_COOLDOWN
  LightPeriod,   \* frames between two light sweeps (8)
  CounterMax     \* where opt2_settle_counter saturates (255)

Sector == 0..(Sectors - 1)
Bank(s) == s \div SectorsPerBank

(* Code[b] = [sec, base (header offset), len (code and epilogue),
     offs (offset of each translated PC, -1 if none), entry, exit,
     sites (templates: position of the operand's jmp, target, conditional)] *)
ASSUME LinkerAssumption ==
  /\ Sectors \in Nat \ {0} /\ SectorsPerBank \in Nat \ {0}
  /\ \A b \in Blocks :
       /\ Code[b].sec \in Sector /\ Code[b].base \in Nat
       /\ Code[b].len > EpilogueSize
       /\ Code[b].entry \in Pc /\ Code[b].exit \in Pc
       /\ Code[b].offs \in [Pc -> -1..Code[b].len]
       /\ \A x \in Code[b].sites : x.target \in Pc /\ x.cond \in BOOLEAN
  /\ LightPeriod \in Nat \ {0} /\ SweepEvery \in Nat \ {0}
  /\ QueueSize \in Nat /\ MaxDeferred \in Nat /\ MaxPatches \in Nat
  /\ ScanBatch \in Nat /\ CounterMax \in Nat
  /\ SettleFrames \in 0..CounterMax /\ Cooldown \in 0..(CounterMax - 1)

(* Where the compilers put blocks, from what FlashCache and StaticCompile
   show of them: the sizes of a sector and its pool are multiples of the
   alignment, a header lies in front of an aligned address, and blocks share
   no byte with each other or with the pool.  Instructions and templates lie
   in front of the epilogue, no two templates at the same place, and the code
   of an unconditional template (opJMP) is the last of its block.            *)
ASSUME GeometryAssumption ==
  /\ SectorSize % BlockAlignment = 0 /\ PoolSize % BlockAlignment = 0
  /\ PoolSize >= BlockAlignment
  /\ IsFiniteSet(Blocks)
  /\ \A b \in Blocks :
       /\ Code[b].base % BlockAlignment = BlockAlignment - BlockHeaderSize
       /\ Code[b].len \in Nat /\ Code[b].len <= MaxBlock
       /\ BlockEnd(Code[b].base, Code[b].len) <= SectorSize - PoolSize
       /\ \A p \in Pc : Code[b].offs[p] <= Code[b].len - EpilogueSize
       /\ IsFiniteSet(Code[b].sites)
       /\ \A x \in Code[b].sites :
            /\ x.pos \in Nat /\ x.pos < Code[b].len - EpilogueSize
            /\ x.cond \/ \A p \in Pc : Code[b].offs[p] <= x.pos
            /\ \A y \in Code[b].sites : x.pos = y.pos => x = y
       /\ \A c \in Blocks : b # c /\ Code[b].sec = Code[c].sec =>
            \/ BlockEnd(Code[b].base, Code[b].len) <= Code[c].base
            \/ BlockEnd(Code[c].base, Code[c].len) <= Code[b].base

VARIABLES
  compiled,        \* blocks in flash
  native,          \* PC tables: native address of every translated PC
  operand,         \* jump operand of every template and epilogue
  tramp,           \* jump operand of every trampoline slot
  pending,         \* the pending patch queue
  plan,            \* passes still to run in this call
  scan,            \* loop state of the pass that is running
  cursor,          \* opt2_epilogue_sector and opt2_epilogue_offset
  since_sweep,     \* blocks_compiled of run_6502
  blocks_compiled, prev_blocks,   \* opt2_blocks_compiled and its last value
  settle_counter, settled

linkVars   == <<operand, tramp, pending>>
settleVars == <<prev_blocks, settle_counter, settled>>
codeVars   == <<compiled, native, blocks_compiled, since_sweep>>
vars       == <<linkVars, settleVars, codeVars, plan, scan, cursor>>

NoAddr == <<-1, 0>>

-----------------------------------------------------------------------------
(* Geometry. *)

EpiloguePos(b) == Code[b].len - EpilogueSize
Site  == UNION {{<<b, x.pos>> : x \in Code[b].sites} : b \in Blocks}
Exits == {<<b, EpiloguePos(b)>> : b \in Blocks}

CodeAddr(b, off) == <<Code[b].sec, Code[b].base + BlockHeaderSize + off>>

(* The 16-bit address, which the same offset in another bank shares. *)
Window(addr) == (addr[1] % SectorsPerBank) * SectorSize + addr[2]

(* na >= code_base && na < code_base + code_len *)
InBlock_Exact(b, addr) ==
  /\ addr[1] = Code[b].sec
  /\ addr[2] >= Code[b].base /\ addr[2] < BlockEnd(Code[b].base, Code[b].len)
InBlock_Never(b, addr) == b \in Blocks /\ addr = NoAddr
InBlock(b, addr) ==
  LET code_base == Window(CodeAddr(b, 0))
  IN Window(addr) >= code_base /\ Window(addr) < code_base + Code[b].len

(* The guess of the queue sweep at the same: close to the patch site. *)
NearSite(b, pos, addr) ==
  LET jmp_addr == Window(CodeAddr(b, pos)) + 1
  IN Window(addr) >= jmp_addr - MaxBlock /\ Window(addr) <= jmp_addr + 8

Aligned(addr) == addr[2] % BlockAlignment = 0

(* The operand $FFF0 after programming addr onto it. *)
OntoTemplate(addr) == <<addr[1], addr[2] - (addr[2] % BlockAlignment)>>

(* sector_free_offset between two compiles, and the block the header walk
   finds at an offset.                                                    *)
FreeOffset(s) ==
  LET ends == {BlockEnd(Code[b].base, Code[b].len) :
                 b \in {c \in compiled : Code[c].sec = s}}
  IN IF ends = {} THEN 0 ELSE CHOOSE e \in ends : \A f \in ends : f <= e
BlocksAt(s, off) == {b \in compiled : Code[b].sec = s /\ Code[b].base = off}
FirstHeader == HeaderStart(0)

TrailingSlot(b) == <<Code[b].sec, TrampolineAddr(Code[b].base, Code[b].len)>>
PoolSlot(s, k) == <<s, SectorSize - PoolSize + k * BlockAlignment>>
PoolSlots == 0..((PoolSize \div BlockAlignment) - 1)
Slots == {TrailingSlot(b) : b \in Blocks}
           \cup {PoolSlot(s, k) : s \in Sector, k \in PoolSlots}

(* Where a jump to addr ends up: trampolines bounce it. *)
Lands(addr) ==
  IF addr \in Slots /\ tramp[addr] # NoAddr THEN tramp[addr] ELSE addr
-----------------------------------------------------------------------------
ScanStart == [sec |-> 0, off |-> FirstHeader, left |-> {}, own |-> NoAddr,
              block |-> {}, patched |-> 0, index |-> 1, steps |-> ScanBatch]

Init ==
  /\ compiled = {}
  /\ native = [p \in Pc |-> NoAddr]
  /\ operand = [x \in Site \cup Exits |-> NoAddr]
  /\ tramp = [t \in Slots |-> NoAddr]
  /\ pending = <<>>
  /\ plan = <<>> /\ scan = ScanStart
  /\ cursor = [sec |-> 0, off |-> FirstHeader]
  /\ since_sweep = 0 /\ blocks_compiled = 0
  /\ prev_blocks = 0 /\ settle_counter = 0 /\ settled = FALSE

(* The passes of the light call and of opt2_full_link_resolve. *)
LightSweep_QueueOnly == <<"sweep">>
LightSweep == <<"sweep", "batch">>
FullResolve_NoBranches == <<"sweep", "epilogues", "sweep">>
FullResolve == <<"sweep", "epilogues", "branches", "sweep">>

(* The next pass of the call. *)
NextPass == plan' = Tail(plan) /\ scan' = ScanStart

(* ir_resolve_deferred_patches and opt2_record_pending_branch: the first
   MaxDeferred templates are queued in the order of their position, as long
   as the queue has room.                                                   *)
PositionRank(b, x) == Cardinality({y \in Code[b].sites : y.pos <= x.pos})
Queued_NoLimit(b) ==
  [i \in 1..Cardinality(Code[b].sites) |->
     LET x == CHOOSE y \in Code[b].sites : PositionRank(b, y) = i
     IN [block |-> b, pos |-> x.pos, target |-> x.target]]
Queued(b) ==
  LET n == Cardinality(Code[b].sites)
      all == [i \in 1..(IF n < MaxDeferred THEN n ELSE MaxDeferred) |->
                LET x == CHOOSE y \in Code[b].sites : PositionRank(b, y) = i
                IN [block |-> b, pos |-> x.pos, target |-> x.target]]
      room == QueueSize - Len(pending)
  IN IF Len(all) <= room THEN all ELSE SubSeq(all, 1, room)

(* run_6502 compiles a block at the next free place of its sector, publishes
   the PCs that are not in the tables yet and, every SweepEvery blocks,
   starts a sweep of the queue and a batch of the epilogue scan.           *)
CompileBlock(b) ==
  /\ plan = <<>>
  /\ b \notin compiled /\ native[Code[b].entry] = NoAddr
  /\ \A c \in Blocks : Code[c].sec = Code[b].sec /\ Code[c].base < Code[b].base
       => c \in compiled
  /\ compiled' = compiled \cup {b}
  /\ native' = [p \in Pc |-> IF native[p] = NoAddr /\ Code[b].offs[p] # -1
                             THEN CodeAddr(b, Code[b].offs[p]) ELSE native[p]]
  /\ pending' = pending \o Queued(b)
  /\ blocks_compiled' = blocks_compiled
                        + Cardinality({p \in Pc : Code[b].offs[p] # -1})
  /\ since_sweep' = (since_sweep + 1) % SweepEvery
  /\ plan' = IF since_sweep' = 0 THEN LightSweep ELSE <<>>
  /\ scan' = ScanStart
  /\ UNCHANGED <<operand, tramp, cursor, settleVars>>
-----------------------------------------------------------------------------
(* Pass "sweep": opt2_sweep_pending_patches, one queue entry per step. *)

(* An entry leaves the queue by the last one moving into its place. *)
RemoveEntry(i) ==
  LET n == Len(pending)
  IN pending' = SubSeq([pending EXCEPT ![i] = pending[n]], 1, n - 1)

SkipEntry == scan' = [scan EXCEPT !.index = @ + 1]

Patched(block, pos) == operand[<<block, pos>>] # NoAddr

SweepSkips_AnyAddress(e) ==
  \/ native[e.target] = NoAddr
  \/ Bank(native[e.target][1]) # Bank(Code[e.block].sec)
  \/ NearSite(e.block, e.pos, native[e.target])
SweepSkips(e) ==
  \/ native[e.target] = NoAddr
  \/ Bank(native[e.target][1]) # Bank(Code[e.block].sec)
  \/ NearSite(e.block, e.pos, native[e.target])
  \/ ~Patched(e.block, e.pos) /\ ~Aligned(native[e.target])

SweepEntry ==
  /\ plan # <<>> /\ Head(plan) = "sweep" /\ scan.index <= Len(pending)
  /\ LET e == pending[scan.index]
     IN IF SweepSkips(e) THEN SkipEntry /\ UNCHANGED <<operand, pending>>
        ELSE /\ RemoveEntry(scan.index)
             /\ operand' = IF Patched(e.block, e.pos) THEN operand
                           ELSE [operand EXCEPT ![<<e.block, e.pos>>] =
                                   OntoTemplate(native[e.target])]
             /\ UNCHANGED scan
  /\ UNCHANGED <<tramp, plan, cursor, codeVars, settleVars>>

SweepEnd ==
  /\ plan # <<>> /\ Head(plan) = "sweep" /\ scan.index > Len(pending)
  /\ NextPass
  /\ UNCHANGED <<linkVars, cursor, codeVars, settleVars>>
-----------------------------------------------------------------------------
(* Linking of an epilogue to its exit PC, in either epilogue scan.  The 21
   bytes reach a block of the same bank, the 18 bytes behind them load the
   bank and the address of any other.                                      *)
Linkable(b) ==
  /\ ~Patched(b, EpiloguePos(b))
  /\ native[Code[b].exit] # NoAddr
  /\ ~InBlock(b, native[Code[b].exit])

LinkEpilogues(bs) ==
  operand' = [x \in DOMAIN operand |->
                IF \E b \in bs : x = <<b, EpiloguePos(b)>> /\ Linkable(b)
                THEN native[Code[x[1]].exit] ELSE operand[x]]

(* Pass "batch": opt2_scan_and_patch_epilogues moves its cursor ScanBatch
   times, over a header or to the next sector.                            *)
AfterBadHeader == 0

BatchStep ==
  LET wrapped == cursor.sec >= Sectors
      s    == IF wrapped THEN 0 ELSE cursor.sec
      off  == IF wrapped THEN FirstHeader ELSE cursor.off
      here == BlocksAt(s, off)
  IN /\ plan # <<>> /\ Head(plan) = "batch" /\ scan.steps > 0
     /\ scan' = [scan EXCEPT !.steps = @ - 1]
     /\ \/ /\ off >= FreeOffset(s)
           /\ cursor' = [sec |-> s + 1, off |-> FirstHeader]
           /\ UNCHANGED operand
        \/ /\ off < FreeOffset(s) /\ here = {}
           /\ cursor' = [sec |-> s + 1, off |-> AfterBadHeader]
           /\ UNCHANGED operand
        \/ \E b \in here :
             /\ cursor' = [sec |-> s, off |-> NextHeader(off, Code[b].len)]
             /\ LinkEpilogues({b})
     /\ UNCHANGED <<tramp, pending, plan, codeVars, settleVars>>

BatchEnd ==
  /\ plan # <<>> /\ Head(plan) = "batch" /\ scan.steps = 0
  /\ NextPass
  /\ UNCHANGED <<linkVars, cursor, codeVars, settleVars>>
-----------------------------------------------------------------------------
(* Passes "epilogues" and "branches" of opt2_full_link_resolve walk all
   sectors from header to header, until MaxPatches operands are patched.  *)

InFullScan(passes) ==
  plan # <<>> /\ Head(plan) \in passes /\ scan.left = {}

ScanDone == scan.sec >= Sectors \/ scan.patched >= MaxPatches
NextSector == [scan EXCEPT !.sec = @ + 1, !.off = FirstHeader]

(* off >= free_off, or the header there is not a block's (break). *)
SectorDone == BlocksAt(scan.sec, scan.off) = {}

FullScanSector ==
  /\ InFullScan({"epilogues", "branches"})
  /\ ~ScanDone /\ SectorDone
  /\ scan' = NextSector
  /\ UNCHANGED <<linkVars, plan, cursor, codeVars, settleVars>>

FullScanEnd ==
  /\ plan # <<>> /\ Head(plan) \in {"epilogues", "branches"}
  /\ ScanDone /\ (scan.left = {} \/ scan.patched >= MaxPatches)
  /\ NextPass
  /\ UNCHANGED <<linkVars, cursor, codeVars, settleVars>>

FullEpilogueScan(b) ==
  /\ InFullScan({"epilogues"}) /\ ~ScanDone
  /\ b \in BlocksAt(scan.sec, scan.off)
  /\ LinkEpilogues({b})
  /\ scan' = [scan EXCEPT !.off = NextHeader(@, Code[b].len),
                          !.patched = IF Linkable(b) THEN @ + 1 ELSE @]
  /\ UNCHANGED <<tramp, pending, plan, cursor, codeVars, settleVars>>

(* opt2_full_branch_scan enters a block: its unpatched templates are left
   to look at, and its trailing trampoline is not used yet in this scan.   *)
Unpatched_All(b) == Code[b].sites
Unpatched(b) == {x \in Code[b].sites : ~Patched(b, x.pos)}

EnterBlock(b) ==
  /\ InFullScan({"branches"}) /\ ~ScanDone
  /\ b \in BlocksAt(scan.sec, scan.off)
  /\ scan' = [scan EXCEPT
       !.off = NextHeader(@, Code[b].len), !.block = {b}, !.own = NoAddr,
       !.left = Unpatched(b)]
  /\ UNCHANGED <<linkVars, plan, cursor, codeVars, settleVars>>

(* The first pool slot that is free or already leads to na. *)
PoolChoice(s, na) ==
  {k \in PoolSlots :
     /\ tramp[PoolSlot(s, k)] \in {NoAddr, na}
     /\ \A j \in PoolSlots : tramp[PoolSlot(s, j)] \in {NoAddr, na} => k <= j}

OwnSlotFree_Anywhere(b) ==
  scan.own = NoAddr /\ tramp[TrailingSlot(b)] = NoAddr
OwnSlotFree(b) ==
  /\ TrampolineFits(Code[b].base, Code[b].len)
  /\ scan.own = NoAddr /\ tramp[TrailingSlot(b)] = NoAddr

(* Program the template at x with via, and the slot via if it is written. *)
PatchTemplate(b, x, via, writes, own) ==
  LET na == native[x.target]
  IN /\ operand' = [operand EXCEPT ![<<b, x.pos>>] = OntoTemplate(via)]
     /\ tramp' = IF writes THEN [tramp EXCEPT ![via] = na] ELSE tramp
     /\ scan' = [scan EXCEPT !.left = @ \ {x}, !.own = own,
                             !.patched = @ + 1]

LeaveTemplate(x) ==
  scan' = [scan EXCEPT !.left = @ \ {x}] /\ UNCHANGED <<operand, tramp>>

(* The template can be linked inside its bank. *)
BranchLinkable(b, x) ==
  /\ native[x.target] # NoAddr
  /\ Bank(native[x.target][1]) = Bank(Code[b].sec)
  /\ x.cond \/ ~InBlock(b, native[x.target])

ScanTemplate(b, x) ==
  LET na == native[x.target]
      pool == PoolChoice(Code[b].sec, na)
  IN /\ plan # <<>> /\ Head(plan) = "branches"
     /\ scan.patched < MaxPatches
     /\ b \in scan.block /\ x \in scan.left
     /\ \A y \in scan.left : x.pos <= y.pos
     /\ \/ ~BranchLinkable(b, x) /\ LeaveTemplate(x)
        \/ /\ BranchLinkable(b, x) /\ Aligned(na)
           /\ PatchTemplate(b, x, na, FALSE, scan.own)
        \/ /\ BranchLinkable(b, x) /\ ~Aligned(na)
           /\ OwnSlotFree(b) \/ scan.own = na
           /\ PatchTemplate(b, x, TrailingSlot(b), OwnSlotFree(b), na)
        \/ /\ BranchLinkable(b, x) /\ ~Aligned(na)
           /\ ~OwnSlotFree(b) /\ scan.own # na
           /\ \/ pool = {} /\ LeaveTemplate(x)
              \/ \E k \in pool :
                   PatchTemplate(b, x, PoolSlot(Code[b].sec, k), TRUE, scan.own)
     /\ UNCHANGED <<pending, plan, cursor, codeVars, settleVars>>
-----------------------------------------------------------------------------
(* opt2_frame_tick, once per frame of the main loop. *)

TickSettled ==
  LET c == IF settle_counter < CounterMax THEN settle_counter + 1
                                          ELSE settle_counter
      unsettle == c >= Cooldown /\ blocks_compiled # prev_blocks
  IN /\ plan = <<>> /\ settled
     /\ plan' = IF c % LightPeriod = 0 THEN LightSweep ELSE <<>>
     /\ prev_blocks' = blocks_compiled
     /\ settled' = ~unsettle
     /\ settle_counter' = IF unsettle THEN 0 ELSE c
     /\ scan' = ScanStart
     /\ UNCHANGED <<linkVars, codeVars, cursor>>

TickUnsettled ==
  LET c == IF settle_counter < SettleFrames THEN settle_counter + 1
                                            ELSE settle_counter
      fire == blocks_compiled = prev_blocks /\ c >= SettleFrames
              /\ blocks_compiled > 0
  IN /\ plan = <<>> /\ ~settled
     /\ plan' = IF fire THEN FullResolve ELSE <<>>
     /\ settled' = fire
     /\ settle_counter' =
          IF fire \/ blocks_compiled # prev_blocks THEN 0 ELSE c
     /\ prev_blocks' = blocks_compiled
     /\ scan' = ScanStart
     /\ UNCHANGED <<linkVars, codeVars, cursor>>

FrameTick == TickSettled \/ TickUnsettled

LinkStep ==
  \/ SweepEntry \/ SweepEnd \/ BatchStep \/ BatchEnd
  \/ FullScanSector \/ FullScanEnd
  \/ \E b \in Blocks :
       \/ FullEpilogueScan(b) \/ EnterBlock(b)
       \/ \E x \in Code[b].sites : ScanTemplate(b, x)

Next == FrameTick \/ LinkStep \/ \E b \in Blocks : CompileBlock(b)

Spec == Init /\ [][Next]_vars

(* A call of the linker returns, and the main loop keeps counting frames. *)
FairSpec == Spec /\ WF_vars(LinkStep) /\ WF_vars(FrameTick)
-----------------------------------------------------------------------------
(* What linking promises. *)

Address == (Sector \X (0..(SectorSize - 1))) \cup {NoAddr}

TypeOK ==
  /\ compiled \subseteq Blocks
  /\ native \in [Pc -> Address] /\ operand \in [Site \cup Exits -> Address]
  /\ tramp \in [Slots -> Address]
  /\ Len(pending) <= QueueSize
  /\ \A i \in 1..Len(pending) :
       pending[i].block \in compiled /\ pending[i].target \in Pc
  /\ plan \in {<<>>, LightSweep, Tail(LightSweep), FullResolve,
               Tail(FullResolve), Tail(Tail(FullResolve)),
               Tail(Tail(Tail(FullResolve)))}
  /\ scan.index \in 1..(QueueSize + 1) /\ scan.steps \in 0..ScanBatch
  /\ cursor.sec \in 0..Sectors /\ cursor.off \in 0..SectorSize
  /\ settle_counter \in 0..CounterMax /\ settled \in BOOLEAN

Targets(b) == {<<<<b, x.pos>>, x.target>> : x \in Code[b].sites}
                \cup {<<<<b, EpiloguePos(b)>>, Code[b].exit>>}

(* A linked exit leads, through at most one trampoline, exactly to the
   native address of the guest PC it stands for: the low nibble the template
   cannot take, a shared slot, a target translated again later and the order
   of compiles and passes never send it elsewhere.                           *)
LinksFaithful ==
  \A b \in Blocks : \A t \in Targets(b) :
    operand[t[1]] # NoAddr => Lands(operand[t[1]]) = native[t[2]]

(* A trampoline lies in no block: not in one that was there, and not in one
   that is compiled behind it later.                                        *)
TrampolinesApart ==
  \A t \in Slots : tramp[t] # NoAddr =>
    \A c \in compiled : Code[c].sec = t[1] =>
      \/ t[2] + TrampolineSize <= Code[c].base
      \/ t[2] >= BlockEnd(Code[c].base, Code[c].len)

(* No unconditional exit is linked back into its own block: such a loop
   never returns to the dispatcher.                                        *)
NoSelfLoop ==
  \A b \in compiled :
    LET to == operand[<<b, EpiloguePos(b)>>]
    IN /\ to # NoAddr => ~InBlock_Exact(b, to)
       /\ \A x \in Code[b].sites :
            ~x.cond /\ Patched(b, x.pos) =>
              ~InBlock_Exact(b, Lands(operand[<<b, x.pos>>]))

(* Flash programming only clears bits, a second address would leave garbage:
   an operand or a trampoline that has been programmed is never given
   another address, by a later full scan or by a light sweep in between.    *)
ProgrammedOnce ==
  [][/\ \A x \in DOMAIN operand :
          operand[x] # NoAddr => operand'[x] = operand[x]
     /\ \A t \in Slots : tramp[t] # NoAddr => tramp'[t] = tramp[t]]_vars

(* "Exhaustive": nothing that can be linked is left unlinked, except for
   templates to unaligned addresses once the pool of their sector is full. *)
Exhaustive ==
  \A b \in compiled :
    /\ ~Linkable(b)
    /\ \A x \in Code[b].sites : ~Patched(b, x.pos) /\ BranchLinkable(b, x) =>
         ~Aligned(native[x.target])
         /\ PoolChoice(Code[b].sec, native[x.target]) = {}

(* The number of patches stays below MaxPatches. *)
FewPatches == Cardinality(Site \cup Exits) < MaxPatches

(* The walk reaches every block: no gap between the blocks of a sector. *)
ChainUnbroken ==
  \A b \in Blocks :
    \/ Code[b].base = FirstHeader
    \/ \E c \in Blocks : /\ Code[c].sec = Code[b].sec
                        /\ Code[b].base = NextHeader(Code[c].base, Code[c].len)

(* opt2_full_link_resolve does what its comments say. *)
FullResolveExhaustive ==
  plan = <<"sweep">> /\ FewPatches /\ ChainUnbroken => Exhaustive

(* Every epilogue whose exit PC gets translated is linked in the end: in the
   exhaustive pass or, for blocks that are compiled once the linker has
   settled, by the light sweeps.  Those end when settle_counter saturates, so
   this asks that the (CounterMax - Cooldown) / LightPeriod sweeps after the
   cooldown, ScanBatch steps each, are enough to walk the flash once.       *)
EpiloguesLinked == <>[](\A b \in compiled : ~Linkable(b))

=============================================================================
