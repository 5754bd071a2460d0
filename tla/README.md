# nesxidy: a verification development

nesxidy runs arcade and console games written for the 6502 on a NES by dynamic
binary translation: guest code in ROM is translated, block by block, to native
6502 code that is programmed into the flash of a Mapper 30 cartridge, linked,
and executed from there. What matters for correctness is an interplay of a
translator with an optimiser, an allocator, a linker and a frame loop, over a
memory in which programming can only clear bits, which survives resets, and
which is also the place the guest is running from.

This directory holds TLA+ models of that core, TLC configurations for small
instances, and TLAPS proofs of the invariants that matter most. `PROJECT.json`
maps each definition to the lines it models, and lists runs, hazards, findings
and theorems.

## 1. Inventory

| Component | State | Operations | Modelled in |
|---|---|---|---|
| Flash code cache (`dynamos.c`) | `sector_free_offset[]`, `next_free_sector`, `sector_alloc_floor` in WRAM; headers, code, epilogues, sentinel, data copies in flash banks 4-16 | `run_6502` compile path, `flash_sector_alloc`, undo, shrink, `nes_rom_data_copy`, `flash_format`, `flash_init_persist` | `SectorLayout`, `FlashCache` |
| PC tables and dispatch (`dynamos.c`, `dynamos-asm.s`) | one flag byte and one address per guest PC, in flash | `flash_cache_pc_update`, `dispatch_on_pc`, `cross_bank_dispatch`, `native_jsr_trampoline` | tables in `FlashCache`, entering and leaving native code in `Codegen`, batches in `NesFrame` |
| Branch linker (`core/optimizer_v2_simple.c`) | pending queue (32), scan cursor, settling counters in WRAM; jump operands, trampolines in flash | record, sweep, batch scan, full epilogue and branch scan, `opt2_frame_tick` | `BranchLinker` |
| Recompiler (`dynamos.c`, from `recompile_opcode_b2_inner`) | the block being compiled | one case per opcode | `NativeCode`, `Codegen`; sizes, room tests and block ends in `FlashCache` |
| IR (`backend/ir*.c`) | node list, fences, placeholders and deferred patches of one block | record, optimiser passes, lowering, resolution of branches and patches, offsets | `IrPasses`, `NativeCode`, `Codegen` |
| Interpreter (`fake6502.c`) | registers, guest memory | `interpret_6502`, `nmi6502` | `Cpu6502`; indirect-jump feedback in `SaWalk` |
| Static analysis: walk (`core/static_analysis.c`) | header, code bitmap, indirect targets, subroutine table in flash; BFS queue in WRAM | `sa_walk`, `sa_record_subroutine`, `sa_record_indirect_target`, `sa_analyze_all_subroutines`, lookup | `SaWalk` |
| Static analysis: two-pass compile | pass number, entry list in flash | `sa_run_b2`, `sa_compile_one_block` | `StaticCompile` |
| Stack-safety scan, idle scan | pending branches; idle table | `sa_analyze_subroutine_safety`, `sa_scan_idle_loops` | their verdicts are inputs |
| NES platform (`nes.c`, ROM patches) | `nmi_active`, `nmi_sp_guard`, `nmi_yield`, watchdog count, PPU queue, flags and counter of the lazynes library | `main`, `read6502`, `write6502`, `render_video` | `NesFrame` |
| Other platforms (`exidy.c`, `millipede.c`, ...) | interrupt latch, character memory | `main`, `read6502`, `write6502`, `translate_address` | boot in `FlashCache`, tick in `BranchLinker`, addresses and dirty flags in `Codegen` |
| Flash driver (`mapper30.c`) | - | program a byte, erase a sector | as used, in all modules |

How they interact. The platform's `main` formats or keeps the cache, resets the
allocator, runs the static analysis, and then loops over `run_6502`. That
function dispatches a batch of guest PCs; a PC without an entry is compiled if the
bitmap of the static analysis knows it: its instructions are recorded as IR nodes, optimised,
lowered and resolved, the block is programmed into flash and
published in the PC tables, and every eighth block the linker sweeps. Once per
video frame the main loop hands the guest's PPU writes over, starts its NMI handler and calls
`opt2_frame_tick`, which decides when the linker makes its exhaustive pass.
The interpreter, which runs whatever cannot be translated, feeds resolved
indirect jumps back to the static analysis, which on a warm reboot compiles the
whole ROM in advance. There are no threads, but one interrupt: the vertical
blank of the console, which may come between any two instructions. What else
interleaves are the order in which the guest visits PCs, the passes of the
linker between compiles, data copies within a compile, and a reset or power
loss between any two flash writes.

What is hard, and what has to hold:

* *Cache*: programming is an AND. No byte may be programmed twice between two
  erases, through reservations of maximal size that are shrunk, undone, and
  crossed by data copies. A PC may be dispatchable only when a whole block is
  behind it, after a reset too. Compiling has to come to an end.
* *Linker*: a template operand `$FFF0` takes only some addresses; trampolines
  are shared and squeezed between blocks; queues drop, cursors restart. A linked exit
  must lead where the unlinked one led; an exhaustive pass must
  be exhaustive; what can be linked must be linked in the end.
* *Translation*: six optimiser passes rewrite a block under knowledge of what is
  in registers, cells and flags; blocks are left through five kinds of exit and entered
  at loop heads and at any instruction. Whatever happens, the guest
  must see a 6502, and the host stack must come out even.
* *Static analysis*: bits stand for instructions, so that no data is ever
  compiled; a full queue or a reset may lose code but must not invent any; torn
  table entries must not turn an unsafe subroutine into a safe one. The second pass of
  the compile must not find anything of the first in the tables, and must stay within its blocks.
* *Frame loop*: PPU writes are shown in order, one NMI handler runs at a time and its end is noticed,
  frames are served whatever the guest does, and no wait is endless.

The 39 hazards are listed with their lines in `PROJECT.json`; where no property
covers one, its note says why.

## 2. Modules

`SectorLayout` is the arithmetic of one erase sector: alignment of headers
and code, the end of an allocation, the next header, the trailing trampoline.
The C code repeats it in five places; here it is written once and used by the
three modules about flash.

`FlashCache` is `run_6502` from a dispatch to the dispatch of the new block.
`stage` says how far it is: `loop` (the compile loop, one instruction per
step), `undo`, `program`, `seal`, `publish`/`flag` (the two halves of
`flash_cache_pc_update`), and back to `dispatch`. An entry that leaves a PC to the interpreter is written
in one step, or torn in the same way when power goes (`TornMark`). A step ends wherever a power
loss leaves a different flash behind that a later boot can see. A guest program
is a function from PCs to what the recompiler does with the opcode there (kind,
size, room test, target). `blocks` and `copies` are the byte ranges programmed
since the last erase; an address is a sector and an offset. Abstracted: the
contents of the code, the rewriting by the IR (it pads to the same
`code_index`), the skip of a leading `PLP` in a published address, and the second
publication of fence PCs, which writes nothing new.

`TranslationCache` is the abstract specification of that: a map from PCs to native code that grows as long as the power
is on. A translation appears as a whole, at addresses nothing else occupies; a PC is entered, or left to the interpreter, at once
and for good; a translation is begun only at a PC that has none. `ImplementsCache` in `FlashCache` is its specification under the mapping that
reads the map out of the sealed blocks and the two PC tables (`Held`, `Entered`, `Declined`). It is stated for the default build: a cache that is
kept over a reset is compiled over (section 5, item 2).

`BranchLinker` is the linker. Every pass over blocks or queue entries is an action per block or
entry; `plan` holds the passes the current call has still to make, `scan` the loop
state of the current one. A block (`Code[b]`) is its place, the offsets of its
PCs, its exit and its templates; the guest decides in which order blocks are
compiled. `CompileBlock` is the part of a compile that the linker sees. The
operand of a template after programming is computed (`OntoTemplate`), not assumed.

`SaWalk` is the walk at power-on and the feedback at run time, with one step
per flash write. An address is two bytes of a small page, so that programming
torn entries with a bitwise AND, erased bytes and bitmap aliasing mean what
they mean on the hardware. `lost` is a history variable: the bits that were
cleared for code the walk then gave up on, because the queue was full, a reset
came, the PC left ROM, or the bit was set at run time. It influences no action.

`Cpu6502` is the interpreter: decoding, addressing, every documented instruction, decimal
mode and the stack, as operators on a processor record. Because the host is a
6502 as well, the same operators execute the native code.

`IrPasses` holds the optimiser, each pass an operator from a node list to a
node list: `RedundantLoad`, `DeadStore`, `DeadLoad`, `PhpPlp`, `PairRewrite`
(duplicates, transfers, pairs), `RegSubst` and `RmwFusion`, with the predicates of
`ir_opt.c` and the flag table of `dynamos.c` kept apart, as they are in the code, since they differ.

`NativeCode` holds what is emitted: templates, exits, epilogues, yield and
dispatch stubs, lowering with its offsets, `Resolved` (`ir_resolve_direct_branches`), and
the routines native code leaves through.

`Codegen` composes the three: `Begin` opens a block, one action per group of
opcodes compiles an instruction (`CompileBranch`, `CompileCall`, ...),
`CompileEnd` and the `Opt...` actions run the passes in the order and number of rounds of the
code, `Lower` and `Publish` resolve and publish, `Dispatch`,
`RunNative` and `Leave` execute the block on the host one instruction at a time,
`InterpretOne` interprets, and `Vblank` sets the yield flag in between. The
guest is a real 6502 program, byte for byte; its state is kept in
host memory, as the recompiler keeps it. Every list has the limit of the code.

`GuestSpec` is the abstract specification: a processor that executes between
one and `MaxRun` instructions of `Cpu6502` per step. `Implements` in `Codegen` is its
specification under the refinement mapping `cpu <- GuestNow`, which reads the
guest's registers, flags and memory out of host memory. Not observable are B and the
unused flag, and the stack page below the stack pointer (an inlined subroutine
pushes no return address).

`NesFrame` is the frame loop: `main` from batch to batch, the checks of
`run_6502`, native calls and loops, the run-time idle detector, `render_video` in the steps between which
the vertical blank makes a difference, and the watchdog. A guest program is a list of the
few instructions that matter: PPU writes, `$2000`, `$2002`, `$4014`, calls,
loops, RTI. `Vblank` is the interrupt of the console, the handler of lazynes with its two patches;
it is always enabled.

`StaticCompile` is the two-pass compile. An instruction is its index and the
size the recompiler gives it, which depends on pass, tables and room; code
bytes are counted. Pass 1 writes the tables, `StartPass2` erases, pass 2 replays the list.

`MCFlashCache`, `MCBranchLinker`, `MCSaWalk`, `MCCodegen`, `MCNesFrame`, `MCStaticCompile`
hold the guest programs of the runs. `FlashCacheProofs`, `CompileOnceProofs`, `BranchLinkerProofs`,
`TranslationCacheProofs`, `FullResolveProofs`, `SaWalkProofs`, `NesFrameProofs` and `StaticCompileProofs` hold the proofs.

Operators that end in an underscore and a name (`RoomLeft_NoEpilogueSlack`,
`YieldStub_KeepsFlags`, ...) are plausible mistakes in the definition they are named
after. No specification uses them; `PROJECT.json` ("mutants") names the property that finds each
one when it replaces the original.

## 3. Runs

| Run | Question | Outcome |
|---|---|---|
| `cache_exidy` | Is the default compile path safe with resets everywhere, does compiling end, and is the whole the map it promises? | holds |
| `cache_nes` | Do data copies, blocks, shrinks and undone compiles stay apart on the NES? | holds |
| `cache_tables` | Is a PC-table entry torn by a reset ever programmed twice? | holds |
| `linker` | Are links faithful, trampolines apart, operands programmed once, full passes exhaustive, epilogues linked in the end? | holds |
| `sa_walk` | Is only code known, is nothing else lost, do torn entries mislead nobody, does the walk end? | holds |
| `codegen` | Does compiled code implement the 6502, end, and keep stack, marks, buffer, patches and fences right? | holds |
| `platform` | Are lists shown in order, handlers bracketed, frames served, and no wait endless? | holds |
| `static_compile` | Is nothing of pass 1 left, nothing translated twice, the list worked off, the overrun bounded? | holds |
| `static_fit` | Does each block of pass 2 fit in what pass 1 measured? | violated |
| `mid_entry` | Is entering a block at an eliminated instruction faithful? | violated |
| `idle_wait` | Does a guest leave its idle loop when the flag is set? | violated |
| `native_wait` | Does a native loop that yields let the main loop have its turn? | violated |

Each violated run states what a comment in the source says; section 5 explains
them.

Bounds, and why they are enough:

* `cache_*`: two sectors of 112 (96) bytes instead of 52 of 4096, `CODE_SIZE`
  24, epilogue 8, pool 16, four to eight guest instructions (one sector and four in `cache_tables`). A sector holds
  two or three blocks, so the search for a sector wraps, sectors fill up, and
  the last reservation just fits or just does not. Headers stay at 8 bytes and
  alignment at 16 as in the code. The programs contain each kind of
  instruction, a block that fills the buffer, a room test that fails in the
  middle, an opcode left to the interpreter first, inside and behind a NOP, a jump back into a block, and on
  the NES copies that land in the sector of the block, in another of its bank,
  or in another bank (`SectorsPerBank` 1 or 4).
* `linker`: three sectors in two banks, five blocks with an exit each and four
  templates among them: conditional and not, to aligned and unaligned targets,
  in the own bank and another, into the own block, with and without room for a
  trailing trampoline, a pool of one slot. Queue of 2, so that it overflows; a
  batch of 5 steps; periods and counters scaled from 8, 120, 255 to 2, 3, 9,
  keeping that the saturation value is no multiple of the sweep period, as 255
  is none of 8. `MaxPatches` stays 255, far above what five blocks can need.
  The saturation leaves three light sweeps after the cooldown, enough to visit
  the three sectors of the instance; see item 6 of section 5.
* `sa_walk`: 16 addresses of two 2-bit digits, a ROM of eight at the top, so
  that `$FF` bytes occur in addresses, RAM addresses share bits with ROM, and
  the PC can run off the end. Queue of one entry, two indirect targets, two
  subroutines, and a flash that starts blank or with another ROM's tables.
* `codegen`: all limits are those of the code (211 bytes of block, 128 nodes,
  16 fences, 8 direct branches, 16 template patches, 4 deferred patches). What is small is the
  suite: fifteen programs of 15 to 170 bytes at `$2900`, each written for one
  part of the recompiler - loops and their second entry, clean, unsafe and inlined subroutines,
  the stack, video memory, decimal mode, more exits than there are lists for, more calls than operands,
  a block that fills the buffer and one that fills it and ends in a loop, a branch into another block, NOPs in front
  of interpreted code, shuffles the rewrite rules know, loads at a loop head - three of them again as NES or Asteroids
  build, each from two sets of registers. The programs are deterministic; the vertical blank is not,
  where the build polls for it. A program ends where it leaves its ROM.
  No property is claimed for programs outside the suite: section 5 lists guest code that is translated wrongly.
* `platform`: three guests, one per way of keeping time (all work in the
  handler, polling with the NMI off, a main thread with subroutines that is
  interrupted). A batch of 3 dispatches for 64, a flush at 2 writes for 96 bytes, 2 rounds for
  the watchdog's 3, 3 visits and 3 steps for the idle detector's 8. Each limit is reached and
  passed in each program that has the loop for it. The frame counter is taken modulo 4
  and writes are named modulo 8, more than are ever under way.
* `static_compile`: two banks of one sector of 288 bytes, so that the bank of
  a target matters and sectors fill up; blocks of 60 bytes with an epilogue of 39, templates at
  their real sizes (5, 17, 19), and 7680 programs: every combination of two to five opcodes at each of seven
  addresses.

Fairness. `FlashCache` assumes weak fairness of `CompileStep` and `Boot`:
`run_6502` is a loop without waits, and a console that is switched on boots. It
assumes nothing of the guest, so `CompilesSettle` holds for every order in
which PCs are visited. It says that the cache comes to rest: from some time on no block is programmed, and a compile
is begun at most at a NOP and undone again. Such a NOP, in front of an opcode for the interpreter, stays without an entry unless a
block of another PC runs through it (section 5, item 29); every other PC that the guest keeps visiting is translated or marked. `BranchLinker` assumes it of `LinkStep` (a call returns)
and `FrameTick` (the main loop sees each NMI of the console); compiles are never
forced. `SaWalk` assumes it of `BootStep`. Resets are never fair; liveness is
stated for behaviours that stop resetting. `Codegen` assumes that a step is taken as
long as the program has not stopped, `<>[](phase = "stop") \/ []<><<Next>>_vars`:
since some step other than stuttering is enabled until then, this is `WF_vars(Next)`, written without `ENABLED`
because TLC would compute every successor twice. `NesFrame` assumes that the processor goes on (`Host`), that the
vertical blank keeps coming, and that a native delay loop ends though the yield flag may
interrupt it again and again (`LoopEnds`); nothing forces lazynes to count
frames: it does so only when a sync is requested, which is why there is a watchdog. `StaticCompile` states safety only.
Deadlock is checked in all runs.

## 4. Proofs

All theorems are about the specifications TLC runs, for every value of the
constants that satisfies the named assumptions (`LayoutAssumption`,
`CacheAssumption`, `LinkerAssumption`, `GeometryAssumption`, `WalkAssumption`, `FrameAssumption`,
`StaticAssumption`). Those say what a sensible configuration
is: sizes are natural numbers, an unguarded template is at most 6 bytes (the slack the
compile loop keeps), a bitmap bit per ROM address, AND with an erased byte is the
identity. Where a theorem has a hypothesis, it is named below with the reason.

### The cache: `FlashCacheProofs`, `CompileOnceProofs`, `TranslationCacheProofs`

* `TypeCorrect`: `Spec => []TypeOK`. `TypeOK` is not inductive: that a free
  offset stays inside its sector needs that the block in progress owns the
  room it reserved (`BufferInv`: `code_index` within the buffer in each stage,
  the reservation within the sector, a staged instruction in front of
  `code_index`).
* `DispatchSafe`: `Spec => []PublishedIsRunnable`, resets and persistent
  caches included. The strengthening `PublishInv` relates the tables to the
  job: in `publish` and `flag` the block is sealed, a half-written entry has
  the address of the PC about to get its flag, and entries written before
  point to sealed blocks, which never change.
* `NoByteProgrammedTwice`: `~CachePersist /\ Spec => []ExtentsDisjoint`.
  The invariant is that all extents of a sector end below its free offset
  (`BelowFree`), and that the block in progress starts where the sector ended
  and no copy crosses it (`JobInv`). Shrink and undo are the interesting
  steps: they lower the free offset, and `sector_alloc_floor` is what keeps it
  above the copies. The hypothesis is necessary (section 5, item 2).
* `PoolStaysFree`: without data copies, `Spec => []PoolUntouched`: the
  reservation of a block ends in front of the pool and the block never outgrows
  it. The hypothesis is necessary (section 5, item 1).
* `WalkFindsEveryBlock`: without data copies, `Spec => []ChainReachesEveryBlock`. `ChainInv` says that the header
  of the next block of a sector, and that of the one in progress, are on the chain. An undo leaves the free offset at
  the header of the block that was given up, and rounding it up once more changes nothing
  (`HeaderStartTwice`); with any other value the chain would break there. The hypothesis is necessary (item 3).
* `TablesOnce`: `Spec => TablesProgrammedOnce`, kept caches included, from `FlagInv`: when the flag byte is about
  to be written it is erased.
* `CompiledOnce`: `~CachePersist /\ Spec => []NoDuplicateBlocks`. `run_6502` looks at the flag of the PC
  before the compile, and the flag is written at the end. `OnceInv` says what holds in between: the entry's slot stays erased
  until its turn (the compile loop moves forward, so behind its first turn it marks other PCs only), the entry is among the PCs to publish, and the entries of sealed blocks are taken.
  The hypothesis is necessary: with a kept cache, a power loss between seal and flag leaves a sealed block whose entry is compiled again.

* `CacheImplemented`: `~CachePersist /\ Spec => ImplementsCache`, step by step: `SealBlock` is the abstract `Translate`, `PublishFlag` is `Enter`, each
  mark for the interpreter `Decline`, `Reset` and `Boot` are `PowerOff` and `PowerOn`, and all else stutters, the address bytes of
  an entry included. The invariant is the conjunction of the three above: that extents are disjoint makes the addresses of a new
  translation new (`SealSeen`), that what is published is runnable makes an entry one of something held (`FlagSeen`), and that the flag of the
  entry stays erased from dispatch to seal makes the PC one without an entry.

### The linker: `BranchLinkerProofs`, `FullResolveProofs`

`GeometryAssumption` is what the linker relies on: blocks are aligned and share no byte, exits lie where the templates put
them. For dynamic compiles `NoByteProgrammedTwice` and `PoolStaysFree` show the part about blocks; a static compile whose blocks outgrow their
allocation (section 5, item 8) and data copies (item 1) break it.

* `TypeCorrect`, `ExitsFaithful` (`LinksFaithful`), `TrampolinesDisjoint` (`TrampolinesApart`), `LoopsDispatched` (`NoSelfLoop`) rest
  on one invariant, `LinkInv`. Where a jump lands depends on where native addresses (`NativeInv`) and
  written trampolines (`TrampInv`) can lie, and on what the branch scan remembers of the trailing trampoline of the
  block it is in (`ScanInv`: the slot holds that very address).
  `LinksInv` then says of each programmed operand that it is the native address of its PC or a trampoline that leads there; it
  stays so because neither is ever programmed again. A misaligned target never ends up in an `$FFF0` operand: that is arithmetic, in
  lemmas about alignment.
* `OnceProgrammed`: `Spec => ProgrammedOnce`, from the same invariant and one lemma per action (`StepKeeps`).
* `ResolveExhaustive`: `Spec => []FullResolveExhaustive`. `ResolveInv` says what each of the two scans has behind it: blocks in
  sectors it has left, or in front of its offset, have nothing linkable, and in the block it is in only templates it has
  still to look at. That a walk stops only behind the last block of a sector needs that blocks are compiled in
  address order (`OrderInv`) and that it stands on the chain (`WalkInv`). `FewPatches` (fewer operands than the limit of a scan)
  and `ChainUnbroken` (no gap in front of a block) are hypotheses inside the property: without them the code is not exhaustive,
  which for gaps is item 3 of section 5; the run satisfies both.

### The walk: `SaWalkProofs`

* `TypeCorrect`, `OnlyCodeIsKnown` (`KnownIsReachable`) and `WalkLosesNothingElse` (`WalkComplete`) have one
  invariant, `IInv`. Reachability is stated without recursion, as membership in every
  set that contains the seeds and is closed under `Succ`. `PendingMarked` says
  that what is queued or being walked is marked; `ReachInv` that queue, current
  PC and bitmap stay within each closed set; `CompleteInv` that each known bit is
  explored, pending, or in `lost`.
* `FlagsFaithful` (`LookupFaithful`): `TableInv`. A slot torn by a reset reads as another address and gets the flags of
  that one; nothing completes it later, because the search for a slot takes only those that are erased as a whole.
* `CallsAreRecorded` (`CallsRecorded`): `CallsInv` is the property at any time: a JSR the walk has left behind is `Settled`, that is,
  its target is in a complete slot, or no slot is left. Both are stable.

### The static compile: `StaticCompileProofs`

* `TablesLeadToPass2`: `Spec => []TablesCurrent`. Between two blocks a slot that says compiled
  leads into a block of pass 2. Inside a block that is not so, because a block whose IR was given up
  publishes as it goes; `TablesInv` therefore allows a slot to lead into the block in
  flight, and `LoopInv` that the IR is never given up before code came out - else `UndoBlock`
  would leave such a slot behind.
* `CompiledOnceAlways`: `Spec => []CompiledOnce`. `Span` is the set of instructions that
  pass 2 may translate for an entry of the list. `SlotsInv` says that pass 1 has programmed the slot of
  every instruction of a span before it lists the entry, `ListInv` that entries ascend and each lies
  outside the spans before it (the scan takes only erased slots), `ReplayInv` that pass 2 stays in the
  span of its entry, `BlocksInv` that its blocks do. Spans are intervals, so disjoint spans follow
  from the order of their entries.
* `OverrunAlwaysBounded`: `Spec => []OverrunBounded`, a comparison of two compilations of the same instructions that lie far
  apart, when the first is gone. `Least` is the length an instruction has at least in pass 1. Pass 1 keeps that distance (`PaceInv`), since a forward branch never finds its
  target compiled there (`AheadInv`: behind the instruction at hand nothing is programmed), and leaves behind, for each
  entry of the list, *some* offsets that keep it (`ListedInv`, an existential over `Measured`). `TightInv` says that pass 2 is never further
  than those offsets plus 14 bytes for each backward branch so far. In pass 2 a forward branch may be shorter, never longer: the
  comment in the source (item 8 of section 5) is right about those.
* `ListWorkedOff`: `NoRomReads /\ Spec => []Pass2HasRoom`. Pass 2 asks for other sizes than pass 1, from an empty
  cache, so that its blocks land elsewhere. What saves it is that pass 1 reserves a block of maximal size for each entry:
  its blocks lie on a grid, and a sector has a fixed number of places on it (`GridInv`). A block of pass 2, which is never
  larger, reaches into one place more at most, so that a place is untouched for as long as the list is not through (`PlacesInv`, a
  pigeonhole argument on cardinalities). `RoomInv` is what it needs of the allocator. The hypothesis `NoRomReads` says that no
  instruction has ROM data copied into the cache, as on every platform but the NES: a copy would lie between the places.

### The frame loop: `NesFrameProofs`

* `Drained` says that the PPU queue is empty from the moment `lnList` has taken it until the handler is
  started or the watchdog has looked. With it `HandedOverBeforeNmi` (`Spec => PpuBeforeNmi`) is a case split
  over all actions: two places start a handler, and both are behind a hand-over or a test for an empty
  queue. The vertical blank touches neither.
* `OrderKept`: `Spec => []ShownInOrder`. `OrderInv` describes the handshake with the vertical blank: a list is pending only together
  with a request for the sync (`ListInv`); the flags that `render_video` loaded before the vertical blank and stores after it
  can bring a list back only if it has been shown, which `ShownInOrder` allows as long as it is the latest, since showing it
  again changes nothing; the spin is given up only when no
  list can be pending (`WaitInv`). The queue never outgrows its buffer (`Room`), so the names of the writes under way do not wrap.
* `NmiNeverNests` and `NmiIsBracketed` (`NmiBracketed`) are about guests that nest: `GuestsNested` gives every address a type, what lies on top of the
  stack there (nothing, a call, the NMI), such that RTS and RTI find what they expect (`WellNested`). It is decided by the
  program text, and the guests of `platform` satisfy it (`OrdinaryIsNested`, which TLC evaluates). A guest outside it, such as one that drops a
  return address, can pass the guard value inside its handler, and then the code is wrong about it.
  `GuestInv` says that the stack fits the types, `HandlerInv` that a handler on it is the one `nmi_active` and `nmi_sp_guard` stand for
  and that nothing is about to deliver another, `CallsInv` that each native call under way was entered above the
  handler, so that the trampoline, which does not look at the guard, never runs past an RTI. That gives
  `NmiNeverNests`: at most one handler, with `nmi_active` set. That it is also cleared in time is `ReturnedInv`: when the handler has
  left the stack the host is between the instruction and the test for it. This fails in a turn of the idle detector
  (section 5, item 24), hence the hypothesis `[]NoReturnInTurn`; it holds throughout the reachable states of `platform`, whose guests do
  have turns in the handler.

### Only model-checked

* Liveness (`CompilesSettle`, `EpiloguesLinked`, `WalkTerminates`, `ProgramFinishes`, `FramesServed`, `PollEnds`,
  `RenderReturns`): fairness and `ENABLED` are outside the prover.
* All of `Codegen`, the refinement included: it is built on `Cpu6502`, which uses the bitwise operators, and its properties
  are claimed for a suite of programs, not for all (section 5, items 12-16).
* `NmiBracketed` for guests that do not nest, or that return from the handler in a turn: it is no property of the code for those.
* `Pass2HasRoom` with data copies: a copy takes room that depends on what is copied when, and the count of places
  is then no bound.

## 5. Where code and comments disagree

Four have a run; the others were met while modelling, with the definition that shows the code's behaviour.

1. *Data copies in the trampoline pool*. `nes_rom_data_copy_b17`
   checks against the end of the sector, the block allocator keeps 256 bytes
   (`dynamos.c:1571`); a full branch scan takes an `$FF` of the copy for a free slot.
2. *Allocator over a persistent cache*. With `ENABLE_CACHE_PERSIST`
   (off by default) `flash_cache_init_sectors` resets the free offsets over
   code that `flash_init_persist` kept (`exidy.c:905`). And an entry torn by a power loss is never
   completed, so its PC is compiled again on each visit.
3. *Header walk stops at a data copy*. Blocks behind a copy are linked
   by no epilogue scan, although the full scan claims "all sectors and blocks"
   (`optimizer_v2_simple.c:566`).
4. *Native cycles*. The guard against loops that never return
   (`optimizer_v2_simple.c:402-404`) looks inside one block; two linked epilogues make such a loop as well.
5. *Cooldown*. Blocks compiled during the 120 frames after a full resolve
   are taken for old ones when it ends (`optimizer_v2_simple.c:489-492`, 515-519).
6. *Saturated counter*. 255 is no multiple of 8, so light sweeps
   stop about four seconds after settling (`optimizer_v2_simple.c:507`). `EpiloguesLinked` therefore holds
   only if the sweeps before that are enough to walk the flash: 16 sweeps of 64
   steps in the code, which a cache with more than about a thousand blocks
   exceeds. The same is true of the scaled values, and the instance stays below.
7. *Warm start of the walk*. Seeds that are already known are not
   enqueued, so after a reset nothing is walked (`static_analysis.c:339`, `static_analysis.h:19-22`); code behind listed targets, or
   cut off by a reset in the first walk, stays with the interpreter for good.
8. *Tight allocations* (run `static_fit`). A backward branch inside a block takes 5
   bytes in pass 1 and 19 in pass 2, so the block outgrows the bytes measured for it by 14 per loop (`OverrunBounded`) and is
   programmed over the next one (`static_analysis.c:1668-1669`).
9. *Entry behind an eliminated load* (run `mid_entry`). `ir_lower.c:846-848` and
   `static_analysis.c:1336-1338`.
10. *Idle PC* (run `idle_wait`). `main` does not run the guest while it is at an idle PC, even
    when the flag it waits for is set (`nes.c:474-480`, `static_analysis.c:381`).
11. *Yield without return* (run `native_wait`). The yield stub of a native loop re-dispatches at
    once (`dynamos-asm.s:434`, `ir_lower.c:649-651`).
12. *Flags of PLA*. The template restores the flags it had saved, so N and Z do not follow the value pulled
    (`dynamos-asm.s:1428-1437`); the guest test `cpu_6502_test.asm:1210-1211` branches on them.
13. *Branch templates do not read flags.* `flags_safe` skips raw bytes, so a load whose
    flags a branch template tests can be killed (`ir_opt.c:264-268`): `LDA #0 / LDX #1 / LDA #0 / BEQ`.
14. *PHP does not read flags* either, for `DeadLoad` and the elision of `PLP / PHP` pairs.
15. *Duplicates and pairs* look at zero-page addresses only: ABS aliases of the same cell are not seen; the carry scan behind
    `CMP #0` stops at `INX`; indexed read-modify-writes do not invalidate the ABS shadow.
16. *Register and flag table*. `INY` and `DEX` have each other's rows (`dynamos.c:2353`), and indexed operands do not count as reads of the
    index. At the end of a block some rules take a register for dead that others "conservatively assume live".
17. *IR given up in a block with a loop*: `fence_native_offset` stays 0 while the
    placeholders are resolved, so the loop branches to the start of its block (`ir_lower.c:583-595`). The suite holds no such program.
18. *Placeholders left behind*. A direct branch that cannot be resolved stays `JMP $FFFE` on every platform but the NES (`ir_lower.c:788-790`);
    its target was compiled when it was recorded, so the suite never executes one.
19. *Deferred patches*. An exit that does not fit in the node list is not recorded while a
    later one may be, and all that follow are matched one off; the bytes of a dirty mark are dropped silently when
    the list is full (`dynamos.c:2420-2423`, 4200).
20. *Dirty marks* count in a byte and wrap to clean after 256 (`dynamos-asm.s:923`), and `INC`/`DEC` of video memory sets none.
21. *One-byte opcodes* such as `INX` or `CLC` are left to the interpreter, other than `dynamos.c:3954-3961` says. Natively, `zp,X` does not wrap.
22. *Decimal mode* noticed at compile time: RTI and PLP restore D without `decimal_mode`.
23. *Native call and a frozen counter*. The trampoline returns to C only when the frame counter has moved
    (`dynamos-asm.s:778-847`); a clean subroutine that polls `$2002` while no sync is pending never sees a vertical
    blank, though the batch limit "guarantees the main loop runs periodically" (`dynamos.c:619-621`).
24. *Missed RTI*. A turn of the idle detector interprets eight instructions without looking at `nmi_sp_guard`
    (`dynamos.c:527-547`); one that begins in the handler can run over its RTI and the main thread's RTS, and `nmi_active` stays set.
25. *Late read of the counter*. If the vertical blank comes between the store of the sync request and
    the read of the counter (`nes.c:974-992`), the next render waits to its timeout. `RenderReturns` holds thanks to that.
26. *Comments on time*. `guest_vblank_pending` is set at hand-over, not at vertical blank (`nes.c:88-92`); OAM DMA is forwarded after any batch
    (`nes.c:131-133`, 505-514).
27. *Switches*. `config.h` has no include guard and defines `ENABLE_STATIC_ANALYSIS` behind the `#ifdef`s that test it; the
    idle detection and the native JSR are on because every file includes it twice.
28. *Static compile, smaller ones*: a block that ends in a backward `JMP` has an exit PC below its entry and
    is cut after its first instruction in pass 2 (1066-1068, 1666-1667 "boundaries match"); `sa_ir_pipeline_full` returns the size before
    stubs were appended, and the C side writes NOPs and the epilogue over them (1151-1160); a shorter block leaves erased
    bytes where the header walk of the linker expects the next header (1997-2001 "no wasted gaps"); a missing
    seed is not zeroed as 1936 says, so that of the block before is used; 1590-1606 and 1651-1670 describe a
    pre-population of the tables that was removed.
29. *Undone compile*. A NOP in front of an opcode for the interpreter emits nothing, so the compile is undone; the
    mark has gone to the opcode behind it, not to the PC of the entry as `dynamos.c:1020-1022` says, and every visit repeats the
    attempt. The guest gets on, because the compile loop has moved its PC to that opcode, which is interpreted
    (`ProgramFinishes`). The program of `cache_exidy` has such a NOP, and `CompilesSettle` excepts it by name (`InVain`).

## 6. Not modelled, and why

* The stack-safety and the idle scan: their verdicts are inputs. Both are one-shot algorithms over ROM without shared state.
* In `Codegen`: the pointer swizzling and tracked zero-page pointers with their mirror writes, the native
  `STA (zp),Y` that the default build never reaches, the seeding of the IR from predecessors, and links (a linked
  exit leads where the unlinked one leads: `LinksFaithful`).
* In `StaticCompile`: seeding, the limits of the IR lists, the linker sweeps between blocks, blocks that overlap, and
  operands that look like a skipped instruction (`BIT`). Banks of the PC tables in use are taken not to be repurposed for ROM.
* In `NesFrame`: sprites and OAM contents, scroll, gamepads, CHR reads, cartridge mappers, the `NES_NMI_VBLANK_FLAG` build, the
  decimal branch of `run_6502`, the sentinel check of WRAM, and the wrap of the idle detector's count. The stack pointer does
  not wrap: a guest that pushes more than a page has lost its own return addresses.
* The frame loops of Exidy, Millipede, Asteroids and Lunar Lander: they deliver one interrupt per frame from a
  latch and draw. Drawing, sound, controllers and metrics are I/O without state that the core reads back.
* `core/optimizer.c`, `optimizer_v2.c` and their relatives are replaced by `optimizer_v2_simple.c` in the build. Scripts
  run on the developer's machine; what two of them patch into the vertical-blank handler is part of `NesFrame`.

## 7. Plan

Next, in order of importance:

1. An abstract dispatcher over cache and linker: the composition of `TranslationCache` with the links of `BranchLinker`.
2. The lemmas about `IrPasses` that need no execution: what a pass keeps of the length, fences and order of a block.
3. `Pass2HasRoom` with data copies.
4. The stack-safety scan as an algorithm, checked against its meaning on all small control-flow graphs; the frame loop of the
   Exidy with its interrupt latch; the bank that is mapped on each exit.
