------------------------------- MODULE Codegen -------------------------------
(***************************************************************************)
(* The recompiler at work: guest code is compiled a block at a time        *)
(* (recompile_opcode_b2 per instruction, then every IR pass), published    *)
(* and run on the host, or interpreted an instruction at a time.  The      *)
(* guest state lives in host memory (mem): the recompiler's zero-page      *)
(* variables and the image of the guest RAM.                               *)
(***************************************************************************)
EXTENDS NativeCode

CONSTANTS
  Programs,    \* guest programs and builds: records [rom, entry, clean, polls, strict]
  Starts0,     \* register values at the start: records [a, x, y, p]
  GuestCells,  \* guest RAM and video cells a program uses
  CodeSize,    \* CODE_SIZE
  Room,        \* CACHE_CODE_BUF_SIZE less the epilogue and the cross-bank stub
  MaxNodes, MaxTmplPatches, MaxDirect, MaxDeferred, MaxFences, MaxInstrs,   \* IR_MAX_..., SA_IR_MAX_INSTRS
  MaxRun       \* guest instructions of one dispatch

EpilogueSize == 21
BlockSpan    == 256     \* distance of two blocks in flash

VARIABLES
  prog,      \* the guest program
  mem,       \* host memory
  flash,     \* native code: host address -> instruction
  native,    \* PC tables: guest PC -> native address
  interp,    \* guest PCs whose flag says INTERPRETED
  blocks,    \* number of blocks compiled
  pending,   \* patch requests handed to the linker
  phase,     \* "run", "compile", an IR pass, "lower", "publish", "stop"
  rounds,    \* rounds of ir_optimize
  blk,       \* the block being compiled
  host       \* the host processor while it runs native code
vars == <<prog, mem, flash, native, interp, blocks, pending, phase, rounds, blk, host>>

NoBlock == [entry |-> 0, pc |-> 0, ci |-> 0, nodes |-> << >>, raw |-> << >>, count |-> 0, enabled |-> TRUE,
            patches |-> 0, targets |-> {}, fences |-> << >>, directs |-> << >>, deferred |-> << >>,
            carryLive |-> TRUE, jsr |-> FALSE, instrs |-> << >>, dirty |-> {}, code |-> << >>, size |-> 0,
            offs |-> << >>, fenceOff |-> << >>, last |-> 0, go |-> TRUE]

NoHost == [pc |-> 0]
Base(n) == FlashBase + BlockSpan * n
Here == mem[ZPc] + 256 * mem[ZPcHi]
InRom(pc) == pc \in DOMAIN prog.rom
Compiled(pc) == pc \in DOMAIN native

-----------------------------------------------------------------------------
\* The guest processor as host memory holds it.

HostCell(g) == TranslateAddress(g)
Guest(m, rom) ==
  [a |-> m[ZA], x |-> m[ZX], y |-> m[ZY], sp |-> m[ZSp], p |-> Unpack(m[ZStatus]), pc |-> m[ZPc] + 256 * m[ZPcHi],
   mem |-> [g \in GuestCells |-> m[HostCell(g)]], rom |-> rom, dm |-> m[ZDecimal]]

\* write6502 notes stores to the video memories.
ScreenCells == {g \in GuestCells : g \in 16384..18431}
CharCells   == {g \in GuestCells : g \in 18432..20479}
StoresTo(c, i, cells) == i.op \in DOMAIN Stores \cup Modifiers /\ EffAddr(c, i) \in cells

WriteBack(m, c) ==
  LET cellOf == [g \in GuestCells |-> HostCell(g)]
      NewCell(h) == IF \E g \in GuestCells : cellOf[g] = h
                    THEN c.mem[CHOOSE g \in GuestCells : cellOf[g] = h] ELSE m[h]
  IN  [[h \in DOMAIN m |-> NewCell(h)] EXCEPT
         ![ZA] = c.a, ![ZX] = c.x, ![ZY] = c.y, ![ZSp] = c.sp, ![ZStatus] = Pack(c.p),
         ![ZPc] = Lo(c.pc), ![ZPcHi] = Hi(c.pc), ![ZDecimal] = c.dm]

\* interpret_6502, with the notes write6502 makes.
Interpreter(m) ==
  LET c == Guest(m, prog.rom)
      i == Decode(prog.rom, c.pc)
      w == WriteBack(m, Step6502(c, TRUE))
  IN  [w EXCEPT ![ZScreen] = IF StoresTo(c, i, ScreenCells) THEN 1 ELSE m[ZScreen],
                ![ZChar] = IF StoresTo(c, i, CharCells) THEN 1 ELSE m[ZChar]]

-----------------------------------------------------------------------------
\* Building a block: what an instruction handler leaves.

\* Targets of the conditional branches found ahead of the entry become fences.
ScanLimit == 32
FenceTargets(pc) ==
  LET rom == prog.rom
      i(p) == Decode(rom, p)
      Stop(p) == p \notin DOMAIN rom \/ i(p).op \in {"rts", "rti", "brk", "jmp"}
      scan[n \in 0..ScanLimit] ==
        IF n = 0 THEN <<pc>>
        ELSE LET s == scan[n - 1] l == s[Len(s)]
             IN  IF Stop(l) THEN s ELSE Append(s, l + Length(i(l).mode))
      seen == {scan[ScanLimit][k] : k \in 1..Len(scan[ScanLimit])}
      Goal(p) == Target(p + 2, i(p).arg)
  IN  {Goal(p) : p \in {q \in seen : ~Stop(q) /\ i(q).mode = "rel" /\ Goal(q) \in (pc + 1)..(pc + 127)}}

Fenced(b) ==
  IF b.ci > 0 /\ b.enabled /\ b.pc \in b.targets /\ b.count < MaxNodes /\ Len(b.fences) < MaxFences
  THEN [b EXCEPT !.nodes = Append(b.nodes, Insn("fence", "imp", b.pc)), !.count = b.count + 1,
                 !.raw = Append(b.raw, Insn("fence", "imp", b.pc)), !.fences = Append(b.fences, b.pc)]
  ELSE b

\* ir_record_native_b2: IR is given up when three more nodes do not fit.
Recorded(b, ns) ==
  LET fits == b.count + Len(ns) + 2 <= MaxNodes
  IN  [b EXCEPT !.nodes = b.nodes \o ns, !.raw = b.raw \o ns, !.enabled = b.enabled /\ fits,
                !.count = IF fits THEN b.count + Len(ns) ELSE Max({b.count, MaxNodes - 2})]

\* A JSR, NJSR or NRTS template stays one node, if its operands can be noted.
RecordedTemplate(b, n) ==
  LET need == IF n.mode = "nrts" THEN 0 ELSE 4
  IN  IF ~b.enabled THEN Recorded(b, <<n>>)
      ELSE IF b.patches + need > MaxTmplPatches THEN [b EXCEPT !.raw = Append(b.raw, n), !.enabled = FALSE]
      ELSE [b EXCEPT !.nodes = Append(b.nodes, n), !.raw = Append(b.raw, n), !.patches = b.patches + need,
                     !.count = Min({b.count + 1, MaxNodes})]

\* Mistake: a direct branch, whose exit is no $FFF0, is noted for the linker as well.
RecordedRaw_NotesDirect(b, n) ==
  LET fits == b.count + NodeBytes(n, prog.rom) <= MaxNodes
      noted == fits /\ Len(b.deferred) < MaxDeferred
  IN  [b EXCEPT !.nodes = Append(b.nodes, n), !.raw = Append(b.raw, n), !.enabled = b.enabled /\ fits,
                !.count = IF fits THEN b.count + NodeBytes(n, prog.rom) ELSE b.count,
                !.deferred = IF noted THEN Append(b.deferred, n.arg) ELSE b.deferred]

\* Code that must stay as it is; an exit through $FFF0 is noted for the linker.
RecordedRaw(b, n) ==
  LET fits == b.count + NodeBytes(n, prog.rom) <= MaxNodes
      noted == fits /\ n.op # "raw_direct" /\ Len(b.deferred) < MaxDeferred
  IN  [b EXCEPT !.nodes = Append(b.nodes, n), !.raw = Append(b.raw, n), !.enabled = b.enabled /\ fits,
                !.count = IF fits THEN b.count + NodeBytes(n, prog.rom) ELSE b.count,
                !.deferred = IF noted THEN Append(b.deferred, n.arg) ELSE b.deferred,
                !.carryLive = IF fits /\ n.op # "raw_jmp" THEN n.mode \in {"bcc", "bcs"} ELSE b.carryLive]

\* The call that marks the video memory dirty: three raw bytes, dropped silently when the list is full.
RecordedDirty(b, n) ==
  LET kept == Min({3, MaxNodes - b.count})
      node == IF kept = 3 THEN <<n>> ELSE IF kept = 0 THEN << >> ELSE <<Insn("raw_torn", "imp", kept)>>
  IN  [b EXCEPT !.nodes = b.nodes \o node, !.raw = Append(b.raw, n), !.count = b.count + kept]

\* The instruction is in the block: its bytes, its place, where the guest goes on.
Tracked(b, old) ==
  IF b.enabled /\ Len(b.instrs) < MaxInstrs
  THEN [b EXCEPT !.instrs = Append(b.instrs, [pc |-> old.pc, first |-> Len(old.nodes) + 1, off |-> old.ci])]
  ELSE b
Placed(b, old, size, next, go) ==
  LET t == Tracked(b, old)
      full == old.ci + size > CodeSize - 6
  IN  [t EXCEPT !.ci = old.ci + size, !.pc = next, !.last = old.pc, !.go = go /\ ~full /\ InRom(next)]
Left(b) == [Tracked(b, b) EXCEPT !.last = b.pc, !.go = FALSE]

Compiling == phase = "compile" /\ blk.go
Compile(b) == blk' = b /\ UNCHANGED <<prog, mem, flash, native, interp, blocks, pending, phase, rounds, host>>
\* enable_interpret: the instruction stays with the interpreter and ends the block.
InterpretedBut(b, m) ==
  /\ mem' = m /\ blk' = Left(b) /\ interp' = interp \cup ({b.pc} \ DOMAIN native)
  /\ UNCHANGED <<prog, flash, native, blocks, pending, phase, rounds, host>>
Interpreted(b) == InterpretedBut(b, mem)

-----------------------------------------------------------------------------
\* recompile_opcode_b2_inner, one operation per group of opcodes.

\* A direct branch: a placeholder that is resolved behind the optimiser.
DirectRoom(b) == b.ci + 5 + EpilogueSize + 6 < CodeSize /\ Len(b.directs) < MaxDirect
BranchRoom(b) == b.ci + 19 + 14 < CodeSize
Direct(b, i, goal) ==
  Placed([RecordedRaw(b, Insn("raw_direct", i.op, goal)) EXCEPT !.directs = Append(b.directs, [pc |-> goal, op |-> i.op])],
         b, 5, b.pc + 2, TRUE)
ViaFff0(b, i, goal) == Placed(RecordedRaw(b, Insn("raw_branch", i.op, goal)), b, 19, b.pc + 2, TRUE)

BranchesDirectly(b, goal) ==
  /\ Compiled(goal) /\ DirectRoom(b)

CompileBranch ==
  Compiling /\ \E i \in {Decode(prog.rom, blk.pc)}, b \in {Fenced(blk)} :
    /\ i.mode = "rel"
    /\ LET goal == Target(b.pc + 2, i.arg)
           forward == i.arg < 128
       IN  IF BranchesDirectly(b, goal) THEN Compile(Direct(b, i, goal))
           ELSE IF (forward \/ ~Compiled(goal)) /\ BranchRoom(b) THEN Compile(ViaFff0(b, i, goal))
           ELSE Interpreted(b)

CompileJump ==
  Compiling /\ \E i \in {Decode(prog.rom, blk.pc)}, b \in {Fenced(blk)} :
    /\ i.op = "jmp" /\ i.mode = "abso"
    /\ IF b.ci + 17 < CodeSize
       THEN Compile(Placed(RecordedRaw(b, Insn("raw_jmp", "imp", i.arg)), b, 17, i.arg, FALSE))
       ELSE Interpreted(b)

\* A short, simple subroutine is copied into the block.
NeverInlined == {"jsr", "jmp", "rti", "brk", "tsx", "txs", "pha", "pla", "php", "plp", "cli", "sei", "sed"}
MaxBody == 32
NativeInsn(i) ==
  CASE i.mode \in {"zp"} -> <<Insn(i.op, "abso", RamBase + i.arg)>>
    [] i.mode = "zpx" -> <<Insn(i.op, "absx", RamBase + i.arg)>>
    [] i.mode = "zpy" -> <<Insn(i.op, "absy", RamBase + i.arg)>>
    [] i.mode \in {"abso", "absx", "absy"} -> <<Insn(i.op, i.mode, TranslateAddress(i.arg))>>
    [] i.op = "nop" -> << >>
    [] OTHER -> <<i>>
Translatable(i) == i.mode \in {"abso", "absx", "absy"} => TranslateAddress(i.arg) # 0

Body(target, ci) ==
  LET rom == prog.rom
      Refused(i, n) == \/ i.op \in NeverInlined \/ i.mode \in {"rel", "indx", "indy", "ind"}
                       \/ (i.op = "stx" /\ i.mode = "zpy") \/ (i.op = "sty" /\ i.mode = "zpx")
                       \/ ~Translatable(i) \/ ci + n + 3 + EpilogueSize + 6 >= CodeSize
      walk[k \in 0..ScanLimit] ==
        IF k = 0 THEN [pc |-> target, code |-> << >>, done |-> FALSE, ok |-> TRUE]
        ELSE LET w == walk[k - 1]
                 i == Decode(rom, w.pc)
                 code == w.code \o NativeInsn(i)
             IN  IF w.done \/ ~w.ok THEN w
                 ELSE IF i.op = "rts" THEN [w EXCEPT !.done = TRUE]
                 ELSE IF Refused(i, Bytes(w.code)) \/ Bytes(code) > MaxBody THEN [w EXCEPT !.ok = FALSE]
                 ELSE [w EXCEPT !.pc = w.pc + Length(i.mode), !.code = code]
  IN  IF walk[ScanLimit].ok THEN walk[ScanLimit].code ELSE << >>

CallCode(b, mode) == Insn("template", mode, b.pc)
CallRoom(b, mode) == b.ci + NodeBytes(CallCode(b, mode), prog.rom) + EpilogueSize + 6 < CodeSize
Called(b, mode) ==
  Placed(RecordedTemplate(b, CallCode(b, mode)), b, NodeBytes(CallCode(b, mode), prog.rom), b.pc + 3, TRUE)

CompileCall ==
  Compiling /\ \E i \in {Decode(prog.rom, blk.pc)}, b \in {Fenced(blk)} :
    /\ i.op = "jsr"
    /\ LET body == IF i.arg \in prog.clean THEN Body(i.arg, b.ci) ELSE << >>
       IN  IF body # << >> THEN Compile(Placed(Recorded(b, body), b, Bytes(body), b.pc + 3, TRUE))
           ELSE IF i.arg \in prog.clean /\ CallRoom(b, "njsr") THEN Compile(Called(b, "njsr"))
           ELSE IF CallRoom(b, "jsr") THEN Compile([Called(b, "jsr") EXCEPT !.jsr = TRUE])
           ELSE Interpreted(b)

CompileReturn ==
  Compiling /\ \E i \in {Decode(prog.rom, blk.pc)}, b \in {Fenced(blk)} :
    /\ i.op = "rts"
    /\ LET n == CallCode(b, "nrts")
           size == NodeBytes(n, prog.rom)
       IN  IF CallRoom(b, "nrts") THEN Compile(Placed(RecordedTemplate(b, n), b, size, b.pc + 1, FALSE))
           ELSE Interpreted(b)

CompileStack ==
  Compiling /\ \E i \in {Decode(prog.rom, blk.pc)}, b \in {Fenced(blk)} :
    /\ i.op \in DOMAIN StackCode
    /\ LET code == StackCode[i.op]
       IN  IF b.ci + Bytes(code) + 3 < CodeSize
           THEN Compile(Placed(Recorded(b, code), b, Bytes(code), b.pc + 1, TRUE))
           ELSE Interpreted(b)

\* TSX and TXS work on the guest's stack pointer.
CompileTransferSp ==
  Compiling /\ \E i \in {Decode(prog.rom, blk.pc)}, b \in {Fenced(blk)} :
    /\ i.op \in {"tsx", "txs"}
    /\ LET code == <<ZpI(IF i.op = "tsx" THEN "ldx" ELSE "stx", ZSp)>>
       IN  IF b.ci + 6 < CodeSize THEN Compile(Placed(Recorded(b, code), b, 2, b.pc + 1, TRUE))
           ELSE Interpreted(b)

CompileNop ==
  Compiling /\ \E i \in {Decode(prog.rom, blk.pc)}, b \in {Fenced(blk)} :
    i.op = "nop" /\ i.mode = "imp" /\ Compile(Placed(b, b, 0, b.pc + 1, TRUE))

\* Loads, stores and arithmetic on immediate operands and translated addresses.
Plain(i) ==
  /\ i.mode \in {"imm", "zp", "zpx", "zpy", "abso", "absx", "absy"} /\ i.op \notin {"jmp", "jsr", "nop"}
  /\ ~(i.op = "stx" /\ i.mode = "zpy") /\ ~(i.op = "sty" /\ i.mode = "zpx")
  /\ Translatable(i)
VideoOf(i) == IF i.arg < 18432 THEN DirtyScreen ELSE DirtyChar

\* Mistake: one mark is taken to do for both video memories.
MarksVideo_OnePerBlock(b, i, size) ==
  /\ ~prog.polls /\ i.mode \in {"abso", "absx", "absy"} /\ i.arg \in 16384..20479
  /\ i.op \in DOMAIN Stores /\ b.dirty = {} /\ b.ci + size + 3 + EpilogueSize < CodeSize

MarksVideo(b, i, size) ==
  /\ ~prog.polls /\ i.mode \in {"abso", "absx", "absy"} /\ i.arg \in 16384..20479
  /\ i.op \in DOMAIN Stores /\ VideoOf(i) \notin b.dirty /\ b.ci + size + 3 + EpilogueSize < CodeSize
CompilePlain ==
  Compiling /\ \E i \in {Decode(prog.rom, blk.pc)}, b \in {Fenced(blk)} :
    /\ Plain(i)
    /\ LET code == NativeInsn(i)
           next == b.pc + Length(i.mode)
           r == Recorded(b, code)
           marked == [RecordedDirty(r, Insn("raw_dirty", "imp", VideoOf(i))) EXCEPT !.dirty = b.dirty \cup {VideoOf(i)}]
       IN  IF MarksVideo(b, i, Bytes(code)) THEN Compile(Placed(marked, b, Bytes(code) + 3, next, TRUE))
           ELSE Compile(Placed(r, b, Bytes(code), next, TRUE))

\* Everything else is left to the interpreter: all other one-byte instructions,
\* indirect operands, input and output.
CompileNothing ==
  Compiling /\ \E i \in {Decode(prog.rom, blk.pc)}, b \in {Fenced(blk)} :
    /\ i.mode \in {"acc", "indx", "indy", "ind"} \/ (i.mode = "zpy" /\ i.op = "stx") \/ (i.mode = "zpx" /\ i.op = "sty")
       \/ (i.mode = "imp" /\ i.op \notin DOMAIN StackCode \cup {"tsx", "txs", "nop", "rts"})
       \/ (i.mode # "rel" /\ i.op \notin {"jsr", "jmp"} /\ ~Translatable(i))
    /\ InterpretedBut(b, IF i.op = "sed" THEN [mem EXCEPT ![ZDecimal] = 1] ELSE mem)

-----------------------------------------------------------------------------
\* From the recorded block to published native code.

\* Mistake: the undone block gives the guest its PC back, for the next dispatch to compile again.
CompileEnd_OnlyUndoes ==
  /\ phase = "compile" /\ ~blk.go
  /\ IF blk.ci = 0 THEN phase' = "run" /\ blk' = NoBlock
     ELSE phase' = (IF blk.enabled THEN "redundant_load" ELSE "lower") /\ UNCHANGED blk
  /\ rounds' = 0
  /\ UNCHANGED <<prog, mem, flash, native, interp, blocks, pending, host>>

CompileEnd ==   \* an empty block is undone, and the instruction it stopped at interpreted
  /\ phase = "compile" /\ ~blk.go
  /\ IF blk.ci = 0
     THEN /\ phase' = "run" /\ blk' = NoBlock
          /\ mem' = Interpreter([mem EXCEPT ![ZPc] = Lo(blk.pc), ![ZPcHi] = Hi(blk.pc)])
     ELSE phase' = (IF blk.enabled THEN "redundant_load" ELSE "lower") /\ UNCHANGED <<mem, blk>>
  /\ rounds' = 0
  /\ UNCHANGED <<prog, flash, native, interp, blocks, pending, host>>

Pass(from, to, nodes) ==
  /\ phase = from /\ phase' = to /\ blk' = [blk EXCEPT !.nodes = nodes]
  /\ UNCHANGED <<prog, mem, flash, native, interp, blocks, pending, host>>

\* ir_optimize: the four core passes, again while one of them changes something.
OptRedundantLoad ==
  /\ Pass("redundant_load", "dead_store", RedundantLoad(blk.nodes)) /\ UNCHANGED rounds
OptDeadStore == Pass("dead_store", "dead_load", DeadStore(blk.nodes)) /\ UNCHANGED rounds
OptDeadLoad  == Pass("dead_load", "php_plp", DeadLoad(blk.nodes)) /\ UNCHANGED rounds
RoundOf(ns)  == PhpPlp(DeadLoad(DeadStore(RedundantLoad(ns))))
OptPhpPlp ==
  LET ns == PhpPlp(blk.nodes)
      settled == RoundOf(ns) = ns     \* the next round would be the last
  IN  /\ Pass("php_plp", IF settled \/ rounds + 1 = MaxRounds THEN "pair_rewrite" ELSE "redundant_load", ns)
      /\ rounds' = rounds + 1
\* ir_optimize_ext and ir_opt_rmw_fusion.
OptPairRewrite ==
  Pass("pair_rewrite", "rmw_fusion", ClcSecSink(PairRewrite(blk.nodes, blk.carryLive))) /\ UNCHANGED rounds
OptRmwFusion == Pass("rmw_fusion", "lower", RmwFusion(blk.nodes)) /\ UNCHANGED rounds

\* Native offset of the node k: where the first live node from k on begins.
FirstLive(ns, k, limit) == FirstOf({j \in LiveIn(ns, k, limit) : ns[j].op # "fence"})

\* ir_compute_instr_offsets, NoOffset for an instruction with nothing behind it.
NoOffset == 255
InstrOffsets(b, offs) ==
  LET n == Len(b.instrs)
      Limit(j) == IF j < n THEN b.instrs[j + 1].first - 1 ELSE Len(b.nodes)
      own == [j \in 1..n |-> FirstLive(b.nodes, b.instrs[j].first, Limit(j))]
      Next(j) == FirstOf({k \in j..n : own[k] # 0})
  IN  IF ~b.enabled THEN [j \in 1..n |-> b.instrs[j].off]
      ELSE [j \in 1..n |-> IF Next(j) = 0 THEN NoOffset ELSE offs[own[Next(j)]]]

\* Mistake: the offsets are taken before the optimiser has run.
FenceOffsets_AsRecorded(b, offs) ==
  LET Node(pc) == CHOOSE k \in 1..Len(b.raw) : b.raw[k].op = "fence" /\ b.raw[k].arg = pc
  IN  [pc \in {b.fences[k] : k \in 1..Len(b.fences)} |->
         IF b.enabled THEN OffsetsOf(b.raw, prog.rom)[Node(pc)] ELSE 0]

\* Fences keep offset 0 when the block was not lowered from its IR.
FenceOffsets(b, offs) ==
  LET Node(pc) == CHOOSE k \in 1..Len(b.nodes) : b.nodes[k].op = "fence" /\ b.nodes[k].arg = pc
  IN  [pc \in {b.fences[k] : k \in 1..Len(b.fences)} |-> IF b.enabled THEN offs[Node(pc)] ELSE 0]

\* ir_resolve_deferred_patches: the requests meet the $FFF0 exits in order.
Sites(seq) == SelectSeq([k \in 1..Len(seq) |-> k], LAMBDA k : seq[k].op = "jmp" /\ seq[k].arg = Fff0)
PatchesOf(b, seq, base) ==
  LET at == Sites(seq)
  IN  {[addr |-> AddrsOf(seq, base)[at[k]], pc |-> b.deferred[k]] : k \in 1..Min({Len(at), Len(b.deferred)})}

Lower ==
  /\ phase = "lower"
  /\ LET offs == OffsetsOf(blk.nodes, prog.rom)
         lowered == IF blk.enabled THEN Padded(PhpRestored(Lowered(blk.nodes, prog.rom)), blk.ci)
                    ELSE Lowered(blk.raw, prog.rom)
         fences == FenceOffsets(blk, offs)
         code == Resolved(lowered, blk.directs, fences, native, Base(blocks), prog.polls, prog.strict, Room)
     IN  /\ blk' = [blk EXCEPT !.code = code, !.size = Bytes(code), !.offs = InstrOffsets(blk, offs),
                               !.fenceOff = fences]
         /\ pending' = pending \cup PatchesOf(blk, code, Base(blocks))
  /\ phase' = "publish"
  /\ UNCHANGED <<prog, mem, flash, native, interp, blocks, rounds, host>>

\* The entry, then the fences, then every other instruction; an entry of the
\* tables that is taken stays as it is, and a leading PLP is stepped over.
Skip(code, off) == LET at == Laid(code, 0) IN IF off \in DOMAIN at /\ at[off].op = "plp" THEN off + 1 ELSE off
Published(b, base) ==
  LET fencePcs == IF b.enabled THEN {pc \in DOMAIN b.fenceOff : Skip(b.code, b.fenceOff[pc]) < b.size} ELSE {}
      rows == {j \in 1..Len(b.instrs) : b.offs[j] # NoOffset /\ Skip(b.code, b.offs[j]) < b.size}
      pcs == fencePcs \cup {b.instrs[j].pc : j \in rows}
      Off(pc) == IF pc \in fencePcs THEN Skip(b.code, b.fenceOff[pc])
                 ELSE Skip(b.code, b.offs[CHOOSE j \in rows : b.instrs[j].pc = pc])
  IN  [pc \in (pcs \cup {b.entry}) \ interp |-> base + (IF pc = b.entry THEN 0 ELSE Off(pc))]

Publish ==
  /\ phase = "publish"
  /\ LET base == Base(blocks) IN
       /\ flash' = Laid(blk.code \o EpilogueCode(blk.pc), base) @@ flash
       /\ native' = native @@ Published(blk, base)
  /\ blocks' = blocks + 1 /\ phase' = "run" /\ blk' = NoBlock
  /\ UNCHANGED <<prog, mem, interp, pending, rounds, host>>

-----------------------------------------------------------------------------
\* run_6502: dispatch, compile or interpret.

\* While D is set and decimal_mode says so everything is interpreted; decimal_mode
\* is cleared when D is not.
InDecimal == mem[ZDecimal] = 1 /\ "D" \in Unpack(mem[ZStatus])
Ready == phase = "run" /\ InRom(Here)

Dispatch ==
  /\ Ready /\ ~InDecimal /\ Compiled(Here)
  /\ host' = EnterNative([mem EXCEPT ![ZDecimal] = 0], prog.rom, native[Here]) /\ phase' = "native"
  /\ UNCHANGED <<prog, mem, flash, native, interp, blocks, pending, rounds, blk>>

\* One instruction of a block.
RunNative ==
  /\ phase = "native" /\ host.pc \in DOMAIN flash
  /\ host' = HostStep(host, flash[host.pc])
  /\ UNCHANGED <<prog, mem, flash, native, interp, blocks, pending, phase, rounds, blk>>

\* The interrupt of the vertical blank asks native loops to return.
Vblank ==
  /\ prog.polls /\ phase = "native" /\ host.mem[ZYield] = 0
  /\ host' = [host EXCEPT !.mem[ZYield] = 128]
  /\ UNCHANGED <<prog, mem, flash, native, interp, blocks, pending, phase, rounds, blk>>

Leave ==
  /\ phase = "native" /\ host.pc \in Exits
  /\ mem' = [c \in DOMAIN mem |-> LeaveNative(host)[c]]
  /\ phase' = "run" /\ host' = NoHost
  /\ UNCHANGED <<prog, flash, native, interp, blocks, pending, rounds, blk>>

Begin ==
  /\ Ready /\ ~InDecimal /\ ~Compiled(Here) /\ Here \notin interp
  /\ phase' = "compile" /\ mem' = [mem EXCEPT ![ZDecimal] = 0]
  /\ blk' = [NoBlock EXCEPT !.entry = Here, !.pc = Here, !.targets = FenceTargets(Here)]
  /\ UNCHANGED <<prog, flash, native, interp, blocks, pending, rounds, host>>

InterpretOne ==
  /\ Ready /\ (InDecimal \/ (~Compiled(Here) /\ Here \in interp))
  /\ mem' = Interpreter(IF InDecimal THEN mem ELSE [mem EXCEPT ![ZDecimal] = 0])
  /\ UNCHANGED <<prog, flash, native, interp, blocks, pending, phase, rounds, blk, host>>

Stop ==
  /\ phase = "run" /\ ~InRom(Here) /\ phase' = "stop"
  /\ UNCHANGED <<prog, mem, flash, native, interp, blocks, pending, rounds, blk, host>>

Stopped == phase = "stop" /\ UNCHANGED vars

HostCells == {ZA, ZX, ZY, ZSp, ZPc, ZPcHi, ZStatus, ZYield, ZScreen, ZChar, ZSavedSp, ZDecimal} \cup {HostCell(g) : g \in GuestCells}
StartMem(s, pc) ==
  [[c \in HostCells |-> 0] EXCEPT ![ZA] = s.a, ![ZX] = s.x, ![ZY] = s.y, ![ZSp] = 253, ![ZStatus] = Pack(s.p),
                                  ![ZPc] = Lo(pc), ![ZPcHi] = Hi(pc)]

Init ==
  /\ prog \in Programs
  /\ \E s \in Starts0 : mem = StartMem(s, prog.entry)
  /\ flash = << >> /\ native = << >> /\ interp = {} /\ blocks = 0 /\ pending = {}
  /\ phase = "run" /\ rounds = 0 /\ blk = NoBlock /\ host = NoHost

Next ==
  \/ Begin \/ CompileBranch \/ CompileJump \/ CompileCall \/ CompileReturn \/ CompileStack
  \/ CompileTransferSp \/ CompileNop \/ CompilePlain \/ CompileNothing \/ CompileEnd
  \/ OptRedundantLoad \/ OptDeadStore \/ OptDeadLoad \/ OptPhpPlp \/ OptPairRewrite \/ OptRmwFusion
  \/ Lower \/ Publish \/ Dispatch \/ RunNative \/ Vblank \/ Leave \/ InterpretOne \/ Stop \/ Stopped

\* The main loop calls run_6502 for ever.  Next is enabled until the program
\* stops, so this is WF_vars(Next) without TLC's having to compute ENABLED.
Fairness == <>[](phase = "stop") \/ []<><<Next>>_vars
Spec == Init /\ [][Next]_vars /\ Fairness

-----------------------------------------------------------------------------
\* The guest as an observer sees it, and the states it may start in.
GuestNow == Guest(mem, prog.rom)
GuestStarts == {Guest(StartMem(s, q.entry), q.rom) : s \in Starts0, q \in Programs}

Abstract == INSTANCE GuestSpec WITH cpu <- GuestNow, Starts <- GuestStarts

(* Whatever is compiled, optimised, resolved and run natively, the guest    *)
(* sees the processor of fake6502.c run.                                   *)
Implements == Abstract!Spec

(* A guest program that ends under the interpreter ends here as well: every *)
(* PC gets compiled, interpreted or linked, and no dispatch starves.       *)
ProgramFinishes == <>(phase = "stop")

(* Native code leaves as many bytes on the host's stack as it found.       *)
HostStackBalanced == phase = "native" /\ host.pc \in Exits => StackLeft(host) = 255

(* Every jump of native code leads to an instruction of a block or to a     *)
(* routine of the dispatcher; no placeholder is executed.                  *)
NativeStaysInCode == phase = "native" => host.pc \in DOMAIN flash \cup Exits

(* The code of a block, with the stubs the resolution of its branches       *)
(* appended, leaves room for the epilogue and the cross-bank stub in the    *)
(* buffer, and every PC that is published leads into it.                   *)
BlockFits ==
  phase = "publish" =>
    LET entries == Published(blk, 0)
    IN  blk.size <= Room /\ {entries[pc] : pc \in DOMAIN entries} \subseteq DOMAIN Laid(blk.code, 0)

(* A patch request goes to the linker with the PC that its exit stores: the  *)
(* requests noted while recording and the exits found in the lowered code  *)
(* are matched by their order alone (ir_resolve_deferred_patches).         *)
StoredBy(code, addr) ==
  LET lo == IF addr - 2 \in DOMAIN code /\ code[addr - 2].mode = "rel" THEN addr - 13 ELSE addr - 11
  IN  code[lo].arg + 256 * code[lo + 4].arg
PatchesMatch ==
  \A r \in pending : phase = "run" => StoredBy(flash, r.addr) = r.pc

(* A fence - the head of a loop of the block - has the native offset at       *)
(* which the instruction of its guest PC begins, for the branches of the    *)
(* block and for the PC tables: both offsets are computed from the nodes,   *)
(* by different functions, and must agree after the optimiser.             *)
FencesInUse == {blk.directs[k].pc : k \in 1..Len(blk.directs)} \cup (IF blk.enabled THEN DOMAIN blk.fenceOff ELSE {})
FencesLand ==
  phase = "publish" =>
    \A d \in FencesInUse \cap DOMAIN blk.fenceOff, j \in 1..Len(blk.instrs) :
      blk.instrs[j].pc = d /\ blk.offs[j] # NoOffset => blk.fenceOff[d] = blk.offs[j]

(* What the guest puts on the screen is drawn: a store to the video memory   *)
(* has raised the flag the renderer looks at, natively or interpreted.     *)
ScreenMarked ==
  phase = "run" /\ ~prog.polls =>
    /\ (\E g \in ScreenCells : mem[HostCell(g)] # 0) => mem[ZScreen] # 0
    /\ (\E g \in CharCells : mem[HostCell(g)] # 0) => mem[ZChar] # 0

-----------------------------------------------------------------------------
\* A claim of the repository that the code does not keep.

(* ir_lower.c:848-851: a dispatch that enters a block at the PC of one of    *)
(* its instructions behaves as the guest at that PC.                       *)
MidBlock == native[Here] % BlockSpan # FlashBase % BlockSpan
MidBlockEntryFaithful ==
  [][phase = "native" /\ phase' = "run" /\ MidBlock => Abstract!Next]_vars
=============================================================================
