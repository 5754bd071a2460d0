----------------------------- MODULE NativeCode -----------------------------
(***************************************************************************)
(* What the recompiler emits: the instruction templates of dynamos-asm.s,  *)
(* the lowering of IR nodes to host instructions (ir_lower), the           *)
(* resolution of direct branches, the epilogue of a block, and the         *)
(* routines that native code leaves through.                               *)
(***************************************************************************)
EXTENDS IrPasses

\* The recompiler's zero-page variables, the images of the guest memories
\* and the entry points of the dispatcher, as host addresses.
ZA == 240
ZX == 241
ZY == 242
ZSp == 243
ZPc == 244
ZPcHi == 245
ZStatus == 246
ZYield == 247
ZScreen == 248
ZChar == 249
ZSavedSp == 250
ZDecimal == 251
RamBase == 24576
ScreenBase == 25600
CharBase == 27648
RomBase == 32768 - 8192
FlashBase == 40960
Fff0 == 65520
Sentinel == 65534
CrossBank == 49152
ReturnNoRegs == 49155
NjsrTrampoline == 49158
DirtyScreen == 49161
DirtyChar == 49164
StackPage == RamBase + 256

\* translate_addr of the platform: 0 when the access must be interpreted.
TranslateAddress(g) ==
  CASE g < 1024 -> RamBase + g
    [] g \in 1024..16383 -> RomBase + g
    [] g \in 16384..18431 -> ScreenBase + (g - 16384)
    [] g \in 18432..20479 -> CharBase + (g - 18432)
    [] OTHER -> 0

I(op) == Insn(op, "imp", 0)
Imm(op, v) == Insn(op, "imm", v)
ZpI(op, addr) == Insn(op, "zp", addr)
Abs(op, addr) == Insn(op, "abso", addr)
AbsX(op, addr) == Insn(op, "absx", addr)
Rel(op, off) == Insn(op, "rel", off % 256)
Lo(w) == w % 256
Hi(w) == w \div 256

-----------------------------------------------------------------------------
\* Templates that are recorded instruction by instruction.

PhaCode == <<I("php"), ZpI("stx", ZX), ZpI("ldx", ZSp), AbsX("sta", StackPage),
             ZpI("dec", ZSp), ZpI("ldx", ZX), I("plp")>>
PlaCode == <<I("php"), ZpI("stx", ZX), ZpI("inc", ZSp), ZpI("ldx", ZSp),
             AbsX("lda", StackPage), ZpI("ldx", ZX), I("plp")>>
PhpCode == <<I("php"), I("pha"), I("php"), I("pla"), Imm("ora", 48), ZpI("stx", ZX), ZpI("ldx", ZSp),
             AbsX("sta", StackPage), ZpI("dec", ZSp), ZpI("ldx", ZX), I("pla"), I("plp")>>
PlpCode == <<ZpI("sta", ZA), ZpI("stx", ZX), ZpI("inc", ZSp), ZpI("ldx", ZSp), AbsX("lda", StackPage),
             ZpI("ldx", ZX), Imm("ora", 32), I("pha"), ZpI("lda", ZA), I("plp")>>
StackCode == [pha |-> PhaCode, pla |-> PlaCode, php |-> PhpCode, plp |-> PlpCode]

\* Templates that stay atomic in the IR.
SaveRegs == <<I("php"), ZpI("sta", ZA), ZpI("stx", ZX), ZpI("sty", ZY), ZpI("ldx", ZSp)>>
SetPc(pc) == <<Imm("lda", Lo(pc)), ZpI("sta", ZPc), Imm("lda", Hi(pc)), ZpI("sta", ZPcHi)>>
PushReturn(ret) == <<Imm("lda", Hi(ret)), AbsX("sta", StackPage), I("dex"),
                     Imm("lda", Lo(ret)), AbsX("sta", StackPage), I("dex"), ZpI("stx", ZSp)>>
JsrCode(target, ret) == SaveRegs \o PushReturn(ret) \o SetPc(target) \o <<Abs("jmp", ReturnNoRegs)>>
NjsrCode(target, ret) ==
  SaveRegs \o <<ZpI("stx", ZSavedSp)>> \o PushReturn(ret) \o SetPc(target) \o <<Abs("jmp", NjsrTrampoline)>>
NrtsCode ==
  SaveRegs \o <<I("inx"), AbsX("lda", StackPage), ZpI("sta", ZPc), I("inx"), AbsX("lda", StackPage),
                ZpI("sta", ZPcHi), ZpI("stx", ZSp), ZpI("inc", ZPc), Rel("bne", 2), ZpI("inc", ZPcHi),
                Abs("jmp", ReturnNoRegs)>>

\* Exits through $FFF0: a branch that is not compiled yet, and a jump.
InverseOf == [bcc |-> "bcs", bcs |-> "bcc", bne |-> "beq", beq |-> "bne",
            bpl |-> "bmi", bmi |-> "bpl", bvc |-> "bvs", bvs |-> "bvc"]
ExitFff0(pc) == <<ZpI("sta", ZA), I("php")>> \o SetPc(pc) \o <<ZpI("lda", ZA), I("plp")>>
BranchCode(op, pc) == ExitFff0(pc) \o <<Rel(InverseOf[op], 3), Abs("jmp", Fff0)>>
JumpCode(pc) == ExitFff0(pc) \o <<Abs("jmp", Fff0)>>
Placeholder(op) == <<Rel(InverseOf[op], 3), Abs("jmp", Sentinel)>>

\* The part of the patchable epilogue that runs before it is linked.
EpilogueCode(pc) ==
  <<I("php"), I("clc"), Rel("bcc", 4), I("plp"), Abs("jmp", 65535), ZpI("sta", ZA)>>
  \o SetPc(pc) \o <<Abs("jmp", CrossBank)>>
DispatchStub(pc) == <<ZpI("sta", ZA), I("php")>> \o SetPc(pc) \o <<Abs("jmp", CrossBank)>>
\* Mistake: the flags pushed for the poll are still on the stack when the block is left.
YieldStub_KeepsFlags(target, pc) ==
  <<I("php"), ZpI("bit", ZYield), Rel("bmi", 4), I("plp"), Abs("jmp", target)>> \o DispatchStub(pc)
YieldStub(target, pc) ==
  <<I("php"), ZpI("bit", ZYield), Rel("bmi", 4), I("plp"), Abs("jmp", target), I("plp")>> \o DispatchStub(pc)

-----------------------------------------------------------------------------
\* Sizes, and code laid out in flash.

Bytes(seq) == Walk(LAMBDA n, k : n + Length(seq[k].mode), 0, Len(seq))
AddrsOf(seq, base) ==   \* AddrsOf(seq, base)[k] is the address of instruction k
  Walk(LAMBDA s, k : Append(s, s[k] + Length(seq[k].mode)), <<base>>, Len(seq))
Laid(seq, base) ==
  LET st == AddrsOf(seq, base)
      At(addr) == seq[CHOOSE k \in 1..Len(seq) : st[k] = addr]
  IN  [addr \in {st[k] : k \in 1..Len(seq)} |-> At(addr)]

-----------------------------------------------------------------------------
\* ir_lower: a node and its host instructions.

JsrTarget(rom, pc) == Word(rom, pc + 1, pc + 2)
NodeCode(n, rom) ==
  CASE n.op \in {"dead", "fence"} -> << >>
    [] n.op = "template" /\ n.mode = "jsr" -> JsrCode(JsrTarget(rom, n.arg), n.arg + 2)
    [] n.op = "template" /\ n.mode = "njsr" -> NjsrCode(JsrTarget(rom, n.arg), n.arg + 2)
    [] n.op = "template" /\ n.mode = "nrts" -> NrtsCode
    [] n.op = "raw_direct" -> Placeholder(n.mode)
    [] n.op = "raw_branch" -> BranchCode(n.mode, n.arg)
    [] n.op = "raw_jmp"    -> JumpCode(n.arg)
    [] n.op = "raw_dirty"  -> <<Abs("jsr", n.arg)>>
    [] n.op = "raw_torn"   -> <<Insn("jam", "imp", 0), Insn("jam", "imp", 0)>>
    [] OTHER -> <<n>>

NodeBytes(n, rom) == Bytes(NodeCode(n, rom))
OffsetsOf(ns, rom) == Walk(LAMBDA s, k : Append(s, s[k] + NodeBytes(ns[k], rom)), <<0>>, Len(ns))
Lowered(ns, rom) == FlattenSeq([k \in 1..Len(ns) |-> NodeCode(ns[k], rom)])

\* A template that lost its leading PHP gets one back.
PrologueA == <<ZpI("sta", ZA), ZpI("stx", ZX), ZpI("sty", ZY)>>
PrologueB == <<ZpI("sta", ZA), ZpI("sty", ZY), ZpI("ldx", ZSp), I("inx")>>
Matches(seq, k, p) == k + Len(p) - 1 <= Len(seq) /\ \A j \in 1..Len(p) : Same(seq[k + j - 1], p[j])
PhpRestored(seq) ==
  LET k == FirstOf({j \in 1..Len(seq) : Matches(seq, j, PrologueA) \/ Matches(seq, j, PrologueB)})
  IN  IF k = 0 \/ (k > 1 /\ seq[k - 1].op = "php") THEN seq ELSE InsertAt(seq, k, I("php"))

\* NOPs fill the room that the optimiser gained.
Padded(seq, size) == seq \o [k \in 1..(IF size > Bytes(seq) THEN size - Bytes(seq) ELSE 0) |-> I("nop")]

-----------------------------------------------------------------------------
(***************************************************************************)
(* ir_resolve_direct_branches, on the lowered code seq of the block at     *)
(* base.  directs lists the targets of the placeholders in order; fences   *)
(* maps the guest PCs of the fences of this block to their native offsets, *)
(* known the published addresses that another block of the same bank has.  *)
(* polls: the build ends intra-block loops at each vertical blank.         *)
(***************************************************************************)
Nops(n) == [k \in 1..n |-> I("nop")]
Placeholders(seq) == {k \in 1..Len(seq) : k > 1 /\ seq[k].op = "jmp" /\ seq[k].arg = Sentinel}

\* Mistake: only the fences of the block itself are looked up.
Destination_OwnOnly(d, fences, known, base, len) ==
  IF d.pc \in DOMAIN fences /\ fences[d.pc] < len THEN [addr |-> base + fences[d.pc], own |-> TRUE]
  ELSE [addr |-> 0, own |-> FALSE]

Destination(d, fences, known, base, len) ==
  IF d.pc \in DOMAIN fences /\ fences[d.pc] < len THEN [addr |-> base + fences[d.pc], own |-> TRUE]
  ELSE IF d.pc \in DOMAIN known /\ known[d.pc] \notin base..(base + len - 1)
       THEN [addr |-> known[d.pc], own |-> FALSE]
       ELSE [addr |-> 0, own |-> FALSE]

StubRoom_Unchecked(seq, size, room) == TRUE   \* Mistake: the stub is appended whatever is left
StubRoom(seq, size, room) == Bytes(seq) + size <= room

\* The placeholder whose JMP is instruction k of seq.
ResolveOne(seq, k, d, dest, base, polls, strict, room) ==
  LET from == AddrsOf(seq, base)[k]
      far == [seq EXCEPT ![k] = Abs("jmp", dest.addr)]
      near == SubSeq(seq, 1, k - 2) \o <<Rel(d.op, dest.addr - from)>> \o Nops(3) \o SubSeq(seq, k + 1, Len(seq))
      gone == SubSeq(seq, 1, k - 2) \o Nops(5) \o SubSeq(seq, k + 1, Len(seq))
      Stub(code) == [seq EXCEPT ![k] = Abs("jmp", base + Bytes(seq))] \o code
      stub == IF StubRoom(seq, 14, room) THEN Stub(DispatchStub(d.pc)) ELSE gone
  IN  IF dest.addr = 0 THEN (IF strict THEN stub ELSE seq)
      ELSE IF polls /\ dest.own /\ dest.addr < from
           THEN IF StubRoom(seq, 24, room) THEN Stub(YieldStub(dest.addr, d.pc)) ELSE stub
      ELSE IF dest.addr - from \in -128..127 THEN near ELSE far

Resolved(seq, directs, fences, known, base, polls, strict, room) ==
  LET len == Bytes(seq)
      One(s, d) ==
        LET k == FirstOf(Placeholders(s) \ {j \in Placeholders(s) : j <= d.done})
            dest == Destination(directs[d.n], fences, known, base, len)
        IN  [code |-> IF k = 0 THEN s ELSE ResolveOne(s, k, directs[d.n], dest, base, polls, strict, room),
             done |-> k]
      Step(w, n) == LET r == One(w.code, [n |-> n, done |-> w.done]) IN [code |-> r.code, done |-> r.done]
  IN  FoldLeftDomain(Step, [code |-> seq, done |-> 0], directs).code

-----------------------------------------------------------------------------
\* Running native code: the host is a 6502 without decimal mode.

HostStack == 496..511

\* dispatch_on_pc: load the guest registers and flags, jump.  Native code reads
\* the guest's ROM where the platform has copied it.
EnterNative(m, rom, addr) ==
  [a |-> m[ZA], x |-> m[ZX], y |-> m[ZY], sp |-> 255, p |-> Unpack(m[ZStatus]), pc |-> addr,
   mem |-> [c \in DOMAIN m \cup HostStack |-> IF c \in HostStack THEN 0 ELSE m[c]],
   rom |-> [c \in {RomBase + g : g \in DOMAIN rom} |-> rom[c - RomBase]], dm |-> 0]

\* _dirty_flag_screen and _dirty_flag_char count a store and keep the flags.
DirtyCall(h, i) ==
  LET flag == IF i.arg = DirtyScreen THEN ZScreen ELSE ZChar
  IN  [h EXCEPT !.mem[flag] = (h.mem[flag] + 1) % 256, !.pc = h.pc + 3]

HostStep(h, i) == IF i.op = "jsr" THEN DirtyCall(h, i) ELSE Exec([h EXCEPT !.pc = h.pc + Length(i.mode)], i, FALSE)

Exits == {Fff0, CrossBank, ReturnNoRegs, NjsrTrampoline}

\* fff0_dispatch saves the registers and flags itself; cross_bank_dispatch saves
\* X and Y and pulls the flags that the epilogue pushed; the others only pull.
LeaveNative(h) ==
  LET m == h.mem
      flags == IF h.pc = Fff0 THEN Pack(h.p \cup {"B", "U"}) ELSE Top(h, 1)
      saved == CASE h.pc = Fff0 -> [m EXCEPT ![ZA] = h.a, ![ZX] = h.x, ![ZY] = h.y]
                 [] h.pc = CrossBank -> [m EXCEPT ![ZX] = h.x, ![ZY] = h.y, ![ZYield] = 0]
                 [] OTHER -> m
  IN  [saved EXCEPT ![ZStatus] = flags]
\* The host stack pointer that the exit leaves; 255 when pushes and pulls match.
StackLeft(h) == IF h.pc = Fff0 THEN h.sp ELSE (h.sp + 1) % 256
=============================================================================
