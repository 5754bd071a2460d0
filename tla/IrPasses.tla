------------------------------ MODULE IrPasses ------------------------------
(***************************************************************************)
(* The optimiser of the recompiler's intermediate representation: every    *)
(* pass of ir_opt.c, ir_opt_ext.c and ir_lower.c as an operator from a     *)
(* node list to a node list.  A node is an instruction of the host         *)
(* (mode "zp" is IR_xxx_ZP, "abso" is IR_xxx_ABS, ...), or one of          *)
(*   dead      a killed node,                                              *)
(*   fence     IR_PC_MARK: a place other code may jump to (arg its PC),    *)
(*   template  a JSR, NJSR or NRTS template (mode its kind, arg its PC),   *)
(*   raw_*     bytes the optimiser must not look into: a branch template,  *)
(*             an exit through $FFF0, a call of a dirty-flag routine.      *)
(***************************************************************************)
EXTENDS Cpu6502, FiniteSetsExt

CONSTANTS ShadowSize, MaxRounds
ASSUME ShadowSizeAssumption == ShadowSize \in Nat \ {0}
ASSUME MaxRoundsAssumption == MaxRounds \in Nat \ {0}

Dead == Insn("dead", "imp", 0)
Kill(ns, i) == [ns EXCEPT ![i] = Dead]
Becomes(ns, i, op, mode, arg) == [ns EXCEPT ![i] = Insn(op, mode, arg)]
Same(n, k) == n.op = k.op /\ n.mode = k.mode /\ n.arg = k.arg

LiveIn(ns, i, j) == {k \in i..j : ns[k].op # "dead"}
After(ns, i)     == LiveIn(ns, i + 1, Len(ns))
Before(ns, i)    == LiveIn(ns, 1, i - 1)
\* The places where a scan stops: the first, or the last, of them; 0 if there is none.
FirstOf(S) == IF S = {} THEN 0 ELSE Min(S)
LastOf(S)  == IF S = {} THEN 0 ELSE Max(S)

-----------------------------------------------------------------------------
\* What a node reads and writes, as the predicates of ir_opt.c see it.

RawOps    == {"raw_direct", "raw_branch", "raw_jmp", "raw_dirty"}
Shifts    == {"asl", "lsr", "rol", "ror"}
Modifiers == Shifts \cup {"inc", "dec"}
Regs      == {"a", "x", "y"}
LoadOf    == [a |-> "lda", x |-> "ldx", y |-> "ldy"]
StoreOf   == [a |-> "sta", x |-> "stx", y |-> "sty"]
StepUp    == [x |-> "inx", y |-> "iny"]
StepDown  == [x |-> "dex", y |-> "dey"]
Arith     == {"adc", "sbc", "and", "ora", "eor"}

WriterOps == [a |-> {"lda", "pla", "txa", "tya"} \cup Arith,
              x |-> {"ldx", "tax", "tsx", "inx", "dex"},
              y |-> {"ldy", "tay", "iny", "dey"}]
ReaderOps == [a |-> {"sta", "pha", "tax", "tay", "cmp", "bit", "template"} \cup Arith,
              x |-> {"stx", "txa", "txs", "inx", "dex", "cpx", "template"},
              y |-> {"sty", "tya", "iny", "dey", "cpy", "template"}]
ReaderMode == [a |-> "acc", x |-> "absx", y |-> "absy"]

Writes(n, r) == n.op \in WriterOps[r] \/ (r = "a" /\ n.mode = "acc")
Reads(n, r)  == n.op \in ReaderOps[r] \/ n.mode = ReaderMode[r]

WritesFlags(n) ==
  n.op \notin {"sta", "stx", "sty", "pha", "txs", "jmp", "jsr", "rts", "nop", "template", "dead"} \cup RawOps
ReadsFlags(n) == n.op \in {"adc", "sbc", "rol", "ror", "plp"} \cup DOMAIN Branches
ReadsCarry(n) == n.op \in {"adc", "sbc", "rol", "ror", "bcc", "bcs", "template"}

\* Mistake: branches from behind into the block are forgotten.
Barrier_ForgetsFences(n) == n.op \in {"jsr", "rts", "jmp", "template"} \cup RawOps \cup DOMAIN Branches
Barrier(n) == n.op \in {"jsr", "rts", "jmp", "fence", "template"} \cup RawOps \cup DOMAIN Branches

IsStore(n)   == n.op \in DOMAIN Stores
WritesZp(n, addr) == n.mode = "zp" /\ n.arg = addr /\ n.op \in DOMAIN Stores \cup Modifiers

\* flags_safe: nobody from node i on uses the flags before they are written again.
FlagsSafe(ns, i) ==
  LET Concerned(n) == ReadsFlags(n) \/ WritesFlags(n) \/ n.op = "template"
      k == FirstOf({j \in After(ns, i - 1) : Concerned(ns[j])})
  IN  k = 0 \/ ~(ReadsFlags(ns[k]) \/ ns[k].op = "template")

-----------------------------------------------------------------------------
(***************************************************************************)
(* Pass 1, redundant loads and stores: a forward walk with the known       *)
(* register values and two small caches of known memory cells.             *)
(***************************************************************************)
Unknown == -1
NoRegs  == [a |-> Unknown, x |-> Unknown, y |-> Unknown]
NoSlot  == [addr |-> Unknown, val |-> Unknown]
Slots   == 0..(ShadowSize - 1)
NoCache == [slot |-> [s \in Slots |-> NoSlot], lru |-> 0]

Cached(cache, addr) == {s \in Slots : cache.slot[s].addr = addr}
Forget(cache, addr) ==
  IF Cached(cache, addr) = {} THEN cache ELSE [cache EXCEPT !.slot[Min(Cached(cache, addr))] = NoSlot]
Flush(cache) == [cache EXCEPT !.slot = NoCache.slot]
Remember(cache, addr, v) ==
  LET free == Cached(cache, Unknown)
      s == IF free = {} THEN cache.lru ELSE Min(free)
  IN  [slot |-> [cache.slot EXCEPT ![s] = [addr |-> addr, val |-> v]], lru |-> (s + 1) % ShadowSize]
ValueOf(cache, addr) ==
  IF Cached(cache, addr) = {} THEN Unknown ELSE cache.slot[Min(Cached(cache, addr))].val

\* The value the register r holds behind node n.
RegAfter(w, n, r) ==
  LET cell == IF n.op = LoadOf[r] /\ n.mode \in {"zp", "abso"} THEN ValueOf(w[n.mode], n.arg) ELSE Unknown
      Stepped(step) == r # "a" /\ w.reg[r] # Unknown /\ n.op = step[r]
  IN  IF n.op = LoadOf[r] /\ n.mode = "imm" THEN n.arg
      ELSE IF cell # Unknown THEN cell
      ELSE IF Stepped(StepUp) THEN (w.reg[r] + 1) % 256
      ELSE IF Stepped(StepDown) THEN (w.reg[r] - 1) % 256
      ELSE IF Writes(n, r) \/ n.op = "template" THEN Unknown
      ELSE w.reg[r]

\* The cache of one address space ("zp" or "abso") behind node n.
CacheAfter(w, n, space) ==
  LET v == w.reg[Stores[n.op]]
  IN  CASE IsStore(n) /\ n.mode = space ->
             IF v = Unknown THEN Forget(w[space], n.arg) ELSE Remember(Forget(w[space], n.arg), n.arg, v)
        [] n.op \in Modifiers /\ n.mode = space -> Forget(w[space], n.arg)
        [] space = "abso" /\ n.op = "sta" /\ n.mode \in {"absx", "absy"} -> Flush(w[space])
        [] OTHER -> w[space]

Shadowed(w, n) ==
  IF Barrier(n)
  THEN [w EXCEPT !.reg = NoRegs, !.zp = Flush(w.zp), !.abso = Flush(w.abso)]
  ELSE [w EXCEPT !.reg = [a |-> RegAfter(w, n, "a"), x |-> RegAfter(w, n, "x"), y |-> RegAfter(w, n, "y")],
                 !.zp = CacheAfter(w, n, "zp"), !.abso = CacheAfter(w, n, "abso")]

KnownLoad(w, n) == n.mode = "imm" /\ \E r \in Regs : n.op = LoadOf[r] /\ w.reg[r] = n.arg
Identity(n)   == n.mode = "imm" /\ <<n.op, n.arg>> \in {<<"and", 255>>, <<"ora", 0>>, <<"eor", 0>>}
FullMask(n)   == n.mode = "imm" /\ <<n.op, n.arg>> \in {<<"and", 0>>, <<"ora", 255>>}
Foldable(w, n) == n.mode = "imm" /\ w.reg.a # Unknown /\ n.op \in {"and", "ora", "eor"}
KnownStore(w, n) ==
  /\ IsStore(n) /\ n.mode \in {"zp", "abso"}
  /\ w.reg[Stores[n.op]] # Unknown /\ ValueOf(w[n.mode], n.arg) = w.reg[Stores[n.op]]

LoadImmediate(w, i, v) == [w EXCEPT !.ns = Becomes(w.ns, i, "lda", "imm", v), !.reg.a = v]

RedundantLoad(ns) ==
  LET Visit(w, i) ==
        LET n == w.ns[i]
            useless == (KnownLoad(w, n) \/ Identity(n)) /\ FlagsSafe(w.ns, i + 1)
        IN  IF n.op = "dead" THEN w
            ELSE IF useless \/ KnownStore(w, n) THEN [w EXCEPT !.ns = Kill(w.ns, i)]
            ELSE IF FullMask(n) THEN LoadImmediate(w, i, IF n.op = "and" THEN 0 ELSE 255)
            ELSE IF Foldable(w, n) THEN LoadImmediate(w, i, LogicOf(n.op, w.reg.a, n.arg))
            ELSE Shadowed(w, n)
  IN  Walk(Visit, [ns |-> ns, reg |-> NoRegs, zp |-> NoCache, abso |-> NoCache], Len(ns)).ns

-----------------------------------------------------------------------------
\* Pass 2, dead stores to the recompiler's zero-page variables.

\* The store writes back what was just loaded from the same place.
StoreBack(ns, i) ==
  LET r == Stores[ns[i].op]
      Reload(n) == n.op = LoadOf[r] /\ n.mode = "zp" /\ n.arg = ns[i].arg
      Stops(n) == Reload(n) \/ Writes(n, r) \/ WritesZp(n, ns[i].arg) \/ Barrier(n)
      k == LastOf({j \in Before(ns, i) : Stops(ns[j])})
  IN  k # 0 /\ Reload(ns[k])

\* The next access to the place is another store.
Overwritten(ns, i) ==
  LET k == FirstOf({j \in After(ns, i) : Barrier(ns[j]) \/ (ns[j].mode = "zp" /\ ns[j].arg = ns[i].arg)})
  IN  k # 0 /\ ~Barrier(ns[k]) /\ IsStore(ns[k])

DeadStore(ns) ==
  LET Visit(w, i) == IF IsStore(w[i]) /\ w[i].mode = "zp" /\ (StoreBack(w, i) \/ Overwritten(w, i))
                     THEN Kill(w, i) ELSE w
  IN  Walk(Visit, ns, Len(ns))

-----------------------------------------------------------------------------
\* Pass 2b, dead loads: register and flags are both written again before they are read.

DeadAfter(ns, i, r) ==
  LET b == FirstOf({j \in After(ns, i) : Barrier(ns[j])})
      w == FirstOf({j \in After(ns, i) : Writes(ns[j], r)})
      f == FirstOf({j \in After(ns, i) : WritesFlags(ns[j])})
  IN  /\ w # 0 /\ f # 0 /\ (b = 0 \/ (w < b /\ f < b))
      /\ \A j \in LiveIn(ns, i + 1, w) : ~Reads(ns[j], r)
      /\ \A j \in LiveIn(ns, i + 1, f) : ns[j].op = "plp" \/ ~ReadsFlags(ns[j])

DeadLoad(ns) ==
  LET Visit(w, i) == IF w[i].op \in DOMAIN Loads /\ w[i].mode \in {"zp", "imm"} /\ DeadAfter(w, i, Loads[w[i].op])
                     THEN Kill(w, i) ELSE w
  IN  Walk(Visit, ns, Len(ns))

-----------------------------------------------------------------------------
\* Pass 3, PLP followed by PHP.

PhpPlp(ns) ==
  LET Stops(n) == n.op = "php" \/ ReadsFlags(n) \/ WritesFlags(n) \/ Barrier(n)
      Visit(w, i) ==
        LET k == FirstOf({j \in After(w, i) : Stops(w[j])})
        IN  IF w[i].op = "plp" /\ k # 0 /\ w[k].op = "php" THEN Kill(Kill(w, i), k) ELSE w
  IN  Walk(Visit, ns, Len(ns))

-----------------------------------------------------------------------------
(***************************************************************************)
(* Pass 4a, pairs (ir_opt_ext.c): repeated instructions, then the next two *)
(* live nodes against a list of rules, of which the first that applies is  *)
(* taken.                                                                  *)
(***************************************************************************)

\* What ir_op_flags_b2 says of a node: the index register of an indexed
\* operand is not a read, rotates do not read the flags, and the rows of INY
\* and DEX are exchanged against the numbering of ir.h.
TableReads(n, r) ==
  CASE n.op = "dex" -> r = "y"
    [] n.op = "iny" -> r = "x"
    [] OTHER -> n.op \in ReaderOps[r] \/ (r = "a" /\ n.mode = "acc")
TableWrites(n, r) ==
  CASE n.op = "dex" -> r = "y"
    [] n.op = "iny" -> r = "x"
    [] OTHER -> Writes(n, r) \/ n.op = "template"
TableReadsFlags(n) == n.op \in {"adc", "sbc", "php", "template"} \cup DOMAIN Branches
TableWritesFlags(n) ==
  n.op = "template" \/ (WritesFlags(n) /\ n.op \notin {"php", "brk", "fence"} \cup DOMAIN Branches)

OnlyOnce(n) ==
  n.op \in Modifiers \cup {"php", "plp", "pha", "pla", "inx", "dex", "iny", "dey", "adc", "sbc", "eor"}
  \/ n.mode \in {"absx", "absy"}

Interferes(n, mid) ==
  \/ Barrier(mid)
  \/ \E r \in Regs : (TableReads(n, r) \/ TableWrites(n, r)) /\ TableWrites(mid, r)
  \/ (TableReadsFlags(n) \/ TableWritesFlags(n)) /\ TableWritesFlags(mid)
  \/ n.mode = "zp" /\ WritesZp(mid, n.arg)

WithoutRepeats(ns, i) ==
  LET n == ns[i]
      stop == FirstOf({j \in After(ns, i) : ~Same(ns[j], n) /\ Interferes(n, ns[j])})
      end == IF stop = 0 THEN Len(ns) ELSE stop - 1
  IN  IF Barrier(n) \/ OnlyOnce(n) THEN ns
      ELSE FoldSet(LAMBDA j, w : Kill(w, j), ns, {j \in LiveIn(ns, i + 1, end) : Same(ns[j], n)})

\* r is read, or a barrier comes, before r is written again; at the end it is free.
UsedAfter(ns, j, r) ==
  LET k == FirstOf({l \in After(ns, j) : Reads(ns[l], r) \/ Writes(ns[l], r) \/ Barrier(ns[l])})
  IN  k # 0 /\ (Reads(ns[k], r) \/ ~Writes(ns[k], r))
FlagsUsedAfter(ns, j) ==
  LET k == FirstOf({l \in After(ns, j) : ReadsFlags(ns[l]) \/ WritesFlags(ns[l])})
  IN  k # 0 /\ ReadsFlags(ns[k])
CarryUsedAfter(ns, j, live) ==
  LET k == FirstOf({l \in After(ns, j) : ReadsCarry(ns[l]) \/ WritesFlags(ns[l]) \/ Barrier(ns[l])})
  IN  k # 0 /\ (ReadsCarry(ns[k]) \/ (~WritesFlags(ns[k]) /\ live))

Undone == {<<"tax", "txa">>, <<"txa", "tax">>, <<"tay", "tya">>, <<"tya", "tay">>,
           <<"txs", "tsx">>, <<"tsx", "txs">>}
ToReg   == [x |-> "tax", y |-> "tay"]
FromReg == [x |-> "txa", y |-> "tya"]

\* Each rule: when it applies to the live nodes i and j, and what it makes of them.
Zp(n, op) == n.op = op /\ n.mode = "zp"

PairRule(ns, i, j, carryLive) ==
  LET a == ns[i]
      b == ns[j]
      SamePlace == a.arg = b.arg
      Killed(k) == Kill(ns, k)
      Transfer(r) == \* LDA #v, TAr: load r at once
        a.op = "lda" /\ a.mode = "imm" /\ b.op = ToReg[r] /\ ~UsedAfter(ns, j, "a")
      Reload(r) == Zp(a, StoreOf[r]) /\ Zp(b, LoadOf[r]) /\ SamePlace /\ ~FlagsUsedAfter(ns, j)
      CompareZero(r) ==
        /\ b.op \in DOMAIN Compares /\ Compares[b.op] = r /\ b.mode = "imm" /\ b.arg = 0
        /\ Writes(a, r) /\ WritesFlags(a) /\ ~CarryUsedAfter(ns, j, carryLive)
  IN  CASE <<a.op, b.op>> \in Undone -> Killed(j)
        [] Transfer("x") -> Becomes(Killed(j), i, "ldx", "imm", a.arg)
        [] Transfer("y") -> Becomes(Killed(j), i, "ldy", "imm", a.arg)
        [] \E r \in Regs : Reload(r) -> Killed(j)
        [] Zp(a, "lda") /\ Zp(b, "sta") /\ SamePlace -> Killed(j)
        [] a.op = "tax" /\ Zp(b, "stx") /\ ~UsedAfter(ns, j, "x") -> Becomes(Killed(i), j, "sta", "zp", b.arg)
        [] a.op = "tay" /\ Zp(b, "sty") /\ ~UsedAfter(ns, j, "y") -> Becomes(Killed(i), j, "sta", "zp", b.arg)
        [] Zp(a, "sta") /\ Zp(b, "ldx") /\ SamePlace -> Becomes(ns, j, "tax", "imp", 0)
        [] Zp(a, "sta") /\ Zp(b, "ldy") /\ SamePlace -> Becomes(ns, j, "tay", "imp", 0)
        [] Zp(a, "stx") /\ Zp(b, "lda") /\ SamePlace -> Becomes(ns, j, "txa", "imp", 0)
        [] Zp(a, "sty") /\ Zp(b, "lda") /\ SamePlace -> Becomes(ns, j, "tya", "imp", 0)
        [] a.op = "txa" /\ Zp(b, "sta") /\ ~UsedAfter(ns, j, "a") -> Becomes(Killed(i), j, "stx", "zp", b.arg)
        [] a.op = "tya" /\ Zp(b, "sta") /\ ~UsedAfter(ns, j, "a") -> Becomes(Killed(i), j, "sty", "zp", b.arg)
        [] Zp(a, "ldx") /\ b.op = "txa" /\ ~UsedAfter(ns, j, "x") -> Becomes(Killed(j), i, "lda", "zp", a.arg)
        [] Zp(a, "ldy") /\ b.op = "tya" /\ ~UsedAfter(ns, j, "y") -> Becomes(Killed(j), i, "lda", "zp", a.arg)
        [] \E r \in Regs : CompareZero(r) -> Killed(j)
        [] OTHER -> ns

PairRewrite(ns, carryLive) ==
  LET Visit(w, i) ==
        LET u == IF w[i].op = "dead" THEN w ELSE WithoutRepeats(w, i)
            j == FirstOf(After(u, i))
        IN  IF u[i].op = "dead" \/ j = 0 THEN u ELSE PairRule(u, i, j, carryLive)
  IN  Walk(Visit, ns, Len(ns))

-----------------------------------------------------------------------------
\* Pass 4b, CLC and SEC move down to the instruction that uses the carry.

CarryWriters == {"clc", "sec", "plp", "cmp", "cpx", "cpy", "asl", "lsr"}

\* Node i bubbles down past the live nodes in front of node c.
SinkTo(ns, i, c) ==
  LET live == LiveIn(ns, i, c - 1)
      Next(k) == Min({l \in live : l > k})
      Moved(k) == IF k \notin live THEN ns[k] ELSE IF k = Max(live) THEN ns[i] ELSE ns[Next(k)]
  IN  SubSeq(ns, 1, i - 1) \o [k \in 1..(c - i) |-> Moved(i + k - 1)] \o SubSeq(ns, c, Len(ns))

ClcSecSink(ns) ==
  LET Stops(n) == ReadsCarry(n) \/ n.op \in CarryWriters \cup {"php"} \/ Barrier(n)
      Visit(w, i) ==
        LET c == FirstOf({j \in After(w, i) : Stops(w[j])})
        IN  IF w[i].op \in {"clc", "sec"} /\ c # 0 /\ ReadsCarry(w[c]) /\ LiveIn(w, i + 1, c - 1) # {}
            THEN SinkTo(w, i, c) ELSE w
  IN  Walk(Visit, ns, Len(ns))

-----------------------------------------------------------------------------
(***************************************************************************)
(* Pass 6 (ir_lower.c), a zero-page save and reload becomes a pair of      *)
(* transfers through a register that is free in between and dead behind.   *)
(***************************************************************************)
TableFlagsDead(ns, i) ==
  LET k == FirstOf({j \in After(ns, i) : TableReadsFlags(ns[j]) \/ TableWritesFlags(ns[j])})
  IN  k # 0 /\ ~TableReadsFlags(ns[k])
\* Behind node j the register is written before it is read, and before a barrier.
TableDead(ns, j, r) ==
  LET k == FirstOf({l \in After(ns, j) : Barrier(ns[l]) \/ TableReads(ns[l], r) \/ TableWrites(ns[l], r)})
  IN  k # 0 /\ ~Barrier(ns[k]) /\ ~TableReads(ns[k], r)
CellDead(ns, j, addr) ==
  LET k == FirstOf({l \in After(ns, j) : Barrier(ns[l]) \/ (ns[l].mode = "zp" /\ ns[l].arg = addr)})
  IN  k # 0 /\ ~Barrier(ns[k]) /\ IsStore(ns[k])

\* The node that reloads what node i stored, 0 if something comes between them.
ReloadOf(ns, i) ==
  LET Hit(n) == n.mode = "zp" /\ n.arg = ns[i].arg
      k == FirstOf({l \in After(ns, i) : Barrier(ns[l]) \/ Hit(ns[l])})
  IN  IF k # 0 /\ ~Barrier(ns[k]) /\ ns[k].op = LoadOf[Stores[ns[i].op]] THEN k ELSE 0

SurrogatesOf(ns, i, j) ==
  LET Free(r) == \A k \in LiveIn(ns, i + 1, j - 1) : ~TableReads(ns[k], r) /\ ~TableWrites(ns[k], r)
  IN  {r \in (IF ns[i].op = "sta" THEN {"x", "y"} ELSE {"a"}) : Free(r) /\ TableDead(ns, j, r)}

Substituted(ns, i, j, s) ==
  LET r == Stores[ns[i].op]
      other == IF r = "a" THEN s ELSE r
      there == IF r = "a" THEN ToReg[other] ELSE FromReg[other]
      back  == IF r = "a" THEN FromReg[other] ELSE ToReg[other]
  IN  Becomes(Becomes(ns, i, there, "imp", 0), j, back, "imp", 0)

RegSubst(ns) ==
  LET Visit(w, i) ==
        IF ~(IsStore(w[i]) /\ w[i].mode = "zp") \/ ReloadOf(w, i) = 0 THEN w
        ELSE LET j == ReloadOf(w, i)
                 free == SurrogatesOf(w, i, j)
             IN  IF free = {} \/ ~TableFlagsDead(w, i) \/ ~CellDead(w, j, w[i].arg) THEN w
                 ELSE Substituted(w, i, j, CHOOSE s \in free : s # "y" \/ free = {"y"})
  IN  Walk(Visit, ns, Len(ns))

-----------------------------------------------------------------------------
\* Pass 5 (ir_lower.c), load, change, store of one cell becomes one instruction.

TableLive(ns, k, r) ==
  LET m == FirstOf({l \in After(ns, k) : Barrier(ns[l]) \/ TableReads(ns[l], r) \/ TableWrites(ns[l], r)})
  IN  m # 0 /\ (TableReads(ns[m], r) \/ ~TableWrites(ns[m], r))

Fuse(ns, i, j, k) ==
  LET ld == ns[i]  ch == ns[j]  st == ns[k]
      OneCell(r) == /\ ld.op = LoadOf[r] /\ ld.mode \in {"zp", "abso"}
                    /\ st.op = StoreOf[r] /\ st.mode = ld.mode /\ st.arg = ld.arg
      Shift == OneCell("a") /\ ch.op \in Shifts /\ ch.mode = "acc" /\ ~TableLive(ns, k, "a")
      Step(r) == OneCell(r) /\ ch.op \in {StepUp[r], StepDown[r]}
      op(r) == IF ch.op = StepUp[r] THEN "inc" ELSE "dec"
      Fused(o) == Kill(Kill(Becomes(ns, i, o, ld.mode, ld.arg), j), k)
      Kept(r) == Kill([ns EXCEPT ![i] = Insn(op(r), ld.mode, ld.arg), ![k] = ld], j)
      Stepped(r) == IF TableLive(ns, k, r) THEN Kept(r) ELSE Fused(op(r))
  IN  CASE Shift -> Fused(ch.op) [] Step("x") -> Stepped("x") [] Step("y") -> Stepped("y") [] OTHER -> ns

RmwFusion(ns) ==
  LET Visit(w, i) ==
        LET j == FirstOf(After(w, i))
            k == IF j = 0 THEN 0 ELSE FirstOf(After(w, j))
        IN  IF w[i].op = "dead" \/ k = 0 THEN w ELSE Fuse(w, i, j, k)
  IN  Walk(Visit, RegSubst(ns), Len(ns))
=============================================================================
