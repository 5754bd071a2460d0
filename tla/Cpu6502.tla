------------------------------ MODULE Cpu6502 ------------------------------
(***************************************************************************)
(* The 6502 processor as fake6502.c executes it: decoding, addressing, the *)
(* instruction handlers, the stack and the two interrupts, as operators on *)
(* a processor record                                                      *)
(*   [a, x, y, sp : bytes, p : set of flags, pc : word,                    *)
(*    mem : the cells that are modelled, rom : the program,                *)
(*    dm : decimal_mode]                                                   *)
(* The same operators execute the native code that the recompiler emits:   *)
(* the host is a 6502 too, one that ignores the decimal flag (bcd FALSE).  *)
(* An address in neither reads 0; only cells are written.                  *)
(***************************************************************************)
EXTENDS Integers, Bitwise, SequencesExt

Least(i, j) == IF i < j THEN i ELSE j
\* A walk over the elements 1..len in order: Visit(w, i) is what element i makes
\* of w.  Taken in stretches, each finished before the next begins.
Stretch == 8
Walk(Visit(_, _), w0, len) ==
  LET Part(w, k) == FoldLeft(Visit, w, [j \in 1..Least(Stretch, len - k * Stretch) |-> k * Stretch + j])
      Next(w, k) == CHOOSE r \in {Part(v, k) : v \in {w}} : TRUE
  IN  FoldLeft(Next, w0, [k \in 1..((len + Stretch - 1) \div Stretch) |-> k - 1])

-----------------------------------------------------------------------------

Flags == {"C", "Z", "I", "D", "B", "U", "V", "N"}
Weight == [C |-> 1, Z |-> 2, I |-> 4, D |-> 8, B |-> 16, U |-> 32, V |-> 64, N |-> 128]

Put(p, f, b) == IF b THEN p \cup {f} ELSE p \ {f}
BitOf(p, f)  == IF f \in p THEN Weight[f] ELSE 0
Pack(p)      == BitOf(p, "C") + BitOf(p, "Z") + BitOf(p, "I") + BitOf(p, "D")
                + BitOf(p, "B") + BitOf(p, "U") + BitOf(p, "V") + BitOf(p, "N")
Unpack(v)    == {f \in Flags : (v \div Weight[f]) % 2 = 1}

Peek(m, addr)    == IF addr \in DOMAIN m THEN m[addr] ELSE 0
Poke(m, addr, v) == IF addr \in DOMAIN m THEN [m EXCEPT ![addr] = v % 256] ELSE m
Word(m, lo, hi)  == Peek(m, lo) + 256 * Peek(m, hi)
Read(c, addr)    == IF addr \in DOMAIN c.mem THEN c.mem[addr] ELSE Peek(c.rom, addr)
ReadWord(c, lo, hi) == Read(c, lo) + 256 * Read(c, hi)

-----------------------------------------------------------------------------
\* Decoding: one row per high nibble of the opcode.

AddrTable == <<
 <<"imp","indx","imp","indx","zp","zp","zp","zp","imp","imm","acc","imm","abso","abso","abso","abso">>,
 <<"rel","indy","imp","indy","zpx","zpx","zpx","zpx","imp","absy","imp","absy","absx","absx","absx","absx">>,
 <<"abso","indx","imp","indx","zp","zp","zp","zp","imp","imm","acc","imm","abso","abso","abso","abso">>,
 <<"rel","indy","imp","indy","zpx","zpx","zpx","zpx","imp","absy","imp","absy","absx","absx","absx","absx">>,
 <<"imp","indx","imp","indx","zp","zp","zp","zp","imp","imm","acc","imm","abso","abso","abso","abso">>,
 <<"rel","indy","imp","indy","zpx","zpx","zpx","zpx","imp","absy","imp","absy","absx","absx","absx","absx">>,
 <<"imp","indx","imp","indx","zp","zp","zp","zp","imp","imm","acc","imm","ind","abso","abso","abso">>,
 <<"rel","indy","imp","indy","zpx","zpx","zpx","zpx","imp","absy","imp","absy","absx","absx","absx","absx">>,
 <<"imm","indx","imm","indx","zp","zp","zp","zp","imp","imm","imp","imm","abso","abso","abso","abso">>,
 <<"rel","indy","imp","indy","zpx","zpx","zpy","zpy","imp","absy","imp","absy","absx","absx","absy","absy">>,
 <<"imm","indx","imm","indx","zp","zp","zp","zp","imp","imm","imp","imm","abso","abso","abso","abso">>,
 <<"rel","indy","imp","indy","zpx","zpx","zpy","zpy","imp","absy","imp","absy","absx","absx","absy","absy">>,
 <<"imm","indx","imm","indx","zp","zp","zp","zp","imp","imm","imp","imm","abso","abso","abso","abso">>,
 <<"rel","indy","imp","indy","zpx","zpx","zpx","zpx","imp","absy","imp","absy","absx","absx","absx","absx">>,
 <<"imm","indx","imm","indx","zp","zp","zp","zp","imp","imm","imp","imm","abso","abso","abso","abso">>,
 <<"rel","indy","imp","indy","zpx","zpx","zpx","zpx","imp","absy","imp","absy","absx","absx","absx","absx">> >>

OpTable == <<
 <<"brk","ora","nop","nop","nop","ora","asl","nop","php","ora","asl","nop","nop","ora","asl","nop">>,
 <<"bpl","ora","nop","nop","nop","ora","asl","nop","clc","ora","nop","nop","nop","ora","asl","nop">>,
 <<"jsr","and","nop","nop","bit","and","rol","nop","plp","and","rol","nop","bit","and","rol","nop">>,
 <<"bmi","and","nop","nop","nop","and","rol","nop","sec","and","nop","nop","nop","and","rol","nop">>,
 <<"rti","eor","nop","nop","nop","eor","lsr","nop","pha","eor","lsr","nop","jmp","eor","lsr","nop">>,
 <<"bvc","eor","nop","nop","nop","eor","lsr","nop","cli","eor","nop","nop","nop","eor","lsr","nop">>,
 <<"rts","adc","nop","nop","nop","adc","ror","nop","pla","adc","ror","nop","jmp","adc","ror","nop">>,
 <<"bvs","adc","nop","nop","nop","adc","ror","nop","sei","adc","nop","nop","nop","adc","ror","nop">>,
 <<"nop","sta","nop","nop","sty","sta","stx","nop","dey","nop","txa","nop","sty","sta","stx","nop">>,
 <<"bcc","sta","nop","nop","sty","sta","stx","nop","tya","sta","txs","nop","nop","sta","nop","nop">>,
 <<"ldy","lda","ldx","nop","ldy","lda","ldx","nop","tay","lda","tax","nop","ldy","lda","ldx","nop">>,
 <<"bcs","lda","nop","nop","ldy","lda","ldx","nop","clv","lda","tsx","nop","ldy","lda","ldx","nop">>,
 <<"cpy","cmp","nop","nop","cpy","cmp","dec","nop","iny","cmp","dex","nop","cpy","cmp","dec","nop">>,
 <<"bne","cmp","nop","nop","nop","cmp","dec","nop","cld","cmp","nop","nop","nop","cmp","dec","nop">>,
 <<"cpx","sbc","nop","nop","cpx","sbc","inc","nop","inx","sbc","nop","sbc","cpx","sbc","inc","nop">>,
 <<"beq","sbc","nop","nop","nop","sbc","inc","nop","sed","sbc","nop","nop","nop","sbc","inc","nop">> >>

ModeOf(o) == AddrTable[(o \div 16) + 1][(o % 16) + 1]
NameOf(o) == OpTable[(o \div 16) + 1][(o % 16) + 1]

\* get_length_from_mode
Length(mode) == CASE mode \in {"imp", "acc"} -> 1
                  [] mode \in {"abso", "absx", "absy", "ind"} -> 3
                  [] OTHER -> 2

Insn(op, mode, arg) == [op |-> op, mode |-> mode, arg |-> arg]

Decode(m, pc) ==
  LET o == Peek(m, pc)
      n == Length(ModeOf(o))
      lo == IF n > 1 THEN Peek(m, (pc + 1) % 65536) ELSE 0
      hi == IF n > 2 THEN Peek(m, (pc + 2) % 65536) ELSE 0
  IN  Insn(NameOf(o), ModeOf(o), lo + 256 * hi)

-----------------------------------------------------------------------------
\* Addressing.

EffAddr(c, i) ==
  CASE i.mode = "zpx"  -> (i.arg + c.x) % 256
    [] i.mode = "zpy"  -> (i.arg + c.y) % 256
    [] i.mode = "absx" -> (i.arg + c.x) % 65536
    [] i.mode = "absy" -> (i.arg + c.y) % 65536
    [] i.mode = "ind"  -> ReadWord(c, i.arg, (i.arg \div 256) * 256 + ((i.arg + 1) % 256))
    [] i.mode = "indx" -> ReadWord(c, (i.arg + c.x) % 256, (i.arg + c.x + 1) % 256)
    [] i.mode = "indy" -> (ReadWord(c, i.arg, (i.arg + 1) % 256) + c.y) % 65536
    [] OTHER           -> i.arg

GetValue(c, i) == CASE i.mode = "acc" -> c.a
                    [] i.mode = "imm" -> i.arg
                    [] OTHER -> Read(c, EffAddr(c, i))

PutValue(c, i, v) == IF i.mode = "acc" THEN [c EXCEPT !.a = v % 256]
                     ELSE [c EXCEPT !.mem = Poke(c.mem, EffAddr(c, i), v)]

-----------------------------------------------------------------------------
\* The stack.

Push8(c, v)   == [c EXCEPT !.mem = Poke(c.mem, 256 + c.sp, v), !.sp = (c.sp - 1) % 256]
Push16(c, w)  == Push8(Push8(c, w \div 256), w % 256)
Top(c, n)     == Read(c, 256 + ((c.sp + n) % 256))
Drop(c, n)    == [c EXCEPT !.sp = (c.sp + n) % 256]

-----------------------------------------------------------------------------
\* Flags and arithmetic.

ZN(p, r) == Put(Put(p, "Z", r % 256 = 0), "N", (r \div 128) % 2 = 1)
SetReg(c, r, v) == [c EXCEPT ![r] = v, !.p = ZN(c.p, v)]

Sign(n) == (n \div 128) % 2
BcdCarries(sum, a, v) == (((((((sum + 102) % 65536) ^^ a) ^^ v)) \div 8) & 34) * 3

\* The common half of adc and sbc: v is the (complemented) operand, a 16-bit value.
AddWith(c, v, bcd) ==
  LET sum == (c.a + v + BitOf(c.p, "C")) % 65536
      res == IF bcd /\ "D" \in c.p THEN (sum + BcdCarries(sum, c.a, v)) % 65536 ELSE sum
      over == Sign(sum) # Sign(c.a) /\ Sign(sum) # Sign(v)
  IN  [c EXCEPT !.a = res % 256, !.p = Put(Put(ZN(c.p, sum), "V", over), "C", res > 255)]

Adc(c, v, bcd) == AddWith(c, v, bcd)
Sbc(c, v, bcd) == AddWith(c, (255 - v - (IF bcd /\ "D" \in c.p THEN 102 ELSE 0)) % 65536, bcd)

Compare(c, reg, v) ==
  [c EXCEPT !.p = Put(Put(Put(c.p, "C", reg >= v), "Z", reg = v), "N", Sign((reg - v) % 65536) = 1)]

BitTest(c, v) ==
  [c EXCEPT !.p = Put(Put(Put(c.p, "Z", (c.a & v) = 0), "N", Sign(v) = 1), "V", (v \div 64) % 2 = 1)]

\* Shifts, rotates, inc and dec: the result and the carry they leave.
Modified(op, v, p) ==
  CASE op = "asl" -> [r |-> 2 * v, p |-> Put(p, "C", v > 127)]
    [] op = "lsr" -> [r |-> v \div 2, p |-> Put(p, "C", v % 2 = 1)]
    [] op = "rol" -> [r |-> 2 * v + BitOf(p, "C"), p |-> Put(p, "C", v > 127)]
    [] op = "ror" -> [r |-> v \div 2 + 128 * BitOf(p, "C"), p |-> Put(p, "C", v % 2 = 1)]
    [] op = "inc" -> [r |-> v + 1, p |-> p]
    [] op = "dec" -> [r |-> (v - 1) % 256, p |-> p]

ReadModifyWrite(c, i) ==
  LET m == Modified(i.op, GetValue(c, i), c.p)
  IN  [PutValue(c, i, m.r) EXCEPT !.p = ZN(m.p, m.r)]

-----------------------------------------------------------------------------
\* The instruction handlers.  c.pc is already behind the instruction.

Loads     == [lda |-> "a", ldx |-> "x", ldy |-> "y"]
Stores    == [sta |-> "a", stx |-> "x", sty |-> "y"]
Compares  == [cmp |-> "a", cpx |-> "x", cpy |-> "y"]
Steps     == [inx |-> <<"x", 1>>, iny |-> <<"y", 1>>, dex |-> <<"x", -1>>, dey |-> <<"y", -1>>]
Transfers == [tax |-> <<"a", "x">>, tay |-> <<"a", "y">>, txa |-> <<"x", "a">>,
              tya |-> <<"y", "a">>, tsx |-> <<"sp", "x">>]
FlagOps   == [clc |-> <<"C", FALSE>>, sec |-> <<"C", TRUE>>, cli |-> <<"I", FALSE>>,
              sei |-> <<"I", TRUE>>, clv |-> <<"V", FALSE>>, cld |-> <<"D", FALSE>>, sed |-> <<"D", TRUE>>]
Branches  == [bcc |-> <<"C", FALSE>>, bcs |-> <<"C", TRUE>>, bne |-> <<"Z", FALSE>>, beq |-> <<"Z", TRUE>>,
              bpl |-> <<"N", FALSE>>, bmi |-> <<"N", TRUE>>, bvc |-> <<"V", FALSE>>, bvs |-> <<"V", TRUE>>]

Taken(p, op) == (Branches[op][1] \in p) = Branches[op][2]
Target(pc, arg) == (pc + (IF arg > 127 THEN arg - 256 ELSE arg)) % 65536

LogicOf(op, a, v) == CASE op = "and" -> a & v [] op = "ora" -> a | v [] op = "eor" -> a ^^ v

Vector(c, addr) == ReadWord(c, addr, addr + 1)

Exec(c, i, bcd) ==
  LET v == GetValue(c, i) IN
  CASE i.op = "adc" -> Adc(c, v, bcd)
    [] i.op = "sbc" -> Sbc(c, v, bcd)
    [] i.op \in {"and", "ora", "eor"} -> SetReg(c, "a", LogicOf(i.op, c.a, v))
    [] i.op \in {"asl", "lsr", "rol", "ror", "inc", "dec"} -> ReadModifyWrite(c, i)
    [] i.op = "bit" -> BitTest(c, v)
    [] i.op \in DOMAIN Loads -> SetReg(c, Loads[i.op], v)
    [] i.op \in DOMAIN Stores -> PutValue(c, i, c[Stores[i.op]])
    [] i.op \in DOMAIN Compares -> Compare(c, c[Compares[i.op]], v)
    [] i.op \in DOMAIN Steps -> SetReg(c, Steps[i.op][1], (c[Steps[i.op][1]] + Steps[i.op][2]) % 256)
    [] i.op \in DOMAIN Transfers -> SetReg(c, Transfers[i.op][2], c[Transfers[i.op][1]])
    [] i.op = "txs" -> [c EXCEPT !.sp = c.x]
    [] i.op \in DOMAIN FlagOps ->
         [c EXCEPT !.p = Put(c.p, FlagOps[i.op][1], FlagOps[i.op][2]),
                   !.dm = CASE i.op = "sed" -> 1 [] i.op = "cld" -> 0 [] OTHER -> c.dm]
    [] i.op \in DOMAIN Branches -> IF Taken(c.p, i.op) THEN [c EXCEPT !.pc = Target(c.pc, i.arg)] ELSE c
    [] i.op = "jmp" -> [c EXCEPT !.pc = EffAddr(c, i)]
    [] i.op = "jsr" -> [Push16(c, (c.pc - 1) % 65536) EXCEPT !.pc = i.arg]
    [] i.op = "rts" -> [Drop(c, 2) EXCEPT !.pc = (Top(c, 1) + 256 * Top(c, 2) + 1) % 65536]
    [] i.op = "rti" -> [Drop(c, 3) EXCEPT !.p = Unpack(Top(c, 1)), !.pc = Top(c, 2) + 256 * Top(c, 3)]
    [] i.op = "pha" -> Push8(c, c.a)
    [] i.op = "php" -> Push8(c, Pack(c.p \cup {"B"}))
    [] i.op = "pla" -> SetReg(Drop(c, 1), "a", Top(c, 1))
    [] i.op = "plp" -> [Drop(c, 1) EXCEPT !.p = Unpack(Top(c, 1)) \cup {"U"}]
    [] i.op = "brk" -> [Push8(Push16(c, (c.pc + 1) % 65536), Pack(c.p \cup {"B"}))
                          EXCEPT !.p = c.p \cup {"I"}, !.pc = Vector(c, 65534)]
    [] OTHER -> c     \* nop and the undocumented opcodes

\* interpret_6502 on an instruction that has been fetched from c.pc.
Interpret(c, i, bcd) ==
  Exec([c EXCEPT !.pc = (c.pc + Length(i.mode)) % 65536, !.p = c.p \cup {"U"}], i, bcd)
Step6502(c, bcd) == Interpret(c, Decode(c.rom, c.pc), bcd)

=============================================================================
