------------------------------ MODULE MCCodegen ------------------------------
(* Instances of Codegen for TLC: short guest programs at $2900, each aimed at
   one part of the recompiler; a program ends where it leaves its code.     *)
EXTENDS Codegen, TLC

Org == 10496
Program(entry, clean, bytes) ==
  [rom |-> [pc \in Org..(Org + Len(bytes) - 1) |-> bytes[pc - Org + 1]],
   entry |-> entry, clean |-> clean, polls |-> FALSE, strict |-> FALSE]

\* A count-down loop whose head is a fence of the block in front of it.
CountDown == Program(Org, {},
  <<169, 5, 133, 16, 165, 17, 105, 1, 133, 17, 198, 16, 208, 246, 165, 17,
  141, 0, 64, 76, 240, 63>>)

\* A loop entered at its head first, and later from a block in front of it.
LoopTwice == Program(Org + 28, {},
  <<169, 2, 133, 16, 165, 17, 105, 3, 133, 17, 198, 16, 208, 246, 230, 18,
  165, 18, 201, 2, 176, 3, 76, 0, 41, 76, 240, 63, 169, 1, 133, 16, 76, 4,
  41>>)

\* Subroutines that are proved clean, one that is not, and one called from the other.
Calls == Program(Org, {Org + 16},
  <<32, 16, 41, 32, 27, 41, 165, 17, 32, 16, 41, 133, 18, 76, 240, 63, 72,
  165, 17, 105, 7, 133, 17, 104, 166, 16, 96, 186, 134, 19, 165, 16, 32, 16,
  41, 164, 17, 96>>)

\* Subroutines short enough to be copied into their caller.
Inlined == Program(Org, {Org + 23, Org + 30, Org + 38},
  <<165, 16, 32, 23, 41, 32, 30, 41, 32, 38, 41, 166, 18, 134, 19, 32, 23,
  41, 133, 17, 76, 240, 63, 24, 105, 5, 170, 134, 18, 96, 165, 16, 10, 133,
  16, 165, 18, 96, 166, 17, 232, 134, 17, 166, 16, 96>>)

\* Pushes and pulls, and the guest stack pointer.
Stack == Program(Org, {},
  <<165, 16, 72, 166, 17, 8, 165, 18, 40, 240, 2, 230, 16, 72, 165, 17, 8,
  169, 7, 40, 104, 164, 17, 186, 134, 19, 166, 19, 154, 104, 165, 16, 76,
  240, 63>>)

\* Stores to both video memories, indexed and not, and a read-modify-write.
Video == Program(Org, {},
  <<165, 16, 141, 0, 64, 141, 1, 64, 166, 17, 157, 0, 72, 169, 3, 141, 1,
  72, 32, 24, 41, 76, 240, 63, 238, 0, 64, 173, 0, 64, 141, 1, 72, 186, 96>>)

\* Decimal arithmetic, twice through the same code.
Decimal == Program(Org, {},
  <<165, 16, 105, 9, 248, 105, 40, 133, 16, 233, 9, 133, 17, 216, 105, 9,
  133, 18, 230, 19, 165, 19, 201, 2, 144, 234, 76, 240, 63>>)

\* More exits than the node list of a block takes.
Branchy == Program(Org, {},
  <<165, 16, 240, 2, 230, 17, 165, 17, 208, 2, 230, 18, 165, 18, 16, 2, 230,
  16, 165, 16, 208, 2, 198, 17, 165, 17, 48, 2, 230, 18, 165, 18, 144, 2,
  230, 16, 165, 16, 80, 2, 230, 17, 165, 17, 208, 2, 230, 18, 165, 18, 240,
  2, 230, 19, 76, 240, 63>>)

\* More calls than a block may hold operands of templates.
ManyCalls == Program(Org, {Org + 28},
  <<165, 16, 32, 28, 41, 166, 16, 32, 28, 41, 164, 16, 32, 28, 41, 165, 17,
  32, 28, 41, 166, 18, 32, 28, 41, 76, 240, 63, 230, 16, 165, 16, 72, 104,
  165, 16, 96>>)

\* A block that is cut off where its buffer is full.
Long == Program(Org, {},
  <<165, 16, 105, 1, 133, 17, 165, 17, 105, 2, 133, 18, 165, 18, 105, 3,
  133, 19, 165, 19, 105, 4, 133, 16, 165, 16, 105, 5, 133, 17, 165, 17, 105,
  6, 133, 18, 165, 18, 105, 7, 133, 19, 165, 19, 105, 8, 133, 16, 165, 16,
  105, 9, 133, 17, 165, 17, 105, 10, 133, 18, 165, 18, 105, 11, 133, 19,
  165, 19, 105, 12, 133, 16, 165, 16, 105, 13, 133, 17, 165, 17, 105, 14,
  133, 18, 165, 18, 105, 15, 133, 19, 165, 19, 105, 16, 133, 16, 165, 16,
  105, 17, 133, 17, 165, 17, 105, 18, 133, 18, 165, 18, 105, 19, 133, 19,
  165, 19, 105, 20, 133, 16, 165, 16, 105, 21, 133, 17, 165, 17, 105, 22,
  133, 18, 165, 18, 105, 23, 133, 19, 165, 19, 105, 24, 133, 16, 165, 16,
  105, 25, 133, 17, 165, 17, 105, 26, 133, 18, 76, 240, 63>>)

\* NOPs in front of instructions that are left to the interpreter.
Padding == Program(Org, {},
  <<234, 234, 24, 234, 177, 16, 234, 165, 17, 234, 232, 234, 10, 76, 240,
  63>>)

\* Saves, reloads and comparisons the optimiser knows rules for.
Shuffle == Program(Org, {Org + 46},
  <<165, 16, 133, 18, 166, 18, 134, 19, 164, 19, 165, 17, 41, 255, 9, 0,
  133, 16, 165, 16, 133, 17, 166, 17, 134, 16, 165, 17, 201, 3, 208, 2, 165,
  18, 32, 46, 41, 73, 255, 133, 17, 133, 17, 76, 240, 63, 168, 152, 138,
  133, 19, 56, 166, 18, 233, 1, 170, 134, 18, 96>>)

\* A loop head that loads what the code in front of it has just loaded.
Fences == Program(Org, {},
  <<169, 1, 133, 16, 169, 1, 101, 17, 133, 17, 230, 16, 165, 16, 201, 4,
  208, 242, 76, 240, 63>>)

\* A full block that ends in a loop over part of it.
Packed == Program(Org, {},
  <<76, 157, 41, 169, 2, 133, 16, 165, 17, 105, 1, 133, 18, 165, 18, 105, 2,
  133, 19, 165, 19, 105, 3, 133, 17, 165, 17, 105, 4, 133, 18, 165, 18, 105,
  5, 133, 19, 165, 19, 105, 6, 133, 17, 165, 17, 105, 7, 133, 18, 165, 18,
  105, 8, 133, 19, 198, 16, 208, 204, 165, 17, 105, 1, 133, 18, 165, 18,
  105, 2, 133, 19, 165, 19, 105, 3, 133, 17, 165, 17, 105, 4, 133, 18, 165,
  18, 105, 5, 133, 19, 165, 19, 105, 6, 133, 17, 165, 17, 105, 7, 133, 18,
  165, 18, 105, 8, 133, 19, 165, 19, 105, 9, 133, 17, 165, 17, 105, 10, 133,
  18, 165, 18, 105, 11, 133, 19, 165, 19, 105, 12, 133, 17, 165, 17, 105,
  13, 133, 18, 165, 18, 105, 14, 133, 19, 165, 19, 41, 1, 208, 5, 230, 19,
  76, 3, 41, 76, 240, 63, 169, 1, 133, 16, 76, 7, 41>>)

\* A branch back to the head of a block compiled before.
Across == Program(Org, {},
  <<165, 16, 76, 5, 41, 230, 16, 165, 16, 201, 2, 144, 243, 76, 240, 63>>)

\* A jump into a block, behind it a load that the block can do without.
MidEntry == Program(Org, {},
  <<169, 5, 133, 16, 169, 5, 133, 17, 230, 18, 165, 18, 201, 2, 176, 3, 76,
  4, 41, 76, 240, 63>>)

\* A build that polls for the vertical blank and leaves no placeholder behind.
Nes(p) == [p EXCEPT !.polls = TRUE, !.strict = TRUE]
Asteroids(p) == [p EXCEPT !.polls = TRUE]

Suite == {CountDown, LoopTwice, Calls, Inlined, Stack, Video, Decimal, Branchy, ManyCalls, Long, Padding, Shuffle, Fences, Packed, Across, Nes(LoopTwice), Nes(Packed), Asteroids(CountDown)}
MidSuite == {MidEntry}

Cells == 16..19 \cup 505..511 \cup {16384, 16385, 18432, 18433}
SomeStarts == {[a |-> 0, x |-> 1, y |-> 0, p |-> {}], [a |-> 200, x |-> 0, y |-> 0, p |-> {"C", "N", "I"}]}
=============================================================================
