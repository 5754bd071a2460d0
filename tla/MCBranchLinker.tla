--------------------------- MODULE MCBranchLinker ---------------------------
(* Guest programs of a few blocks, with their place in flash. *)
EXTENDS BranchLinker, TLC

Off(m) == [p \in Pc |-> IF p \in DOMAIN m THEN m[p] ELSE -1]
Tmpl(pos, target, cond) == [pos |-> pos, target |-> target, cond |-> cond]
Blk(s, base, len, offs, entry, exit, sites) ==
  [sec |-> s, base |-> base, len |-> len, offs |-> Off(offs),
   entry |-> entry, exit |-> exit, sites |-> sites]

(* Two banks.  Block 1 has no room behind it for a trampoline, block 2 has;
   both jump to the middle of another block.  Block 4 is in the other bank,
   block 5 jumps to itself.                                               *)
FivePcs   == 0..6
FiveBlocks == 1..5
FiveCode ==
  1 :> Blk(0, 8, 20, 0 :> 0 @@ 1 :> 5, 0, 2, {Tmpl(3, 4, TRUE)}) @@
  2 :> Blk(0, 40, 26, 2 :> 0, 2, 0, {Tmpl(8, 1, FALSE)}) @@
  3 :> Blk(1, 8, 20, 3 :> 0 @@ 4 :> 7, 3, 5, {Tmpl(6, 0, TRUE)}) @@
  4 :> Blk(2, 8, 12, 5 :> 0, 5, 3, {}) @@
  5 :> Blk(1, 40, 12, 6 :> 0, 6, 6, {Tmpl(2, 6, FALSE)})

=============================================================================
