---------------------------- MODULE MCFlashCache ----------------------------
(* Instances of FlashCache for TLC: a guest program of a few instructions
   and a flash of one to three short sectors, which fills up.             *)
EXTENDS FlashCache, TLC

Op(k, n, room, t) == [kind |-> k, size |-> n, slack |-> room, target |-> t]

(* An opcode of the interpreter in the middle, with a NOP in front of it, a
   NOP between two templates that do not fit one block together, a full-length
   block, a jump back.                                                      *)
ExidyProgram ==
  0 :> Op("plain", 3, 0, 0) @@ 1 :> Op("plain", 0, 0, 0) @@
  2 :> Op("interpreted", 0, 0, 0) @@ 3 :> Op("guarded", 9, 6, 0) @@
  4 :> Op("plain", 0, 0, 0) @@ 5 :> Op("guarded", 12, 6, 0) @@
  6 :> Op("plain", 6, 0, 0) @@ 7 :> Op("jump", 9, 6, 2)

(* A NOP in front of the interpreter's opcode. *)
NopProgram ==
  0 :> Op("plain", 3, 0, 0) @@ 1 :> Op("plain", 0, 0, 0) @@
  2 :> Op("interpreted", 0, 0, 0) @@ 3 :> Op("jump", 9, 6, 0)

(* Indexed reads of ROM between other instructions, and a NOP at the end. *)
NesProgram ==
  0 :> Op("plain", 3, 0, 0) @@ 1 :> Op("romread", 3, 0, 0) @@
  2 :> Op("romread", 3, 0, 0) @@ 3 :> Op("jump", 9, 6, 1) @@
  4 :> Op("plain", 6, 0, 0) @@ 5 :> Op("plain", 0, 0, 0)

AllButLast == 0..(LastPc - 1)
EveryPc == Pc
=============================================================================
