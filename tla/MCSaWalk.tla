------------------------------ MODULE MCSaWalk ------------------------------
(* A guest ROM of eight bytes in the upper half of 16 addresses, so that
   RAM addresses share its bitmap bits as on the NES.                     *)
EXTENDS SaWalk, Bitwise, TLC

Op(k, n, t) == [kind |-> k, len |-> n, target |-> t]

BitAnd(x, y) == x & y

(* The reset code at 8 loops, with a branch over a call of 11; the NMI code
   at 13 calls a routine in RAM and ends where ROM ends; the IRQ vector
   leads to data at 9.  The low byte of both routines is $FF, the high byte
   tells them apart.  14 and 15 are reached only through JMP ($xxxx).      *)
WalkRom ==
  8 :> Op("branch", 2, 12) @@ 9 :> Op("stop", 1, 0) @@
  10 :> Op("call", 3, 11) @@ 11 :> Op("other", 1, 0) @@
  12 :> Op("jump", 3, 8) @@ 13 :> Op("call", 3, 7) @@
  14 :> Op("other", 1, 0) @@ 15 :> Op("jump", 3, 8)
WalkVectors == <<8, 13, 9>>
WalkResolved == {14, 3}
WalkClean == {11}
=============================================================================
