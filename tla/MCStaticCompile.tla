-------------------------- MODULE MCStaticCompile --------------------------
(* Instances of StaticCompile for TLC: every guest program that can be put
   together from a few opcodes per address, in a cache of short sectors.   *)
EXTENDS StaticCompile, TLC

Op(op, n, t) == [op |-> op, size |-> n, target |-> t]
Plain == Op("plain", 6, 0)
Call  == Op("call", 20, 0)
Dirty == Op("dirty", 20, 0)
To(t) == Op("branch", 0, t)
Jump(t) == Op("jmp", 17, t)

Program(i0, i1, i2, i3, i4, i5, i6) ==
  [insn  |-> 0 :> i0 @@ 1 :> i1 @@ 2 :> i2 @@ 3 :> i3 @@ 4 :> i4 @@ 5 :> i5
             @@ 6 :> i6,
   known |-> Pc]

EveryProgram ==
  {Program(i0, i1, i2, i3, i4, i5, i6) :
     i0 \in {Plain, Call},
     i1 \in {Op("plain", 0, 0), Op("io", 0, 0), To(3), Call, Dirty},
     i2 \in {Plain, To(0), Op("rts", 12, 0), Op("full", 6, 0)},
     i3 \in {Op("romread", 3, 0), Jump(5), To(1), Call},
     i4 \in {Plain, To(0), To(5), Jump(2)},
     i5 \in {To(3), To(5), Op("romread", 3, 0), Op("rts", 12, 0)},
     i6 \in {Op("io", 0, 0), To(5), Op("rts", 12, 0)}}
=============================================================================
