------------------------------ MODULE GuestSpec ------------------------------
(***************************************************************************)
(* What the recompiler promises: whatever is compiled, optimised, linked   *)
(* or interpreted, the guest sees its own processor run.  A step executes  *)
(* a number of guest instructions as fake6502.c does; B and the unused     *)
(* flag are not observable in the status register, nor is the part of the  *)
(* stack page below the stack pointer (an inlined call pushes nothing).    *)
(***************************************************************************)
EXTENDS Cpu6502

CONSTANTS Starts,   \* the processor states the guest may start in
          MaxRun    \* guest instructions between two observations

VARIABLE cpu

Observable == Flags \ {"B", "U"}
Below(sp)  == 256..(256 + sp)
Seen(c) ==
  [a |-> c.a, x |-> c.x, y |-> c.y, sp |-> c.sp, p |-> c.p \cap Observable, pc |-> c.pc,
   mem |-> [addr \in DOMAIN c.mem |-> IF addr \in Below(c.sp) THEN 0 ELSE c.mem[addr]]]

\* d looks like the state after 1..MaxRun instructions from c, decimal arithmetic included.
Leads(c, d) ==
  LET trace == Walk(LAMBDA s, k : Append(s, Step6502(s[k], TRUE)), <<c>>, MaxRun)
  IN  \E n \in 2..(MaxRun + 1) : trace[n].pc = d.pc /\ Seen(trace[n]) = Seen(d)

Init == cpu \in Starts
Next == Seen(cpu') # Seen(cpu) /\ Leads(cpu, cpu')
Spec == Init /\ [][Next]_(Seen(cpu))
=============================================================================
