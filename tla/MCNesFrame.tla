----------------------------- MODULE MCNesFrame -----------------------------
(***************************************************************************)
(* Guest programs for NesFrame, one per way of keeping time: all logic in  *)
(* the NMI handler, polling of $2002 with the NMI off, and a main loop     *)
(* with subroutines that the handler interrupts.                           *)
(***************************************************************************)
EXTENDS NesFrame

I(op) == [op |-> op, to |-> 0]
J(op, to) == [op |-> op, to |-> to]
Program(code, entry, handler, new, unknown, linked) ==
  [code |-> code, entry |-> entry, handler |-> handler, fresh |-> new, unknown |-> unknown, linked |-> linked]

\* The main thread idles at a known idle loop; the handler switches the NMI off and on.
InHandler ==
  Program(<<J("ctrl", 1), I("idle"), J("jmp", 2), J("ctrl", 0), I("ppu"), I("ppu"), I("ppu"), I("ppu"), I("dma"),
            J("njsr", 13), J("ctrl", 1), I("rti"), I("status"), I("delay"), I("rts")>>, 1, 4, {9, 13, 14}, {9}, {})
Polling ==
  Program(<<I("ppu"), I("status"), J("bpl", 2), J("jmp", 1), I("rti")>>, 1, 5, {3}, {}, {4})
Calling ==
  Program(<<J("ctrl", 1), I("ppu"), I("ppu"), I("ppu"), I("ppu"), J("jsr", 8), J("jmp", 2), I("alu"), I("delay"),
            I("rts"), I("set"), I("rti")>>, 1, 11, {}, {}, {11})
Ordinary == {InHandler, Polling, Calling}
ASSUME OrdinaryIsNested ==
  /\ WellNested(InHandler, [pc \in 1..15 |-> IF pc <= 3 THEN "none" ELSE IF pc <= 12 THEN "nmi" ELSE "call"])
  /\ WellNested(Polling, [pc \in 1..5 |-> IF pc <= 4 THEN "none" ELSE "nmi"])
  /\ WellNested(Calling, [pc \in 1..12 |-> IF pc <= 7 THEN "none" ELSE IF pc <= 10 THEN "call" ELSE "nmi"])

\* Waiting for a flag that the handler sets: at a loop that the idle scan has
\* found, and at a native loop that it has not.
AtIdleLoop == {Program(<<J("ctrl", 1), I("idle"), I("clear"), J("jmp", 2), I("set"), I("rti")>>, 1, 5, {}, {}, {})}
AtNativeLoop == {Program(<<J("ctrl", 1), I("loop"), I("clear"), J("jmp", 2), I("set"), I("rti")>>, 1, 5, {}, {}, {})}
=============================================================================
