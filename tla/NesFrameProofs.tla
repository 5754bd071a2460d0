--------------------------- MODULE NesFrameProofs ---------------------------
(***************************************************************************)
(* Proofs about NesFrame: the PPU writes that the guest has made are       *)
(* handed over before its NMI handler runs, and reach the screen in their  *)
(* order, and for guests that nest the emulated NMI does not, whatever the *)
(* guest program, the flush threshold and the limits of the batch and the  *)
(* watchdog.                                                               *)
(***************************************************************************)
EXTENDS NesFrame, SequenceTheorems, FiniteSetTheorems, TLAPS

\* The fields that the argument is about.
Fields == "queue" \in DOMAIN guest /\ "active" \in DOMAIN emu

\* Where the queue has just been submitted, or was seen to be empty.
HandedOver == {"rv_flags", "rv_store", "rv_note", "fin_wait", "wd_check", "nmi"}
Drained == at \in HandedOver => guest.queue = << >>
Inv == Fields /\ Drained

(* The main loop begins with an empty queue (nes.c:444-453).               *)
LEMMA InitInv == Init => Inv
  BY DEF Init, Inv, Fields, Drained, HandedOver

(* Interpreting an instruction ends where the caller says or in            *)
(* render_video, neither of which claims an empty queue (nes.c:228-229).   *)
LEMMA InterpretKeeps ==
  ASSUME NEW ret \in {"after", "checks", "njsr_checks", "turn"}, Interpret(ret), "queue" \in DOMAIN Step(guest)
  PROVE  "queue" \in DOMAIN guest' /\ at' \notin HandedOver
  BY DEF Interpret, Call, HandedOver

(* No instruction drops the PPU queue from the state of the guest.         *)
LEMMA StepKeeps ==
  ASSUME "queue" \in DOMAIN guest PROVE "queue" \in DOMAIN Step(guest)
<1> DEFINE i == Ins(guest.pc)
           top == guest.stack[Len(guest.stack)]
           next == [guest EXCEPT !.pc = guest.pc + 1]
<1>1. DOMAIN next = DOMAIN guest OBVIOUS
<1> SUFFICES DOMAIN Step(guest) = DOMAIN guest OBVIOUS
<1>2. CASE i.op = "jmp" BY <1>2 DEF Step
<1>3. CASE i.op \in {"jsr", "njsr"} BY <1>3 DEF Step
<1>4. CASE i.op = "rts" BY <1>4 DEF Step
<1>5. CASE i.op = "rti" BY <1>5 DEF Step
<1>6. CASE i.op \in {"set", "clear"} BY <1>1, <1>6 DEF Step
<1>7. CASE i.op \in {"idle", "loop"} BY <1>1, <1>7 DEF Step
<1>8. CASE i.op \in {"status", "ppu", "ctrl", "dma"} BY <1>1, <1>8 DEF Step
<1>9. CASE i.op = "bpl" BY <1>1, <1>9 DEF Step
<1>10. CASE i.op \notin {"jmp", "jsr", "njsr", "rts", "rti", "set", "clear", "idle", "loop",
                         "status", "ppu", "ctrl", "dma", "bpl"}
  BY <1>1, <1>10 DEF Step
<1> QED BY <1>2, <1>3, <1>4, <1>5, <1>6, <1>7, <1>8, <1>9, <1>10

(* A step of render_video, its wait and its timeout keep the queue drained *)
(* once lnList has taken it, and start no handler (nes.c:917-998).         *)
LEMMA RenderKeeps == ASSUME Inv, RenderVideo PROVE Inv' /\ emu' = emu
<1>1. CASE RvDone BY <1>1 DEF RvDone, Waited, Inv, Fields, Drained, HandedOver
<1>2. CASE RvTimeout BY <1>2 DEF RvTimeout, Waited, Inv, Fields, Drained, HandedOver
<1>3. CASE RvSubmit BY <1>3 DEF RvSubmit, Inv, Fields, Drained
<1>4. CASE RvFlags BY <1>4 DEF RvFlags, Inv, Fields, Drained, HandedOver
<1>5. CASE RvStore BY <1>5 DEF RvStore, Inv, Fields, Drained, HandedOver
<1>6. CASE RvNote BY <1>6 DEF RvNote, Inv, Fields, Drained, HandedOver
<1> QED BY <1>1, <1>2, <1>3, <1>4, <1>5, <1>6 DEF RenderVideo

(* Running the guest delivers no NMI: only main() does                     *)
(* (dynamos.c:504-726).                                                    *)
LEMMA RunKeeps == ASSUME Inv, Run6502 PROVE Inv' /\ emu'.active = emu.active
<1>1. "queue" \in DOMAIN Step(guest) BY StepKeeps DEF Inv, Fields
<1>2. CASE Checks BY <1>2 DEF Checks, Inv, Fields, Drained, HandedOver
<1>3. CASE NeedsCompile BY <1>3 DEF NeedsCompile, Inv, Fields, Drained, HandedOver
<1>4. CASE Compile
  <2>1. emu' = emu BY <1>4 DEF Compile
  <2>2. CASE Interpret("after") BY <1>1, <2>1, <2>2, InterpretKeeps DEF Inv, Fields, Drained
  <2>3. CASE at' = "after" /\ guest' = guest BY <2>1, <2>3 DEF Inv, Fields, Drained, HandedOver
  <2> QED BY <1>4, <2>1, <2>2, <2>3 DEF Compile
<1>5. CASE RunBlock BY <1>1, <1>5 DEF RunBlock, Checked, Inv, Fields, Drained, HandedOver
<1>6. CASE LoopEnds BY <1>6 DEF LoopEnds, Checked, Inv, Fields, Drained, HandedOver
<1>7. CASE LoopYields BY <1>7 DEF LoopYields, Looping, Checked, Inv, Fields, Drained, HandedOver
<1>8. CASE NativeCall BY <1>1, <1>8 DEF NativeCall, Inv, Fields, Drained, HandedOver
<1>9. CASE NativeInterpret
  BY <1>1, <1>9, InterpretKeeps DEF NativeInterpret, Inv, Fields, Drained
<1>10. CASE NativeChecks BY <1>10 DEF NativeChecks, Inv, Fields, Drained, HandedOver
<1>11. CASE InterpretOne BY <1>1, <1>11, InterpretKeeps DEF InterpretOne, Inv, Fields, Drained
<1>12. CASE BeginTurn BY <1>12 DEF BeginTurn, Inv, Fields, Drained, HandedOver
<1>13. CASE Turn
  <2>1. emu' = emu BY <1>13 DEF Turn
  <2>2. CASE Interpret("turn") BY <1>1, <2>1, <2>2, InterpretKeeps DEF Inv, Fields, Drained
  <2>3. CASE at' = "after" /\ guest' = guest BY <2>1, <2>3 DEF Inv, Fields, Drained, HandedOver
  <2> QED BY <1>13, <2>1, <2>2, <2>3 DEF Turn
<1> QED BY <1>2, <1>3, <1>4, <1>5, <1>6, <1>7, <1>8, <1>9, <1>10, <1>11, <1>12, <1>13 DEF Run6502

(* The main loop starts the handler at two places, and has seen to the     *)
(* queue before both (nes.c:493-672).                                      *)
LEMMA LoopKeeps ==
  ASSUME Inv, MainLoop PROVE Inv' /\ (~emu.active /\ emu'.active => guest.queue = << >>)
<1>1. CASE Top BY <1>1 DEF Top, Inv, Fields, Drained, HandedOver
<1>2. CASE After BY <1>2 DEF After, Inv, Fields, Drained, HandedOver
<1>3. CASE NewFrame BY <1>3 DEF NewFrame, Call, Inv, Fields, Drained, HandedOver
<1>4. CASE Nmi BY <1>4 DEF Nmi, EnterNmi, Inv, Fields, Drained, HandedOver
<1>5. CASE Mark BY <1>5 DEF Mark, Inv, Fields, Drained, HandedOver
<1>6. CASE NoFrame BY <1>6 DEF NoFrame, Call, Inv, Fields, Drained, HandedOver
<1>7. CASE WatchdogNmi BY <1>7 DEF WatchdogNmi, Inv, Fields, Drained, HandedOver
<1>8. CASE WatchdogQuiet BY <1>8 DEF WatchdogQuiet, Inv, Fields, Drained, HandedOver
<1> QED BY <1>1, <1>2, <1>3, <1>4, <1>5, <1>6, <1>7, <1>8 DEF MainLoop

(* The vertical blank may come between any two of these steps.             *)
LEMMA VblankKeeps == ASSUME Inv, Vblank PROVE Inv' /\ emu'.active = emu.active
  BY DEF Vblank, Inv, Fields, Drained

(* Wherever the host has handed over the queue, or found it empty, nothing *)
(* is in it until the guest runs again (nes.c:945-998, 561-624).           *)
THEOREM QueueDrained == Spec => []Inv
<1>1. Inv /\ [Next]_vars => Inv'
  <2> SUFFICES ASSUME Inv, [Next]_vars PROVE Inv' OBVIOUS
  <2>1. CASE Next BY <2>1, RenderKeeps, RunKeeps, LoopKeeps, VblankKeeps DEF Next, Host
  <2>2. CASE UNCHANGED vars BY <2>2 DEF vars, Inv, Fields, Drained
  <2> QED BY <2>1, <2>2
<1> QED BY InitInv, <1>1, PTL DEF Spec

(* What the guest wrote to the PPU before the vertical blank is handed     *)
(* over before its handler runs (nes.c:569-588, 620-653).                  *)
THEOREM HandedOverBeforeNmi == Spec => PpuBeforeNmi
<1>1. Inv /\ [Next]_vars => [~emu.active /\ emu.active' => guest.queue = << >>]_vars
  <2> SUFFICES ASSUME Inv, Next PROVE ~emu.active /\ emu'.active => guest.queue = << >>
    OBVIOUS
  <2> QED BY RenderKeeps, RunKeeps, LoopKeeps, VblankKeeps DEF Next, Host
<1> QED BY QueueDrained, <1>1, PTL DEF Spec, PpuBeforeNmi
-----------------------------------------------------------------------------
(* The PPU writes in the order of the guest.                               *)
(*                                                                         *)
(* ShownInOrder is not inductive: a list may be dropped or overwritten     *)
(* unless it has been shown, and its name may come round again.  OrderInv  *)
(* says how many writes there can be, and when a list that is handed over  *)
(* is known to be shown: rv.active and the counter stand for a request     *)
(* that the vertical blank has not answered yet.                           *)

Writes == 0..(WriteMod - 1)
Rendering == {"rv_wait", "fin_wait", "rv_submit", "rv_flags", "rv_store", "rv_note"}
Returns == {"after", "checks", "njsr_checks", "turn", "nmi", "fin_wait"}
LastOf(s) == s[Len(s)]

LzType ==
  lz \in [counter: 0..(CounterMod - 1), list: BOOLEAN, sync: BOOLEAN, submit: Seq(Writes), shown: Writes]
RvType ==
  rv \in [active: BOOLEAN, nmi: 0..(CounterMod - 1), flags: BOOLEAN, ret: Returns, spun: BOOLEAN]
QueueType ==
  /\ {"queue", "written"} \subseteq DOMAIN guest
  /\ guest.queue \in Seq(Writes) /\ guest.written \in Writes
Types == LzType /\ RvType /\ QueueType

(* A full queue is handed over before the guest goes on. *)
Room ==
  /\ Len(guest.queue) <= FlushAt /\ Len(lz.submit) <= FlushAt
  /\ at \notin {"rv_wait", "rv_submit"} => Len(guest.queue) < FlushAt

(* A list is pending only with a request of the sync.  The one that the flags
   bring back after the vertical blank has been shown already.             *)
ListInv ==
  /\ lz.list => lz.sync /\ lz.submit # << >>
  /\ at = "rv_submit" => ~lz.list
  /\ at = "rv_store" =>
       /\ lz.list => rv.flags
       /\ rv.flags => lz.submit # << >> /\ (lz.list \/ LastOf(lz.submit) = lz.shown)

(* What render_video waits for: the spin gives up only when the vertical
   blank came without a request, and the counter moves only with one.    *)
WaitInv ==
  /\ at \notin Rendering \ {"rv_wait", "fin_wait"} =>
       /\ ~rv.active => ~lz.list
       /\ rv.active /\ lz.sync => lz.counter = rv.nmi
  /\ at \in {"rv_wait", "fin_wait"} /\ rv.spun => ~lz.sync

InOrder(s, shown, written) ==
  /\ \A k \in 1..Len(s) : s[k] = (shown + k) % WriteMod
  /\ written = (shown + Len(s) + 1) % WriteMod
Held == IF lz.list /\ LastOf(lz.submit) # lz.shown THEN lz.submit ELSE << >>

OrderInv == Types /\ Room /\ ListInv /\ WaitInv /\ ShownInOrder

-----------------------------------------------------------------------------
(* Names of writes wrap round at most once among those under way. *)
LEMMA Wraps ==
  ASSUME NEW m \in Nat \ {0}, NEW x \in Nat, x < 2 * m
  PROVE  x % m = (IF x < m THEN x ELSE x - m) /\ x % m \in 0..(m - 1)
<1>1. CASE x < m BY <1>1
<1>2. CASE x >= m
  <2>1. x % m = x - m BY <1>2
  <2> QED BY <1>2, <2>1
<1> QED BY <1>1, <1>2

LEMMA Sizes ==
  /\ WriteMod \in Nat \ {0} /\ FlushAt \in Nat \ {0} /\ WriteMod > 3 * FlushAt
  /\ CounterMod \in Nat /\ CounterMod > 1
BY FrameAssumption

LEMMA ShownIs == ShownInOrder <=> InOrder(Held \o guest.queue, lz.shown, guest.written)
BY DEF ShownInOrder, InOrder, UnderWay, Held, LastOf

LEMMA AppendBehind ==
  ASSUME NEW s \in Seq(Writes), NEW q \in Seq(Writes), NEW w \in Writes
  PROVE  Append(s \o q, w) = s \o Append(q, w)
<1>1. <<w>> \in Seq(Writes) /\ s \o q \in Seq(Writes) OBVIOUS
<1>2. Append(s \o q, w) = (s \o q) \o <<w>> BY <1>1, AppendIsConcat
<1>3. Append(q, w) = q \o <<w>> BY AppendIsConcat
<1> QED BY <1>1, <1>2, <1>3, ConcatAssociative

(* One more write at the end. *)
LEMMA OneMore ==
  ASSUME NEW s \in Seq(Writes), Len(s) <= 2 * FlushAt, NEW shown \in Writes, NEW written \in Writes,
         InOrder(s, shown, written)
  PROVE  InOrder(Append(s, written), shown, (written + 1) % WriteMod)
<1>1. Len(s) \in Nat /\ Len(Append(s, written)) = Len(s) + 1 OBVIOUS
<1>2. \A k \in 1..Len(s) : Append(s, written)[k] = s[k] OBVIOUS
<1>3. Append(s, written)[Len(s) + 1] = written OBVIOUS
<1>4. \A k \in 1..(Len(s) + 1) : Append(s, written)[k] = (shown + k) % WriteMod
  <2> TAKE k \in 1..(Len(s) + 1)
  <2>1. CASE k \in 1..Len(s) BY <1>2, <2>1 DEF InOrder
  <2>2. CASE k = Len(s) + 1
    <3>1. shown + k = shown + Len(s) + 1 BY <1>1, <2>2, Sizes DEF Writes
    <3> QED BY <1>3, <2>2, <3>1 DEF InOrder
  <2> QED BY <1>1, <2>1, <2>2
<1>5. (written + 1) % WriteMod = (shown + (Len(s) + 1) + 1) % WriteMod
  <2> DEFINE x == shown + Len(s) + 1
  <2>1. x \in Nat /\ x + 1 < 2 * WriteMod /\ x < 2 * WriteMod /\ shown + (Len(s) + 1) + 1 = x + 1
    BY <1>1, Sizes DEF Writes
  <2>2. written = x % WriteMod BY DEF InOrder
  <2>3. written = IF x < WriteMod THEN x ELSE x - WriteMod
    BY <2>1, <2>2, Wraps, Sizes
  <2>4. (x + 1) % WriteMod = IF x + 1 < WriteMod THEN x + 1 ELSE (x + 1) - WriteMod
    <3>1. x + 1 \in Nat BY <2>1
    <3> HIDE DEF x
    <3> QED BY <2>1, <3>1, Wraps, Sizes
  <2>5. written + 1 \in Nat /\ written + 1 < 2 * WriteMod BY Sizes DEF Writes
  <2>6. (written + 1) % WriteMod = IF written + 1 < WriteMod THEN written + 1 ELSE (written + 1) - WriteMod
    BY <2>5, Wraps, Sizes
  <2> HIDE DEF x
  <2> QED BY <2>1, <2>3, <2>4, <2>6, Sizes
<1> QED BY <1>1, <1>4, <1>5 DEF InOrder

(* The list is shown up to its last write, the others follow. *)
LEMMA ShowList ==
  ASSUME NEW s \in Seq(Writes), NEW q \in Seq(Writes), s # << >>,
         Len(s) <= FlushAt, Len(q) <= FlushAt, NEW shown \in Writes, NEW written \in Writes,
         InOrder(s \o q, shown, written)
  PROVE  InOrder(q, LastOf(s), written) /\ LastOf(s) # shown /\ LastOf(s) \in Writes
<1>1. /\ Len(s) \in Nat /\ Len(s) > 0 /\ Len(q) \in Nat
      /\ Len(s \o q) = Len(s) + Len(q)
      /\ LastOf(s) \in Writes
  BY DEF LastOf
<1>2. \A k \in 1..Len(s) : (s \o q)[k] = s[k] OBVIOUS
<1>3. \A k \in 1..Len(q) : (s \o q)[Len(s) + k] = q[k] OBVIOUS
<1> DEFINE n == shown + Len(s)
<1>4. n \in Nat /\ n < 2 * WriteMod /\ shown < WriteMod /\ shown \in Nat /\ n > shown /\ n < shown + WriteMod
  BY <1>1, Sizes DEF Writes
<1>5. LastOf(s) = n % WriteMod
  BY <1>1, <1>2 DEF LastOf, InOrder
<1>6. LastOf(s) = IF n < WriteMod THEN n ELSE n - WriteMod
  <2> HIDE DEF n
  <2> QED BY <1>4, <1>5, Wraps, Sizes
<1>7. LastOf(s) # shown
  <2> HIDE DEF n
  <2> QED BY <1>4, <1>6, Sizes
<1>8. ASSUME NEW k \in 1..(FlushAt + 1) PROVE (n + k) % WriteMod = (LastOf(s) + k) % WriteMod
  <2> k \in Nat BY Sizes
  <2>1. n + k \in Nat /\ n + k < 2 * WriteMod /\ LastOf(s) + k \in Nat /\ LastOf(s) + k < 2 * WriteMod
    BY <1>1, <1>4, Sizes DEF Writes
  <2> HIDE DEF n
  <2>2. (n + k) % WriteMod = IF n + k < WriteMod THEN n + k ELSE (n + k) - WriteMod
    BY <2>1, Wraps, Sizes
  <2>3. (LastOf(s) + k) % WriteMod = IF LastOf(s) + k < WriteMod THEN LastOf(s) + k ELSE (LastOf(s) + k) - WriteMod
    BY <2>1, Wraps, Sizes
  <2> QED BY <1>1, <1>4, <1>6, <2>1, <2>2, <2>3, Sizes DEF Writes
<1>9. ASSUME NEW k \in 1..Len(q) PROVE q[k] = (LastOf(s) + k) % WriteMod
  <2>1. Len(s) + k \in 1..Len(s \o q) /\ k \in 1..(FlushAt + 1) BY <1>1, Sizes
  <2>2. q[k] = (shown + (Len(s) + k)) % WriteMod BY <1>3, <2>1 DEF InOrder
  <2>3. shown + (Len(s) + k) = n + k BY <1>1, <1>4
  <2> QED BY <1>8, <2>1, <2>2, <2>3
<1>10. written = (LastOf(s) + Len(q) + 1) % WriteMod
  <2>1. Len(q) + 1 \in 1..(FlushAt + 1) BY <1>1, Sizes
  <2>2. written = (shown + Len(s \o q) + 1) % WriteMod BY DEF InOrder
  <2>3. shown + Len(s \o q) + 1 = n + (Len(q) + 1) BY <1>1, <1>4
  <2>4. LastOf(s) + Len(q) + 1 = LastOf(s) + (Len(q) + 1) BY <1>1 DEF Writes
  <2> QED BY <1>8, <2>1, <2>2, <2>3, <2>4
<1> QED BY <1>1, <1>7, <1>9, <1>10 DEF InOrder
-----------------------------------------------------------------------------
(* Steps of the guest. *)

LEMMA StepTypes ==
  ASSUME Types
  PROVE  /\ DOMAIN Step(guest) = DOMAIN guest
         /\ Here = "ppu" => /\ Step(guest).queue = Append(guest.queue, guest.written)
                            /\ Step(guest).written = (guest.written + 1) % WriteMod
         /\ Here # "ppu" => /\ Step(guest).queue = guest.queue
                            /\ Step(guest).written = guest.written
<1> DEFINE i == Ins(guest.pc)
           top == guest.stack[Len(guest.stack)]
           next == [guest EXCEPT !.pc = guest.pc + 1]
<1>1. DOMAIN next = DOMAIN guest /\ next.queue = guest.queue /\ next.written = guest.written
  BY DEF Types, LzType, RvType, QueueType
<1>2. Here = i.op BY DEF Here
<1> USE DEF Types, QueueType
<1>3. CASE i.op = "jmp" BY <1>2, <1>3 DEF Step
<1>4. CASE i.op \in {"jsr", "njsr"} BY <1>2, <1>4 DEF Step
<1>5. CASE i.op = "rts" BY <1>2, <1>5 DEF Step
<1>6. CASE i.op = "rti" BY <1>2, <1>6 DEF Step
<1>7. CASE i.op \in {"set", "clear"} BY <1>1, <1>2, <1>7 DEF Step
<1>8. CASE i.op \in {"idle", "loop"} BY <1>1, <1>2, <1>8 DEF Step
<1>9. CASE i.op \in {"status", "ctrl", "dma"} BY <1>1, <1>2, <1>9 DEF Step
<1>10. CASE i.op = "ppu" BY <1>1, <1>2, <1>10 DEF Step
<1>11. CASE i.op = "bpl" BY <1>1, <1>2, <1>11 DEF Step
<1>12. CASE i.op \notin {"jmp", "jsr", "njsr", "rts", "rti", "set", "clear", "idle", "loop",
                         "status", "ppu", "ctrl", "dma", "bpl"}
  BY <1>1, <1>2, <1>12 DEF Step
<1> QED BY <1>3, <1>4, <1>5, <1>6, <1>7, <1>8, <1>9, <1>10, <1>11, <1>12

(* A step that leaves the queue, the list and render_video alone. *)
LEMMA Quiet ==
  ASSUME OrderInv, lz' = lz, rv' = rv, DOMAIN guest' = DOMAIN guest,
         guest'.queue = guest.queue, guest'.written = guest.written,
         at \notin Rendering, at' \notin Rendering
  PROVE  OrderInv'
<1>1. Types' /\ Room' /\ ListInv' /\ WaitInv'
  BY DEF OrderInv, Types, LzType, RvType, QueueType, Room, ListInv, WaitInv, Rendering
<1>2. ShownInOrder'
  BY DEF OrderInv, ShownInOrder, UnderWay
<1> QED BY <1>1, <1>2 DEF OrderInv

(* What is held by lazynes and in the queue is never more than two queues. *)
LEMMA HeldFits ==
  ASSUME OrderInv
  PROVE  /\ Held \in Seq(Writes) /\ Len(Held) <= FlushAt
         /\ Held \o guest.queue \in Seq(Writes)
         /\ Len(Held \o guest.queue) = Len(Held) + Len(guest.queue)
         /\ Len(Held \o guest.queue) <= 2 * FlushAt
<1>1. Held \in Seq(Writes) /\ Len(Held) <= FlushAt /\ guest.queue \in Seq(Writes)
  BY Sizes DEF OrderInv, Types, LzType, RvType, QueueType, Room, Held
<1>2. Len(guest.queue) <= FlushAt /\ Len(guest.queue) \in Nat /\ Len(Held) \in Nat
  BY <1>1 DEF OrderInv, Room
<1>3. Len(Held \o guest.queue) = Len(Held) + Len(guest.queue) BY <1>1
<1>4. Held \o guest.queue \in Seq(Writes) BY <1>1
<1> QED BY <1>1, <1>2, <1>3, <1>4, Sizes

(* A PPU write goes to the end of what is under way. *)
LEMMA InterpretOrder ==
  ASSUME OrderInv, NEW ret \in Returns \ {"nmi", "fin_wait"}, Interpret(ret), lz' = lz, at \notin Rendering
  PROVE  OrderInv'
<1>1. Types /\ Types' /\ DOMAIN guest' = DOMAIN guest
  <2>1. Types BY DEF OrderInv
  <2>2. guest' = Step(guest) BY DEF Interpret
  <2>3. rv' \in [active: BOOLEAN, nmi: 0..(CounterMod - 1), flags: BOOLEAN, ret: Returns, spun: BOOLEAN]
    <3>1. CASE rv' = rv BY <2>1, <3>1 DEF Types, LzType, RvType, QueueType
    <3>2. CASE Call(ret) BY <2>1, <3>2 DEF Types, LzType, RvType, QueueType, Call
    <3> QED BY <3>1, <3>2 DEF Interpret
  <2>4. (guest.written + 1) % WriteMod \in Writes BY <2>1, Sizes DEF Types, LzType, RvType, QueueType, Writes
  <2>5. DOMAIN guest' = DOMAIN guest BY <2>1, <2>2, StepTypes
  <2>6. guest'.queue \in Seq(Writes) /\ guest'.written \in Writes
    <3> DEFINE queue == guest.queue
               written == guest.written
    <3>0. queue \in Seq(Writes) /\ written \in Writes BY <2>1 DEF Types, QueueType
    <3>1. CASE Here = "ppu"
      <4>1. /\ guest'.queue = Append(queue, written)
            /\ guest'.written = (written + 1) % WriteMod
        BY <2>1, <2>2, <3>1, StepTypes
      <4> HIDE DEF queue, written
      <4>2. Append(queue, written) \in Seq(Writes) BY <3>0
      <4>3. (guest.written + 1) % WriteMod \in Writes BY <2>4
      <4> QED BY <4>1, <4>2, <4>3 DEF written
    <3>2. CASE Here # "ppu"
      <4>1. guest'.queue = queue /\ guest'.written = written
        BY <2>1, <2>2, <3>2, StepTypes
      <4> HIDE DEF queue, written
      <4> QED BY <3>0, <4>1
    <3> QED BY <3>1, <3>2
  <2> QED BY <2>1, <2>3, <2>5, <2>6 DEF Types, LzType, RvType, QueueType
<1>2. CASE Here # "ppu"
  BY <1>1, <1>2, StepTypes, Quiet DEF Interpret, Returns, Rendering
<1>3. CASE Here = "ppu"
  <2>1. /\ guest'.queue = Append(guest.queue, guest.written)
        /\ guest'.written = (guest.written + 1) % WriteMod
    BY <1>1, <1>3, StepTypes DEF Interpret
  <2>2. Len(guest'.queue) = Len(guest.queue) + 1 /\ Len(guest.queue) \in Nat
    BY <1>1, <2>1 DEF Types, LzType, RvType, QueueType
  <2>3. Len(guest.queue) < FlushAt BY DEF OrderInv, Room, Rendering
  <2>4. IF Len(guest'.queue) >= FlushAt THEN Call(ret) ELSE at' = ret /\ rv' = rv
    BY <1>3 DEF Interpret
  <2>5. Room'
    BY <2>2, <2>3, <2>4, Sizes DEF OrderInv, Room, Call
  <2>6. at' \in {"rv_wait"} \cup (Returns \ {"nmi", "fin_wait"})
    BY <2>4 DEF Call
  <2>7. ListInv'
    BY <2>6 DEF OrderInv, ListInv, Returns
  <2>8. WaitInv'
    <3>1. /\ ~rv.active => ~lz.list
          /\ rv.active /\ lz.sync => lz.counter = rv.nmi
      BY DEF OrderInv, WaitInv
    <3>2. CASE Call(ret)
      BY <1>1, <3>1, <3>2 DEF Call, WaitInv, Types, LzType, RvType, QueueType
    <3>3. CASE at' = ret /\ rv' = rv
      BY <3>1, <3>3 DEF WaitInv, Returns
    <3> QED BY <2>4, <3>2, <3>3
  <2>9. ShownInOrder'
    <3>1. Held' = Held BY DEF Held
    <3>2. /\ InOrder(Held \o guest.queue, lz.shown, guest.written)
          /\ Held \in Seq(Writes)
          /\ Held \o guest.queue \in Seq(Writes) /\ Len(Held \o guest.queue) <= 2 * FlushAt
      BY ShownIs, HeldFits DEF OrderInv
    <3>3. lz.shown \in Writes /\ guest.written \in Writes /\ guest.queue \in Seq(Writes)
      BY <1>1 DEF Types, LzType, RvType, QueueType
    <3>4. InOrder(Append(Held \o guest.queue, guest.written), lz.shown, guest'.written)
      BY <2>1, <3>2, <3>3, OneMore
    <3>5. Append(Held \o guest.queue, guest.written) = Held \o guest'.queue
      <4>1. Append(Held \o guest.queue, guest.written) = Held \o Append(guest.queue, guest.written)
        BY <3>2, <3>3, AppendBehind
      <4> QED BY <2>1, <4>1
    <3>6. InOrder(Held' \o guest'.queue, lz'.shown, guest'.written)
      BY <3>1, <3>4, <3>5
    <3> QED BY <3>6 DEF ShownInOrder, InOrder, UnderWay, Held, LastOf
  <2> QED BY <1>1, <2>5, <2>7, <2>8, <2>9 DEF OrderInv
<1> QED BY <1>2, <1>3
-----------------------------------------------------------------------------
(* The vertical blank shows the list, or the one it has shown before. *)
LEMMA VblankOrder == ASSUME OrderInv, Vblank PROVE OrderInv'
<1> USE DEF OrderInv
<1>1. /\ at' = at /\ guest' = guest
      /\ rv' = [rv EXCEPT !.spun = at \in {"rv_wait", "fin_wait"}]
  BY DEF Vblank
<1>2. /\ rv' \in [active: BOOLEAN, nmi: 0..(CounterMod - 1), flags: BOOLEAN, ret: Returns, spun: BOOLEAN]
      /\ rv'.active = rv.active /\ rv'.nmi = rv.nmi /\ rv'.flags = rv.flags
      /\ rv'.spun => at \in {"rv_wait", "fin_wait"}
  <2> DEFINE b == at \in {"rv_wait", "fin_wait"}
  <2>1. b \in BOOLEAN OBVIOUS
  <2>2. rv' = [rv EXCEPT !.spun = b] BY <1>1
  <2>3. b => at \in {"rv_wait", "fin_wait"} OBVIOUS
  <2> HIDE DEF b
  <2> QED BY <2>1, <2>2, <2>3 DEF Types, LzType, RvType, QueueType
<1>3. CASE ~lz.sync
  <2>1. lz' = lz BY <1>3 DEF Vblank
  <2>2. Types'
    <3>1. QueueType' BY <1>1 DEF Types, QueueType
    <3>2. RvType' BY <1>2 DEF RvType
    <3>3. LzType' BY <2>1 DEF LzType, Types
    <3> QED BY <3>1, <3>2, <3>3 DEF Types
  <2>3. Room' /\ ListInv' BY <1>1, <1>2, <2>1 DEF Room, ListInv
  <2>4. WaitInv' BY <1>1, <1>2, <1>3, <2>1 DEF WaitInv
  <2>5. ShownInOrder' BY <1>1, <2>1 DEF ShownInOrder, UnderWay
  <2> QED BY <2>2, <2>3, <2>4, <2>5
<1>4. CASE lz.sync
  <2> DEFINE now == IF lz.list THEN LastOf(lz.submit) ELSE lz.shown
  <2>1. lz' = [lz EXCEPT !.sync = FALSE, !.list = FALSE, !.counter = (lz.counter + 1) % CounterMod, !.shown = now]
    BY <1>4 DEF Vblank, LastOf
  <2>2. (lz.counter + 1) % CounterMod \in 0..(CounterMod - 1) BY Sizes DEF Types, LzType, RvType, QueueType
  <2>3. now \in Writes /\ (lz.list => now = LastOf(lz.submit))
    BY DEF Types, LzType, RvType, QueueType, ListInv, LastOf
  <2> HIDE DEF now
  <2>4. /\ lz' \in [counter: 0..(CounterMod - 1), list: BOOLEAN, sync: BOOLEAN, submit: Seq(Writes), shown: Writes]
        /\ ~lz'.sync /\ ~lz'.list /\ lz'.submit = lz.submit /\ lz'.shown = now
    BY <2>1, <2>2, <2>3 DEF Types, LzType, RvType, QueueType
  <2>5. Types'
    <3>1. QueueType' BY <1>1 DEF Types, QueueType
    <3>2. RvType' BY <1>2 DEF RvType
    <3>3. LzType' BY <2>4 DEF LzType, Types
    <3> QED BY <3>1, <3>2, <3>3 DEF Types
  <2>6. Room' BY <1>1, <2>4 DEF Room
  <2>7. ListInv' BY <1>1, <1>2, <2>3, <2>4 DEF ListInv, now
  <2>8. WaitInv' BY <1>1, <1>2, <2>4 DEF WaitInv
  <2>9. InOrder(Held \o guest.queue, lz.shown, guest.written) BY ShownIs
  <2>10. InOrder(guest.queue, now, guest.written)
    <3>1. CASE lz.list /\ LastOf(lz.submit) # lz.shown
      <4>1. Held = lz.submit /\ now = LastOf(lz.submit) BY <2>3, <3>1 DEF Held
      <4>2. lz.submit # << >> BY <3>1 DEF ListInv
      <4>3. /\ lz.submit \in Seq(Writes) /\ guest.queue \in Seq(Writes)
            /\ Len(lz.submit) <= FlushAt /\ Len(guest.queue) <= FlushAt
            /\ lz.shown \in Writes /\ guest.written \in Writes
        BY DEF Types, LzType, RvType, QueueType, Room
      <4> QED BY <2>9, <4>1, <4>2, <4>3, ShowList
    <3>2. CASE ~(lz.list /\ LastOf(lz.submit) # lz.shown)
      <4>1. Held = << >> /\ now = lz.shown BY <3>2 DEF Held, now
      <4>2. << >> \o guest.queue = guest.queue BY DEF Types, LzType, RvType, QueueType
      <4> QED BY <2>9, <4>1, <4>2
    <3> QED BY <3>1, <3>2
  <2>11. ShownInOrder'
    <3>1. UnderWay' = guest.queue BY <1>1, <2>4 DEF UnderWay, Types, LzType, RvType, QueueType
    <3>2. guest' = guest /\ lz'.shown = now BY <1>1, <2>4
    <3> QED BY <2>10, <3>1, <3>2 DEF ShownInOrder, InOrder
  <2> QED BY <2>5, <2>6, <2>7, <2>8, <2>11
<1> QED BY <1>3, <1>4 DEF Types, LzType, RvType, QueueType
-----------------------------------------------------------------------------
(* The steps of render_video. *)

LEMMA InitOrder == Init => OrderInv
<1> SUFFICES ASSUME Init PROVE OrderInv OBVIOUS
<1> USE Sizes DEF Init
<1>1. LzType BY DEF LzType, Writes
<1>2. RvType BY DEF RvType, Returns
<1>3. QueueType BY DEF QueueType, Writes
<1>4. Room /\ ListInv /\ WaitInv BY DEF Room, ListInv, WaitInv
<1>5. ShownInOrder
  <2>1. 1 % WriteMod = 1 /\ UnderWay = << >> BY DEF UnderWay
  <2> QED BY <2>1 DEF ShownInOrder
<1> QED BY <1>1, <1>2, <1>3, <1>4, <1>5 DEF OrderInv, Types

(* The wait is over: the counter has moved, so that the list was taken. *)
LEMMA DoneOrder == ASSUME OrderInv, RvDone PROVE OrderInv'
<1>1. /\ at \in {"rv_wait", "fin_wait"} /\ lz' = lz /\ guest' = guest
      /\ at' = (IF at = "rv_wait" THEN "rv_submit" ELSE "wd_check")
      /\ rv' = [rv EXCEPT !.active = FALSE]
      /\ ~rv.active \/ lz.counter # rv.nmi
  BY DEF RvDone, Waited
<1>2. Types /\ RvType' /\ ~rv'.active
  BY <1>1 DEF OrderInv, Types, RvType
<1>3. Types'
  <2>1. LzType' /\ QueueType' BY <1>1, <1>2 DEF Types, LzType, QueueType
  <2> QED BY <1>2, <2>1 DEF Types
<1>4. ~lz.list
  BY <1>1 DEF OrderInv, WaitInv, ListInv, Rendering
<1>5. Room' /\ ListInv' /\ WaitInv'
  BY <1>1, <1>2, <1>4 DEF OrderInv, Room, ListInv, WaitInv
<1>6. ShownInOrder' BY <1>1 DEF OrderInv, ShownInOrder, UnderWay
<1> QED BY <1>3, <1>5, <1>6 DEF OrderInv

(* The spin gives up: nothing was requested, so that no list is dropped. *)
LEMMA TimeoutOrder == ASSUME OrderInv, RvTimeout PROVE OrderInv'
<1>1. /\ at \in {"rv_wait", "fin_wait"} /\ guest' = guest
      /\ at' = (IF at = "rv_wait" THEN "rv_submit" ELSE "wd_check")
      /\ rv' = [rv EXCEPT !.active = FALSE]
      /\ lz' = [lz EXCEPT !.sync = FALSE, !.list = FALSE]
      /\ rv.spun
  BY DEF RvTimeout, Waited
<1>2. Types /\ RvType' /\ ~rv'.active
  BY <1>1 DEF OrderInv, Types, RvType
<1>3. /\ ~lz'.list /\ ~lz'.sync /\ LzType'
      /\ lz'.submit = lz.submit /\ lz'.shown = lz.shown
  BY <1>1, <1>2 DEF Types, LzType
<1>4. Types'
  <2>1. QueueType' BY <1>1, <1>2 DEF Types, QueueType
  <2> QED BY <1>2, <1>3, <2>1 DEF Types
<1>5. ~lz.list
  BY <1>1 DEF OrderInv, WaitInv, ListInv
<1>6. Room' /\ ListInv' /\ WaitInv'
  BY <1>1, <1>2, <1>3 DEF OrderInv, Room, ListInv, WaitInv
<1>7. UnderWay' = UnderWay BY <1>1, <1>3, <1>5 DEF UnderWay
<1>8. ShownInOrder' BY <1>1, <1>3, <1>7 DEF OrderInv, ShownInOrder
<1> QED BY <1>4, <1>6, <1>8 DEF OrderInv

(* The queue becomes the list; its last write is not the one shown last. *)
LEMMA SubmitOrder == ASSUME OrderInv, RvSubmit PROVE OrderInv'
<1> DEFINE q == guest.queue
           pending == q # << >>
<1>1. /\ at = "rv_submit" /\ at' = "rv_flags" /\ rv' = rv
      /\ lz' = [lz EXCEPT !.submit = q, !.list = pending, !.sync = TRUE]
      /\ guest' = [guest EXCEPT !.queue = << >>]
  BY DEF RvSubmit
<1>2. pending \in BOOLEAN /\ (pending <=> q # << >>) OBVIOUS
<1>3. Types /\ q \in Seq(Writes) /\ Len(q) <= FlushAt /\ ~lz.list
  BY <1>1 DEF OrderInv, Types, QueueType, Room, ListInv
<1> HIDE DEF pending
<1>4. LzType' /\ lz'.submit = q /\ lz'.list = pending /\ lz'.sync /\ lz'.shown = lz.shown
  BY <1>1, <1>2, <1>3 DEF Types, LzType
<1>5. QueueType' /\ guest'.queue = << >> /\ guest'.written = guest.written
  BY <1>1, <1>3 DEF Types, QueueType
<1>6. RvType' BY <1>1, <1>3 DEF Types, RvType
<1>7. Room' /\ ListInv' /\ WaitInv'
  BY <1>1, <1>2, <1>3, <1>4, <1>5, Sizes DEF Room, ListInv, WaitInv, Rendering
<1>8. InOrder(q, lz.shown, guest.written)
  <2>1. UnderWay = q BY <1>3 DEF UnderWay
  <2> HIDE DEF q
  <2> QED BY <2>1 DEF OrderInv, ShownInOrder, InOrder
<1>9. pending => LastOf(q) # lz.shown
  <2> SUFFICES ASSUME pending PROVE LastOf(q) # lz.shown OBVIOUS
  <2>1. /\ q # << >> /\ << >> \in Seq(Writes) /\ Len(<< >>) <= FlushAt
        /\ lz.shown \in Writes /\ guest.written \in Writes
    BY <1>2, <1>3, Sizes DEF Types, LzType, QueueType
  <2>2. q \o << >> = q BY <1>3, ConcatEmptySeq
  <2>3. InOrder(q \o << >>, lz.shown, guest.written) BY <1>8, <2>2
  <2> HIDE DEF q
  <2> QED BY <1>3, <2>1, <2>3, ShowList
<1>10. UnderWay' = q
  <2>1. CASE pending
    <3>1. UnderWay' = q \o << >> BY <1>4, <1>5, <1>9, <2>1 DEF UnderWay, LastOf
    <3> QED BY <1>3, <3>1, ConcatEmptySeq
  <2>2. CASE ~pending
    <3>1. UnderWay' = << >> \o << >> BY <1>4, <1>5, <2>2 DEF UnderWay
    <3>2. q = << >> BY <1>2, <2>2
    <3> QED BY <1>3, <3>1, <3>2, ConcatEmptySeq
  <2> QED BY <2>1, <2>2
<1>11. ShownInOrder'
  <2> HIDE DEF q
  <2> QED BY <1>4, <1>5, <1>8, <1>10 DEF ShownInOrder, InOrder
<1> QED BY <1>4, <1>5, <1>6, <1>7, <1>11 DEF OrderInv, Types

LEMMA FlagsOrder == ASSUME OrderInv, RvFlags PROVE OrderInv'
<1>1. /\ at = "rv_flags" /\ at' = "rv_store" /\ lz' = lz /\ guest' = guest
      /\ rv' = [rv EXCEPT !.flags = lz.list]
  BY DEF RvFlags
<1>2. Types BY DEF OrderInv
<1>3. RvType' /\ rv'.flags = lz.list BY <1>1, <1>2 DEF Types, RvType, LzType
<1>4. LzType' /\ QueueType' BY <1>1, <1>2 DEF Types, LzType, QueueType
<1>5. Room' /\ ListInv' /\ WaitInv'
  BY <1>1, <1>3 DEF OrderInv, Room, ListInv, WaitInv, Rendering
<1>6. ShownInOrder' BY <1>1 DEF OrderInv, ShownInOrder, UnderWay
<1> QED BY <1>3, <1>4, <1>5, <1>6 DEF OrderInv, Types

(* The flags read before are stored: what they bring back has been shown. *)
LEMMA StoreOrder == ASSUME OrderInv, RvStore PROVE OrderInv'
<1>1. /\ at = "rv_store" /\ at' = "rv_note" /\ rv' = rv /\ guest' = guest
      /\ lz' = [lz EXCEPT !.sync = TRUE, !.list = rv.flags]
  BY DEF RvStore
<1>2. Types BY DEF OrderInv
<1>3. /\ LzType' /\ lz'.list = rv.flags /\ lz'.sync
      /\ lz'.submit = lz.submit /\ lz'.shown = lz.shown
  BY <1>1, <1>2 DEF Types, RvType, LzType
<1>4. RvType' /\ QueueType' BY <1>1, <1>2 DEF Types, RvType, QueueType
<1>5. /\ lz.list => rv.flags
      /\ rv.flags => lz.submit # << >> /\ (lz.list \/ LastOf(lz.submit) = lz.shown)
  BY <1>1 DEF OrderInv, ListInv
<1>6. Room' /\ ListInv' /\ WaitInv'
  BY <1>1, <1>3, <1>5 DEF OrderInv, Room, ListInv, WaitInv, Rendering
<1>7. UnderWay' = UnderWay BY <1>1, <1>3, <1>5 DEF UnderWay, LastOf
<1>8. ShownInOrder' BY <1>1, <1>3, <1>7 DEF OrderInv, ShownInOrder
<1> QED BY <1>3, <1>4, <1>6, <1>8 DEF OrderInv, Types

LEMMA NoteOrder == ASSUME OrderInv, RvNote PROVE OrderInv'
<1>1. /\ at = "rv_note" /\ at' = rv.ret /\ lz' = lz
      /\ rv' = [rv EXCEPT !.active = TRUE, !.nmi = lz.counter, !.spun = FALSE]
      /\ guest' = [guest EXCEPT !.vblank = TRUE]
  BY DEF RvNote
<1>2. Types BY DEF OrderInv
<1>3. rv.ret \in Returns /\ lz.counter \in 0..(CounterMod - 1)
  BY <1>2 DEF Types, RvType, LzType
<1>4. RvType' /\ rv'.active /\ rv'.nmi = lz.counter /\ ~rv'.spun
  BY <1>1, <1>2, <1>3 DEF Types, RvType
<1>5. LzType' BY <1>1, <1>2 DEF Types, LzType
<1>6. QueueType' /\ guest'.queue = guest.queue /\ guest'.written = guest.written
  BY <1>1, <1>2 DEF Types, QueueType
<1>7. Room' /\ ListInv' /\ WaitInv'
  BY <1>1, <1>3, <1>4, <1>6 DEF OrderInv, Room, ListInv, WaitInv, Returns
<1>8. ShownInOrder' BY <1>1, <1>6 DEF OrderInv, ShownInOrder, UnderWay
<1> QED BY <1>4, <1>5, <1>6, <1>7, <1>8 DEF OrderInv, Types

(* render_video is called by the main loop, too. *)
LEMMA CallOrder ==
  ASSUME OrderInv, NEW ret \in Returns, Call(ret), lz' = lz, guest' = guest, at \notin Rendering
  PROVE  OrderInv'
<1>1. at' = "rv_wait" /\ rv' = [rv EXCEPT !.ret = ret, !.spun = FALSE] BY DEF Call
<1>2. Types BY DEF OrderInv
<1>3. RvType' /\ ~rv'.spun /\ rv'.active = rv.active /\ rv'.nmi = rv.nmi
  BY <1>1, <1>2 DEF Types, RvType
<1>4. LzType' /\ QueueType' BY <1>2 DEF Types, LzType, QueueType
<1>5. Room' /\ ListInv' /\ WaitInv'
  BY <1>1, <1>3 DEF OrderInv, Room, ListInv, WaitInv, Rendering
<1>6. ShownInOrder' BY DEF OrderInv, ShownInOrder, UnderWay
<1> QED BY <1>3, <1>4, <1>5, <1>6 DEF OrderInv, Types
-----------------------------------------------------------------------------
(* The batch and the main loop. *)

LEMMA RunOrder == ASSUME OrderInv, Run6502 PROVE OrderInv'
<1>1. Types /\ DOMAIN Step(guest) = DOMAIN guest
      /\ (Here # "ppu" => /\ Step(guest).queue = guest.queue
                          /\ Step(guest).written = guest.written)
  BY StepTypes DEF OrderInv
<1>2. CASE Checks BY <1>2, Quiet DEF Checks, Rendering
<1>3. CASE NeedsCompile BY <1>3, Quiet DEF NeedsCompile, Rendering
<1>4. CASE Compile
  <2>1. at = "compile" /\ lz' = lz BY <1>4 DEF Compile
  <2>2. CASE Interpret("after")
    BY <2>1, <2>2, InterpretOrder DEF Returns, Rendering
  <2>3. CASE at' = "after" /\ guest' = guest /\ rv' = rv
    BY <2>1, <2>3, Quiet DEF Rendering
  <2> QED BY <1>4, <2>2, <2>3 DEF Compile
<1>5. CASE RunBlock
  <2>1. /\ Here # "ppu" /\ guest' = Step(guest) /\ lz' = lz /\ rv' = rv
        /\ at \in {"dispatch", "njsr"} /\ at' \in {"dispatch", "njsr", "checks", "njsr_checks"}
    BY <1>5 DEF RunBlock, Native, ToInterpret, LeftToInterpreter, Checked
  <2> QED BY <1>1, <2>1, Quiet DEF Rendering
<1>6. CASE LoopEnds
  <2>1. /\ guest' = [guest EXCEPT !.pc = guest.pc + 1] /\ lz' = lz /\ rv' = rv
        /\ at \in {"dispatch", "njsr"} /\ at' \in {"checks", "njsr_checks"}
    BY <1>6 DEF LoopEnds, Looping, Checked
  <2> QED BY <1>1, <2>1, Quiet DEF Rendering, Types, QueueType
<1>7. CASE LoopYields
  <2>1. /\ guest' = guest /\ lz' = lz /\ rv' = rv
        /\ at \in {"dispatch", "njsr"} /\ at' \in {"dispatch", "njsr", "checks", "njsr_checks"}
    BY <1>7 DEF LoopYields, Looping, Checked
  <2> QED BY <2>1, Quiet DEF Rendering
<1>8. CASE NativeCall
  <2>1. /\ Here # "ppu" /\ guest' = Step(guest) /\ lz' = lz /\ rv' = rv
        /\ at \in {"dispatch", "njsr"} /\ at' = "njsr"
    BY <1>8 DEF NativeCall
  <2> QED BY <1>1, <2>1, Quiet DEF Rendering
<1>9. CASE NativeInterpret
  BY <1>9, InterpretOrder DEF NativeInterpret, Returns, Rendering
<1>10. CASE NativeChecks
  <2>1. /\ guest' = guest /\ lz' = lz /\ rv' = rv /\ at = "njsr_checks"
        /\ at' \in {"compile", "njsr", "njsr_checks", "checks"}
    BY <1>10 DEF NativeChecks
  <2> QED BY <2>1, Quiet DEF Rendering
<1>11. CASE InterpretOne
  BY <1>11, InterpretOrder DEF InterpretOne, Returns, Rendering
<1>12. CASE BeginTurn BY <1>12, Quiet DEF BeginTurn, Rendering
<1>13. CASE Turn
  <2>1. at = "turn" /\ lz' = lz BY <1>13 DEF Turn
  <2>2. CASE Interpret("turn")
    BY <2>1, <2>2, InterpretOrder DEF Returns, Rendering
  <2>3. CASE at' = "after" /\ guest' = guest /\ rv' = rv
    BY <2>1, <2>3, Quiet DEF Rendering
  <2> QED BY <1>13, <2>2, <2>3 DEF Turn
<1> QED BY <1>2, <1>3, <1>4, <1>5, <1>6, <1>7, <1>8, <1>9, <1>10, <1>11, <1>12, <1>13 DEF Run6502

LEMMA LoopOrder == ASSUME OrderInv, MainLoop PROVE OrderInv'
<1>1. QueueType BY DEF OrderInv, Types
<1>2. CASE Top BY <1>2, Quiet DEF Top, Rendering
<1>3. CASE After BY <1>1, <1>3, Quiet DEF After, Rendering, QueueType
<1>4. CASE NewFrame
  <2>1. at = "frame" /\ lz' = lz BY <1>4 DEF NewFrame
  <2>2. CASE at' = "mark" /\ guest' = guest /\ rv' = rv
    BY <2>1, <2>2, Quiet DEF Rendering
  <2>3. CASE Call("nmi") /\ guest' = guest
    BY <2>1, <2>3, CallOrder DEF Returns, Rendering
  <2>4. CASE at' = "nmi" /\ guest' = [guest EXCEPT !.vblank = TRUE] /\ rv' = rv
    BY <1>1, <2>1, <2>4, Quiet DEF Rendering, QueueType
  <2> QED BY <1>4, <2>2, <2>3, <2>4 DEF NewFrame
<1>5. CASE Nmi
  <2>1. CASE guest' = guest BY <1>5, <2>1, Quiet DEF Nmi, Rendering
  <2>2. CASE EnterNmi
    BY <1>1, <1>5, <2>2, Quiet DEF Nmi, EnterNmi, Rendering, QueueType
  <2> QED BY <1>5, <2>1, <2>2 DEF Nmi
<1>6. CASE Mark BY <1>6, Quiet DEF Mark, Rendering
<1>7. CASE NoFrame
  <2>1. at = "frame" /\ lz' = lz /\ guest' = guest BY <1>7 DEF NoFrame
  <2>2. CASE Call("fin_wait")
    BY <2>1, <2>2, CallOrder DEF Returns, Rendering
  <2>3. CASE at' = "top" /\ rv' = rv BY <2>1, <2>3, Quiet DEF Rendering
  <2> QED BY <1>7, <2>2, <2>3 DEF NoFrame
<1>8. CASE WatchdogNmi BY <1>1, <1>8, Quiet DEF WatchdogNmi, Rendering, QueueType
<1>9. CASE WatchdogQuiet BY <1>9, Quiet DEF WatchdogQuiet, Rendering
<1> QED BY <1>2, <1>3, <1>4, <1>5, <1>6, <1>7, <1>8, <1>9 DEF MainLoop

LEMMA OrderAlways == Spec => []OrderInv
<1>1. OrderInv /\ [Next]_vars => OrderInv'
  <2> SUFFICES ASSUME OrderInv, [Next]_vars PROVE OrderInv' OBVIOUS
  <2>1. CASE RenderVideo
    BY <2>1, DoneOrder, TimeoutOrder, SubmitOrder, FlagsOrder, StoreOrder, NoteOrder DEF RenderVideo
  <2>2. CASE UNCHANGED vars
    BY <2>2 DEF vars, OrderInv, Types, LzType, RvType, QueueType, Room, ListInv, WaitInv,
       ShownInOrder, UnderWay
  <2> QED BY <2>1, <2>2, RunOrder, LoopOrder, VblankOrder DEF Next, Host
<1> QED BY InitOrder, <1>1, PTL DEF Spec

(* PPU writes reach the screen in the order the guest made them, none lost  *)
(* and none twice, for every guest program, flush threshold and batch, and  *)
(* wherever the vertical blank comes between the steps of render_video      *)
(* (nes.c:917-998).                                                         *)
THEOREM OrderKept == Spec => []ShownInOrder
<1>1. OrderInv => ShownInOrder BY DEF OrderInv
<1> QED BY OrderAlways, <1>1, PTL
-----------------------------------------------------------------------------
(* The handler on the stack.                                                *)
(*                                                                          *)
(* NmiBracketed is not inductive, and it needs guests that return from what *)
(* they have entered.  For those, GuestInv says what lies on the stack;     *)
(* HandlerInv, that a handler on it is the one that nmi_active and          *)
(* nmi_sp_guard stand for, and that none is delivered meanwhile; CallsInv,  *)
(* that a native call is over before the handler below it is; ReturnedInv,  *)
(* where the host may be when the handler has just returned.                *)

GuestsNested == \A p \in Programs : Len(p.code) \in Nat /\ \E top : WellNested(p, top)
NoReturnInTurn == at = "turn" => Here # "rti"

Frames(top) == [kind : {"call", "nmi"}, pc : DOMAIN top, n : BOOLEAN]
KindAt(stack, k) == IF k = 0 THEN "none" ELSE stack[k].kind
GuestInv(top, g) ==
  /\ {"pc", "stack", "flag", "n", "ctrl", "vblank", "dma", "queue", "written"} \subseteq DOMAIN g
  /\ g.n \in BOOLEAN /\ g.vblank \in BOOLEAN
  /\ g.stack \in Seq(Frames(top))
  /\ g.pc \in DOMAIN top /\ top[g.pc] = KindAt(g.stack, Len(g.stack))
  /\ \A k \in 1..Len(g.stack) : top[g.stack[k].pc] = KindAt(g.stack, k - 1)

(* What is pushed lies above what is there: depths of the parts of a stack. *)
LEMMA DepthOfPart ==
  ASSUME NEW top, NEW s \in Seq(Frames(top)), NEW k \in 0..Len(s)
  PROVE  /\ IsFiniteSet(NmiFrames(s) \cap (1..k))
         /\ Cardinality(NmiFrames(s) \cap (1..k)) \in Nat
         /\ SubSeq(s, 1, k) \in Seq(Frames(top)) /\ Len(SubSeq(s, 1, k)) = k
         /\ \A j \in 1..k : SubSeq(s, 1, k)[j] = s[j]
         /\ Depth(SubSeq(s, 1, k)) = 2 * k + Cardinality(NmiFrames(s) \cap (1..k))
<1>1. Len(s) \in Nat /\ k \in Nat OBVIOUS
<1>2. IsFiniteSet(1..k) BY <1>1, FS_Interval
<1>3. NmiFrames(s) \cap (1..k) \in SUBSET (1..k) OBVIOUS
<1>4. IsFiniteSet(NmiFrames(s) \cap (1..k)) BY <1>2, <1>3, FS_Subset
<1>5. /\ SubSeq(s, 1, k) \in Seq(Frames(top)) /\ Len(SubSeq(s, 1, k)) = k
      /\ \A j \in 1..k : SubSeq(s, 1, k)[j] = s[j]
  <2> HIDE DEF Frames
  <2> QED BY <1>1
<1>6. NmiFrames(SubSeq(s, 1, k)) = NmiFrames(s) \cap (1..k)
  BY <1>1, <1>5 DEF NmiFrames
<1> QED BY <1>4, <1>5, <1>6, FS_CardinalityType DEF Depth

LEMMA DepthGrows ==
  ASSUME NEW top, NEW s \in Seq(Frames(top)), NEW k \in 1..Len(s)
  PROVE  /\ Depth(SubSeq(s, 1, k - 1)) \in Nat /\ Depth(SubSeq(s, 1, k)) \in Nat
         /\ \A j \in 0..(k - 1) : Depth(SubSeq(s, 1, j)) \in Nat /\ Depth(SubSeq(s, 1, j)) < Depth(SubSeq(s, 1, k))
<1> DEFINE N(j) == NmiFrames(s) \cap (1..j)
<1>1. k \in Nat /\ Len(s) \in Nat /\ k - 1 \in 0..Len(s) /\ k \in 0..Len(s) OBVIOUS
<1>2. ASSUME NEW j \in 0..(k - 1)
      PROVE  Depth(SubSeq(s, 1, j)) \in Nat /\ Depth(SubSeq(s, 1, j)) < Depth(SubSeq(s, 1, k))
  <2>1. j \in 0..Len(s) /\ j \in Nat /\ j < k BY <1>1
  <2>2. /\ IsFiniteSet(N(j)) /\ Cardinality(N(j)) \in Nat
        /\ Depth(SubSeq(s, 1, j)) = 2 * j + Cardinality(N(j))
        /\ IsFiniteSet(N(k)) /\ Cardinality(N(k)) \in Nat
        /\ Depth(SubSeq(s, 1, k)) = 2 * k + Cardinality(N(k))
    BY <1>1, <2>1, DepthOfPart
  <2>3. N(j) \in SUBSET N(k) BY <2>1
  <2>4. Cardinality(N(j)) <= Cardinality(N(k)) BY <2>2, <2>3, FS_Subset
  <2> HIDE DEF N
  <2> QED BY <1>1, <2>1, <2>2, <2>4
<1>3. Depth(SubSeq(s, 1, k)) \in Nat
  <2>1. /\ Cardinality(N(k)) \in Nat /\ Depth(SubSeq(s, 1, k)) = 2 * k + Cardinality(N(k))
    BY <1>1, DepthOfPart
  <2> HIDE DEF N
  <2> QED BY <1>1, <2>1
<1> QED BY <1>1, <1>2, <1>3

LEMMA WholeStack ==
  ASSUME NEW top, NEW s \in Seq(Frames(top))
  PROVE  /\ SubSeq(s, 1, Len(s)) = s /\ Depth(s) \in Nat /\ IsFiniteSet(NmiFrames(s))
         /\ \A k \in 1..Len(s) : Depth(SubSeq(s, 1, k - 1)) < Depth(s) /\ Depth(SubSeq(s, 1, k)) <= Depth(s)
         /\ \A k \in 0..Len(s) : Depth(SubSeq(s, 1, k)) \in Nat
<1>1. SubSeq(s, 1, Len(s)) = s OBVIOUS
<1>2. Len(s) \in Nat /\ Len(s) \in 0..Len(s) OBVIOUS
<1>3. /\ IsFiniteSet(NmiFrames(s) \cap (1..Len(s)))
      /\ Cardinality(NmiFrames(s) \cap (1..Len(s))) \in Nat
      /\ Depth(SubSeq(s, 1, Len(s))) = 2 * Len(s) + Cardinality(NmiFrames(s) \cap (1..Len(s)))
  BY <1>2, DepthOfPart
<1>4. NmiFrames(s) \cap (1..Len(s)) = NmiFrames(s) BY DEF NmiFrames
<1>5. Depth(s) = 2 * Len(s) + Cardinality(NmiFrames(s)) BY DEF Depth
<1>6. Depth(s) \in Nat /\ IsFiniteSet(NmiFrames(s))
  <2> DEFINE c == Cardinality(NmiFrames(s))
  <2>1. c \in Nat /\ IsFiniteSet(NmiFrames(s)) BY ONLY <1>3, <1>4, Zenon
  <2>2. Depth(s) = 2 * Len(s) + c BY <1>5
  <2> HIDE DEF c
  <2> QED BY <1>2, <2>1, <2>2
<1>7. ASSUME NEW k \in 0..Len(s) PROVE Depth(SubSeq(s, 1, k)) \in Nat
  <2> DEFINE c == Cardinality(NmiFrames(s) \cap (1..k))
  <2>1. c \in Nat /\ Depth(SubSeq(s, 1, k)) = 2 * k + c BY DepthOfPart
  <2>2. k \in Nat BY <1>2
  <2> HIDE DEF c
  <2> QED BY <2>1, <2>2
<1>8. ASSUME NEW k \in 1..Len(s) PROVE Depth(SubSeq(s, 1, k - 1)) < Depth(s) /\ Depth(SubSeq(s, 1, k)) <= Depth(s)
  <2>1. Len(s) \in 1..Len(s) /\ k - 1 \in 0..(Len(s) - 1) BY <1>2
  <2>2. Depth(SubSeq(s, 1, k - 1)) < Depth(s)
    <3>1. Depth(SubSeq(s, 1, k - 1)) < Depth(SubSeq(s, 1, Len(s))) BY <2>1, DepthGrows
    <3> QED BY <1>1, <3>1
  <2>3. CASE k = Len(s)
    <3>1. Depth(SubSeq(s, 1, k)) = Depth(s) BY <1>1, <2>3
    <3> QED BY <1>6, <2>2, <3>1
  <2>4. CASE k # Len(s)
    <3>1. k \in 0..(Len(s) - 1) BY <1>2, <2>4
    <3>2. /\ Depth(SubSeq(s, 1, k)) < Depth(SubSeq(s, 1, Len(s))) /\ Depth(SubSeq(s, 1, k)) \in Nat
      BY <2>1, <3>1, DepthGrows
    <3>3. Depth(SubSeq(s, 1, k)) < Depth(s) BY <1>1, <3>2
    <3> DEFINE a == Depth(SubSeq(s, 1, k))
               b == Depth(s)
    <3>4. a \in Nat /\ b \in Nat /\ a < b BY <1>6, <3>2, <3>3
    <3> HIDE DEF a, b
    <3>5. a <= b BY <3>4
    <3> QED BY <2>2, <3>5 DEF a, b
  <2> QED BY <2>3, <2>4
<1> QED BY <1>1, <1>6, <1>7, <1>8

(* What is pushed or popped leaves the rest of the stack alone.             *)
LEMMA Pushed ==
  ASSUME NEW top, NEW s \in Seq(Frames(top)), NEW f \in Frames(top)
  PROVE  /\ Append(s, f) \in Seq(Frames(top)) /\ Len(Append(s, f)) = Len(s) + 1
         /\ Append(s, f)[Len(s) + 1] = f /\ \A k \in 1..Len(s) : Append(s, f)[k] = s[k]
         /\ \A k \in 0..Len(s) : SubSeq(Append(s, f), 1, k) = SubSeq(s, 1, k)
         /\ f.kind = "nmi" => NmiFrames(Append(s, f)) = NmiFrames(s) \cup {Len(s) + 1}
         /\ f.kind # "nmi" => NmiFrames(Append(s, f)) = NmiFrames(s)
         /\ Depth(Append(s, f)) > Depth(s)
<1> HIDE DEF Frames
<1>1. /\ Append(s, f) \in Seq(Frames(top)) /\ Len(Append(s, f)) = Len(s) + 1 /\ Len(s) \in Nat
      /\ Append(s, f)[Len(s) + 1] = f /\ \A k \in 1..Len(s) : Append(s, f)[k] = s[k]
  OBVIOUS
<1>2. \A k \in 0..Len(s) : SubSeq(Append(s, f), 1, k) = SubSeq(s, 1, k)
  BY <1>1
<1>3. /\ f.kind = "nmi" => NmiFrames(Append(s, f)) = NmiFrames(s) \cup {Len(s) + 1}
      /\ f.kind # "nmi" => NmiFrames(Append(s, f)) = NmiFrames(s)
  BY <1>1 DEF NmiFrames
<1>4. Depth(Append(s, f)) > Depth(s)
  <2>1. /\ SubSeq(Append(s, f), 1, Len(s)) = s
        /\ SubSeq(Append(s, f), 1, Len(Append(s, f))) = Append(s, f)
    BY <1>1, <1>2, WholeStack
  <2>2. Len(s) + 1 \in 1..Len(Append(s, f)) /\ Len(s) \in 0..((Len(s) + 1) - 1) BY <1>1
  <2>3. Depth(SubSeq(Append(s, f), 1, Len(s))) < Depth(SubSeq(Append(s, f), 1, Len(s) + 1))
        /\ Depth(SubSeq(Append(s, f), 1, Len(s))) \in Nat /\ Depth(SubSeq(Append(s, f), 1, Len(s) + 1)) \in Nat
    BY <1>1, <2>2, DepthGrows
  <2> QED BY <1>1, <2>1, <2>3
<1> QED BY <1>1, <1>2, <1>3, <1>4

LEMMA Popped ==
  ASSUME NEW top, NEW s \in Seq(Frames(top)), s # << >>
  PROVE  /\ Len(s) \in 1..Len(s) /\ s[Len(s)] \in Frames(top)
         /\ Pop(s) \in Seq(Frames(top)) /\ Len(Pop(s)) = Len(s) - 1
         /\ \A k \in 1..(Len(s) - 1) : Pop(s)[k] = s[k]
         /\ \A k \in 0..(Len(s) - 1) : SubSeq(Pop(s), 1, k) = SubSeq(s, 1, k)
         /\ NmiFrames(Pop(s)) = NmiFrames(s) \ {Len(s)}
<1> HIDE DEF Frames
<1>1. Len(s) \in Nat /\ Len(s) > 0 /\ Len(s) \in 1..Len(s) /\ s[Len(s)] \in Frames(top) OBVIOUS
<1>2. /\ Pop(s) \in Seq(Frames(top)) /\ Len(Pop(s)) = Len(s) - 1
      /\ \A k \in 1..(Len(s) - 1) : Pop(s)[k] = s[k]
  <2>1. Len(s) - 1 \in 0..Len(s) BY <1>1
  <2> QED BY <2>1, DepthOfPart DEF Pop
<1>3. \A k \in 0..(Len(s) - 1) : SubSeq(Pop(s), 1, k) = SubSeq(s, 1, k)
  <2> TAKE k \in 0..(Len(s) - 1)
  <2>1. k \in 0..Len(s) /\ k \in 0..Len(Pop(s)) /\ k \in Nat BY <1>1, <1>2
  <2>2. /\ SubSeq(Pop(s), 1, k) \in Seq(Frames(top)) /\ Len(SubSeq(Pop(s), 1, k)) = k
        /\ \A j \in 1..k : SubSeq(Pop(s), 1, k)[j] = Pop(s)[j]
        /\ SubSeq(s, 1, k) \in Seq(Frames(top)) /\ Len(SubSeq(s, 1, k)) = k
        /\ \A j \in 1..k : SubSeq(s, 1, k)[j] = s[j]
    BY <1>2, <2>1, DepthOfPart
  <2>3. \A j \in 1..k : SubSeq(Pop(s), 1, k)[j] = SubSeq(s, 1, k)[j] BY <1>1, <1>2, <2>1, <2>2
  <2> QED BY <2>2, <2>3, SeqEqual
<1>4. NmiFrames(Pop(s)) = NmiFrames(s) \ {Len(s)}
  BY <1>1, <1>2 DEF NmiFrames
<1> QED BY <1>1, <1>2, <1>3, <1>4

(* What the guest pushes goes back to where it came from.                   *)
LEMMA FrameOf ==
  ASSUME NEW top, GuestInv(top, guest), NEW kind \in {"call", "nmi"},
         kind = "call" => guest.pc + 1 \in DOMAIN top /\ top[guest.pc + 1] = top[guest.pc],
         DOMAIN top = 1..Len(prog.code), Len(prog.code) \in Nat
  PROVE  /\ Frame(kind, guest) \in Frames(top) /\ Frame(kind, guest).kind = kind
         /\ top[Frame(kind, guest).pc] = KindAt(guest.stack, Len(guest.stack))
<1>1. guest.pc \in DOMAIN top /\ guest.n \in BOOLEAN /\ top[guest.pc] = KindAt(guest.stack, Len(guest.stack))
  BY DEF GuestInv
<1>2. CASE kind = "call" BY <1>1, <1>2 DEF Frame, Frames
<1>3. CASE kind = "nmi"
  <2>1. guest.pc + 0 = guest.pc BY <1>1
  <2> QED BY <1>1, <1>3, <2>1 DEF Frame, Frames
<1> QED BY <1>2, <1>3

(* A state of the guest with one more entry on its stack. *)
LEMMA EnterNested ==
  ASSUME NEW top, GuestInv(top, guest), NEW f \in Frames(top), NEW g, NEW pc \in DOMAIN top,
         g = [guest EXCEPT !.pc = pc, !.stack = Append(guest.stack, f)],
         top[pc] = f.kind, top[f.pc] = KindAt(guest.stack, Len(guest.stack))
  PROVE  GuestInv(top, g) /\ g.stack = Append(guest.stack, f)
<1> DEFINE s == guest.stack
           t == Append(s, f)
<1>1. s \in Seq(Frames(top)) /\ Len(s) \in Nat BY DEF GuestInv
<1>2. /\ t \in Seq(Frames(top)) /\ Len(t) = Len(s) + 1
      /\ t[Len(s) + 1] = f /\ \A k \in 1..Len(s) : t[k] = s[k]
  BY <1>1, Pushed
<1>3. g.pc = pc /\ g.stack = t /\ DOMAIN g = DOMAIN guest /\ g.n = guest.n /\ g.vblank = guest.vblank
  BY DEF GuestInv
<1> HIDE DEF s, t
<1>4. KindAt(t, Len(t)) = f.kind BY <1>1, <1>2 DEF KindAt
<1>5. ASSUME NEW k \in 1..Len(t) PROVE top[t[k].pc] = KindAt(t, k - 1)
  <2>1. CASE k = Len(s) + 1
    <3>1. k - 1 = Len(s) /\ t[k] = f BY <1>1, <1>2, <2>1
    <3>2. KindAt(t, Len(s)) = KindAt(s, Len(s)) BY <1>1, <1>2 DEF KindAt
    <3> QED BY <3>1, <3>2 DEF s
  <2>2. CASE k \in 1..Len(s)
    <3>1. t[k] = s[k] /\ KindAt(t, k - 1) = KindAt(s, k - 1) BY <1>1, <1>2, <2>2 DEF KindAt
    <3>2. top[s[k].pc] = KindAt(s, k - 1) BY <2>2 DEF GuestInv, s
    <3> QED BY <3>1, <3>2
  <2> QED BY <1>1, <1>2, <2>1, <2>2
<1>6. /\ DOMAIN g = DOMAIN guest /\ g.n \in BOOLEAN /\ g.vblank \in BOOLEAN
      /\ {"pc", "stack", "flag", "n", "ctrl", "vblank", "dma", "queue", "written"} \subseteq DOMAIN g
  BY <1>3 DEF GuestInv
<1> QED BY <1>2, <1>3, <1>4, <1>5, <1>6 DEF GuestInv, t, s

(* One with the topmost entry gone, at the address that it holds. *)
LEMMA LeaveNested ==
  ASSUME NEW top, GuestInv(top, guest), guest.stack # << >>, NEW g, NEW n \in BOOLEAN,
         g = [guest EXCEPT !.pc = guest.stack[Len(guest.stack)].pc, !.n = n, !.stack = Pop(guest.stack)]
  PROVE  GuestInv(top, g) /\ g.stack = Pop(guest.stack)
<1> DEFINE s == guest.stack
           t == Pop(s)
<1>1. s \in Seq(Frames(top)) /\ Len(s) \in Nat /\ s # << >> BY DEF GuestInv
<1>2. /\ t \in Seq(Frames(top)) /\ Len(t) = Len(s) - 1 /\ Len(s) \in 1..Len(s)
      /\ s[Len(s)] \in Frames(top) /\ \A k \in 1..(Len(s) - 1) : t[k] = s[k]
  BY <1>1, Popped
<1>3. /\ g.pc = s[Len(s)].pc /\ g.stack = t /\ DOMAIN g = DOMAIN guest /\ g.n = n
      /\ g.vblank = guest.vblank
  BY DEF GuestInv
<1>4. s[Len(s)].pc \in DOMAIN top BY <1>2 DEF Frames
<1>5. \A k \in 1..Len(s) : top[s[k].pc] = KindAt(s, k - 1) BY DEF GuestInv
<1> HIDE DEF s, t
<1>6. \A k \in 0..(Len(s) - 1) : KindAt(t, k) = KindAt(s, k) BY <1>1, <1>2 DEF KindAt
<1>7. top[g.pc] = KindAt(t, Len(t))
  <2>1. Len(s) - 1 \in 0..(Len(s) - 1) BY <1>1, <1>2
  <2> QED BY <1>2, <1>3, <1>5, <1>6, <2>1
<1>8. \A k \in 1..Len(t) : top[t[k].pc] = KindAt(t, k - 1)
  <2> TAKE k \in 1..Len(t)
  <2>1. k \in 1..Len(s) /\ k \in 1..(Len(s) - 1) /\ k - 1 \in 0..(Len(s) - 1) BY <1>1, <1>2
  <2> QED BY <1>2, <1>5, <1>6, <2>1
<1>9. /\ g.n \in BOOLEAN /\ g.vblank \in BOOLEAN
      /\ {"pc", "stack", "flag", "n", "ctrl", "vblank", "dma", "queue", "written"} \subseteq DOMAIN g
  BY <1>3 DEF GuestInv
<1> QED BY <1>2, <1>3, <1>4, <1>7, <1>8, <1>9 DEF GuestInv, t, s

(* One with the same stack, further on in what it has entered. *)
LEMMA StayNested ==
  ASSUME NEW top, GuestInv(top, guest), NEW g, DOMAIN g = DOMAIN guest,
         g.stack = guest.stack, g.n \in BOOLEAN, g.vblank \in BOOLEAN,
         g.pc \in DOMAIN top, top[g.pc] = top[guest.pc]
  PROVE  GuestInv(top, g)
BY DEF GuestInv

(* What WellNested says of the instruction that comes next.                 *)
LEMMA NestedHere ==
  ASSUME NEW top, WellNested(prog, top), GuestInv(top, guest)
  PROVE  /\ DOMAIN top = 1..Len(prog.code) /\ guest.pc \in DOMAIN top
         /\ prog.handler \in DOMAIN top /\ top[prog.handler] = "nmi"
         /\ Here = "rts" => top[guest.pc] = "call"
         /\ Here = "rti" => top[guest.pc] = "nmi"
         /\ Here \in {"jsr", "njsr"} => Ins(guest.pc).to \in DOMAIN top /\ top[Ins(guest.pc).to] = "call"
         /\ \A q \in Follows(Ins(guest.pc), guest.pc) : q \in DOMAIN top /\ top[q] = top[guest.pc]
BY DEF WellNested, GuestInv, Here, Ins

(* A return finds the entry that it takes off the stack.                    *)
LEMMA TopOfStack ==
  ASSUME NEW top, GuestInv(top, guest), top[guest.pc] \in {"call", "nmi"}
  PROVE  /\ guest.stack # << >> /\ guest.stack \in Seq(Frames(top))
         /\ guest.stack[Len(guest.stack)].kind = top[guest.pc]
         /\ guest.stack[Len(guest.stack)] \in Frames(top)
<1>1. guest.stack \in Seq(Frames(top)) /\ top[guest.pc] = KindAt(guest.stack, Len(guest.stack))
  BY DEF GuestInv
<1>2. Len(guest.stack) # 0 BY <1>1 DEF KindAt
<1>3. guest.stack # << >> BY <1>2
<1>4. guest.stack[Len(guest.stack)] \in Frames(top) BY <1>1, <1>3, Popped
<1>5. guest.stack[Len(guest.stack)].kind = top[guest.pc] BY <1>1, <1>2 DEF KindAt
<1> QED BY <1>1, <1>3, <1>4, <1>5

(* One instruction of a guest that nests: what it does to the stack, and    *)
(* that the guest goes on to nest (fake6502.c:235-253, 1064-1069).          *)
LEMMA StepNested ==
  ASSUME NEW top, WellNested(prog, top), GuestInv(top, guest), Len(prog.code) \in Nat
  PROVE  /\ GuestInv(top, Step(guest))
         /\ Here \in {"jsr", "njsr"} =>
              \E f \in Frames(top) : f.kind = "call" /\ Step(guest).stack = Append(guest.stack, f)
         /\ Here \in {"rts", "rti"} =>
              /\ guest.stack # << >> /\ Step(guest).stack = Pop(guest.stack)
              /\ guest.stack[Len(guest.stack)].kind = IF Here = "rts" THEN "call" ELSE "nmi"
         /\ Here \notin {"jsr", "njsr", "rts", "rti"} => Step(guest).stack = guest.stack
<1> DEFINE i == Ins(guest.pc)
           t == guest.stack[Len(guest.stack)]
           next == [guest EXCEPT !.pc = guest.pc + 1]
<1>1. /\ DOMAIN top = 1..Len(prog.code) /\ guest.pc \in DOMAIN top
      /\ Here = "rts" => top[guest.pc] = "call"
      /\ Here = "rti" => top[guest.pc] = "nmi"
      /\ Here \in {"jsr", "njsr"} => i.to \in DOMAIN top /\ top[i.to] = "call"
      /\ \A q \in Follows(i, guest.pc) : q \in DOMAIN top /\ top[q] = top[guest.pc]
  BY NestedHere
<1>2. Here = i.op BY DEF Here
<1>3. /\ {"pc", "stack", "flag", "n", "ctrl", "vblank", "dma", "queue", "written"} \subseteq DOMAIN guest
      /\ guest.n \in BOOLEAN /\ guest.vblank \in BOOLEAN
  BY DEF GuestInv
<1>4. /\ DOMAIN next = DOMAIN guest /\ next.stack = guest.stack /\ next.n = guest.n
      /\ next.vblank = guest.vblank /\ next.pc = guest.pc + 1
  BY <1>3
<1>5. CASE i.op \in {"jsr", "njsr"}
  <2> DEFINE f == Frame("call", guest)
  <2>1. guest.pc + 1 \in DOMAIN top /\ top[guest.pc + 1] = top[guest.pc] BY <1>1, <1>5 DEF Follows
  <2>2. f \in Frames(top) /\ f.kind = "call" /\ top[f.pc] = KindAt(guest.stack, Len(guest.stack))
    BY <1>1, <2>1, FrameOf
  <2>3. Step(guest) = [guest EXCEPT !.pc = i.to, !.stack = Append(guest.stack, f)] BY <1>5 DEF Step
  <2>4. i.to \in DOMAIN top /\ top[i.to] = f.kind BY <1>1, <1>2, <1>5, <2>2
  <2> HIDE DEF f, i
  <2>5. GuestInv(top, Step(guest)) /\ Step(guest).stack = Append(guest.stack, f)
    BY <2>2, <2>3, <2>4, EnterNested
  <2> QED BY <1>2, <1>5, <2>2, <2>5
<1>6. CASE i.op \in {"rts", "rti"}
  <2> DEFINE n == IF i.op = "rti" THEN t.n ELSE guest.n
  <2>1. /\ guest.stack # << >> /\ guest.stack \in Seq(Frames(top))
        /\ t.kind = (IF Here = "rts" THEN "call" ELSE "nmi") /\ t \in Frames(top)
    BY <1>1, <1>2, <1>6, TopOfStack
  <2>2. n \in BOOLEAN BY <1>3, <2>1 DEF Frames
  <2>3. Step(guest) = [guest EXCEPT !.pc = t.pc, !.n = n, !.stack = Pop(guest.stack)]
    BY <1>3, <1>6 DEF Step
  <2> HIDE DEF n, i
  <2>4. GuestInv(top, Step(guest)) /\ Step(guest).stack = Pop(guest.stack)
    BY <2>1, <2>2, <2>3, LeaveNested
  <2> QED BY <1>2, <1>6, <2>1, <2>4
<1>7. CASE i.op \notin {"jsr", "njsr", "rts", "rti"}
  <2> SUFFICES /\ DOMAIN Step(guest) = DOMAIN guest /\ Step(guest).stack = guest.stack
               /\ Step(guest).n \in BOOLEAN /\ Step(guest).vblank \in BOOLEAN
               /\ Step(guest).pc \in Follows(i, guest.pc)
    BY <1>1, <1>2, <1>7, StayNested
  <2>1. CASE i.op = "jmp" BY <1>3, <2>1 DEF Step, Follows
  <2>2. CASE i.op \in {"set", "clear"} BY <1>3, <1>4, <2>2 DEF Step, Follows
  <2>3. CASE i.op \in {"idle", "loop"} BY <1>3, <1>4, <2>3 DEF Step, Follows
  <2>4. CASE i.op \in {"status", "ppu", "ctrl", "dma"} BY <1>3, <1>4, <2>4 DEF Step, Follows
  <2>5. CASE i.op = "bpl" BY <1>3, <1>4, <2>5 DEF Step, Follows
  <2>6. CASE i.op \notin {"jmp", "set", "clear", "idle", "loop", "status", "ppu", "ctrl", "dma", "bpl"}
    BY <1>3, <1>4, <1>7, <2>6 DEF Step, Follows
  <2> QED BY <2>1, <2>2, <2>3, <2>4, <2>5, <2>6
<1> QED BY <1>2, <1>5, <1>6, <1>7
-----------------------------------------------------------------------------
(* What the invariants below need to know of a stack that has changed.      *)
Below(t, s) ==
  \A k \in NmiFrames(t) : SubSeq(t, 1, k - 1) = SubSeq(s, 1, k - 1) /\ SubSeq(t, 1, k) = SubSeq(s, 1, k)

LEMMA PushedBelow ==
  ASSUME NEW top, NEW s \in Seq(Frames(top)), NEW f \in Frames(top), f.kind = "call"
  PROVE  LET t == Append(s, f)
         IN  NmiFrames(t) = NmiFrames(s) /\ Below(t, s) /\ Depth(t) > Depth(s)
<1> DEFINE t == Append(s, f)
<1>1. /\ \A k \in 0..Len(s) : SubSeq(t, 1, k) = SubSeq(s, 1, k)
      /\ NmiFrames(t) = NmiFrames(s) /\ Depth(t) > Depth(s)
  BY Pushed
<1>3. Len(s) \in Nat /\ \A k \in NmiFrames(s) : k \in 0..Len(s) /\ k - 1 \in 0..Len(s) BY DEF NmiFrames
<1> HIDE DEF t
<1>4. Below(t, s) BY <1>1, <1>3 DEF Below
<1> QED BY <1>1, <1>4 DEF t

LEMMA PoppedBelow ==
  ASSUME NEW top, NEW s \in Seq(Frames(top)), s # << >>
  PROVE  LET t == Pop(s)
         IN  /\ NmiFrames(t) = NmiFrames(s) \ {Len(s)} /\ Below(t, s)
             /\ s[Len(s)].kind = "nmi" => Len(s) \in NmiFrames(s)
             /\ s[Len(s)].kind = "call" => NmiFrames(t) = NmiFrames(s)
             /\ t = SubSeq(s, 1, Len(s) - 1)
<1> DEFINE t == Pop(s)
<1>1. /\ \A k \in 0..(Len(s) - 1) : SubSeq(t, 1, k) = SubSeq(s, 1, k)
      /\ NmiFrames(t) = NmiFrames(s) \ {Len(s)} /\ Len(t) = Len(s) - 1 /\ Len(s) \in 1..Len(s)
  BY Popped
<1>2. t = SubSeq(s, 1, Len(s) - 1) BY DEF Pop
<1> HIDE DEF t
<1>3. \A k \in NmiFrames(t) : k \in 0..(Len(s) - 1) /\ k - 1 \in 0..(Len(s) - 1)
  BY <1>1 DEF NmiFrames
<1>4. Below(t, s) BY <1>1, <1>3 DEF Below
<1>5. /\ s[Len(s)].kind = "nmi" => Len(s) \in NmiFrames(s)
      /\ s[Len(s)].kind = "call" => Len(s) \notin NmiFrames(s)
  BY <1>1 DEF NmiFrames
<1> QED BY <1>1, <1>2, <1>4, <1>5 DEF t

(* No instruction but RTI touches the handlers on the stack, and only the   *)
(* returns make it shorter.                                                 *)
LEMMA StepBelow ==
  ASSUME NEW top, WellNested(prog, top), GuestInv(top, guest), Len(prog.code) \in Nat
  PROVE  /\ Below(Step(guest).stack, guest.stack) /\ NmiFrames(Step(guest).stack) \subseteq Handlers
         /\ Here # "rti" => NmiFrames(Step(guest).stack) = Handlers
         /\ Here = "rti" =>
              /\ Len(guest.stack) \in Handlers
              /\ NmiFrames(Step(guest).stack) = Handlers \ {Len(guest.stack)}
              /\ Step(guest).stack = SubSeq(guest.stack, 1, Len(guest.stack) - 1)
         /\ Here = "njsr" => Depth(Step(guest).stack) > Depth(guest.stack)
         /\ Here \notin {"rts", "rti"} => Depth(Step(guest).stack) >= Depth(guest.stack)
<1> DEFINE s == guest.stack
           t == Step(guest).stack
<1>1. s \in Seq(Frames(top)) /\ t \in Seq(Frames(top)) BY StepNested DEF GuestInv
<1>2. Depth(s) \in Nat /\ Depth(t) \in Nat BY <1>1, WholeStack
<1>3. Handlers = NmiFrames(s) BY DEF Handlers
<1>4. CASE Here \in {"jsr", "njsr"}
  <2>1. PICK f \in Frames(top) : f.kind = "call" /\ t = Append(s, f) BY <1>4, StepNested
  <2> HIDE DEF s, t
  <2>2. NmiFrames(t) = NmiFrames(s) /\ Below(t, s) /\ Depth(t) > Depth(s) BY <1>1, <2>1, PushedBelow
  <2> QED BY <1>2, <1>3, <1>4, <2>2 DEF s, t
<1>5. CASE Here \in {"rts", "rti"}
  <2>1. s # << >> /\ t = Pop(s) /\ s[Len(s)].kind = (IF Here = "rts" THEN "call" ELSE "nmi")
    BY <1>5, StepNested
  <2> HIDE DEF s, t
  <2>2. /\ NmiFrames(t) = NmiFrames(s) \ {Len(s)} /\ Below(t, s)
        /\ s[Len(s)].kind = "nmi" => Len(s) \in NmiFrames(s)
        /\ s[Len(s)].kind = "call" => NmiFrames(t) = NmiFrames(s)
        /\ t = SubSeq(s, 1, Len(s) - 1)
    BY <1>1, <2>1, PoppedBelow
  <2> QED BY <1>3, <1>5, <2>1, <2>2 DEF s, t
<1>6. CASE Here \notin {"jsr", "njsr", "rts", "rti"}
  <2>1. t = s BY <1>6, StepNested
  <2> HIDE DEF s, t
  <2> QED BY <1>2, <1>3, <1>6, <2>1 DEF s, t, Below
<1> QED BY <1>4, <1>5, <1>6
-----------------------------------------------------------------------------
(* The host and the handler. *)

\* A native call is under way; the NMI is about to be delivered.
InCall == at \in {"njsr", "njsr_checks"} \/ (at \in Rendering \ {"fin_wait"} /\ rv.ret = "njsr_checks")
Delivers == at = "nmi" \/ (at \in Rendering \ {"fin_wait"} /\ rv.ret = "nmi")

HostType ==
  /\ {"last", "active", "guard", "stuck", "yield"} \subseteq DOMAIN emu
  /\ {"nmi", "count", "anchor", "hits", "prev", "steps", "calls"} \subseteq DOMAIN run /\ run.calls \in Seq(Nat)
HandlerInv ==
  /\ \A k \in Handlers : emu.active /\ Depth(SubSeq(guest.stack, 1, k - 1)) = emu.guard
  /\ Delivers => ~emu.active
CallsInv ==
  /\ InCall <=> run.calls # << >>
  /\ \A j \in 1..Len(run.calls), k \in Handlers : Depth(SubSeq(guest.stack, 1, k)) <= run.calls[j]
  /\ at = "njsr" => Depth(guest.stack) > run.calls[Len(run.calls)]
Nests(top) == prog \in Programs /\ Len(prog.code) \in Nat /\ WellNested(prog, top)
HostInv(top) == Nests(top) /\ GuestInv(top, guest) /\ HostType /\ HandlerInv /\ CallsInv
ReturnedInv == emu.active /\ Handlers = {} => at \in {"checks", "after"} /\ Depth(guest.stack) = emu.guard

(* A step that changes neither the stack nor what is remembered of it.      *)
LEMMA SameStack ==
  ASSUME NEW top, HostInv(top), prog' = prog, GuestInv(top, guest'), guest'.stack = guest.stack,
         emu'.active = emu.active, emu'.guard = emu.guard, HostType', run'.calls = run.calls,
         InCall' <=> InCall, Delivers' => Delivers \/ ~emu.active, at' = "njsr" => at = "njsr"
  PROVE  HostInv(top)'
<1>1. Handlers' = Handlers BY DEF Handlers
<1>2. Nests(top)' /\ GuestInv(top, guest)' BY DEF HostInv, Nests, WellNested, GuestInv
<1>3. HandlerInv' BY <1>1 DEF HostInv, HandlerInv
<1>4. CallsInv' BY <1>1 DEF HostInv, CallsInv
<1> QED BY <1>2, <1>3, <1>4 DEF HostInv

(* An instruction: only RTI takes a handler off the stack.                  *)
LEMMA SteppedStack ==
  ASSUME NEW top, HostInv(top), prog' = prog, guest' = Step(guest), emu' = emu, run'.calls = run.calls,
         HostType', InCall' <=> InCall, Delivers' => Delivers \/ ~emu.active,
         at' = "njsr" => at = "njsr" /\ Here \notin {"rts", "rti"}
  PROVE  HostInv(top)' /\ (Here # "rti" => Handlers' = Handlers)
<1>1. /\ Below(guest'.stack, guest.stack) /\ NmiFrames(guest'.stack) \subseteq Handlers
      /\ Here # "rti" => NmiFrames(guest'.stack) = Handlers
      /\ Here \notin {"rts", "rti"} => Depth(guest'.stack) >= Depth(guest.stack)
  BY StepBelow DEF HostInv, Nests
<1>2. Handlers' = NmiFrames(guest'.stack) BY DEF Handlers
<1>3. Nests(top)' BY DEF HostInv, Nests, WellNested
<1>4. GuestInv(top, guest') BY StepNested DEF HostInv, Nests
<1>5. HandlerInv'
  <2>1. \A k \in Handlers' : emu'.active /\ Depth(SubSeq(guest'.stack, 1, k - 1)) = emu'.guard
    BY <1>1, <1>2 DEF HostInv, HandlerInv, Below
  <2> QED BY <2>1 DEF HostInv, HandlerInv
<1>6. CallsInv'
  <2>1. \A j \in 1..Len(run'.calls), k \in Handlers' : Depth(SubSeq(guest'.stack, 1, k)) <= run'.calls[j]
    BY <1>1, <1>2 DEF HostInv, CallsInv, Below
  <2>2. at' = "njsr" => Depth(guest'.stack) > run'.calls[Len(run'.calls)]
    <3> SUFFICES ASSUME at' = "njsr" PROVE Depth(guest'.stack) > run.calls[Len(run.calls)] OBVIOUS
    <3>1. Depth(guest'.stack) >= Depth(guest.stack) /\ Depth(guest.stack) > run.calls[Len(run.calls)]
      BY <1>1 DEF HostInv, CallsInv
    <3>2. run.calls \in Seq(Nat) /\ run.calls # << >> BY DEF HostInv, HostType, CallsInv, InCall
    <3>3. run.calls[Len(run.calls)] \in Nat BY <3>2
    <3>4. Depth(guest'.stack) \in Nat /\ Depth(guest.stack) \in Nat
      BY <1>4, WholeStack DEF HostInv, GuestInv
    <3> QED BY <3>1, <3>3, <3>4
  <2>3. InCall' <=> run'.calls # << >> BY DEF HostInv, CallsInv
  <2> QED BY <2>1, <2>2, <2>3 DEF CallsInv
<1>7. GuestInv(top, guest)' BY <1>4 DEF GuestInv
<1> QED BY <1>1, <1>2, <1>3, <1>5, <1>6, <1>7 DEF HostInv

(* The handler goes on the stack while none is there: its depth is noted.   *)
LEMMA EnteredStack ==
  ASSUME NEW top, HostInv(top), prog' = prog,
         guest' = [guest EXCEPT !.stack = Append(guest.stack, Frame("nmi", guest)), !.pc = prog.handler],
         run'.calls = run.calls, HostType',
         emu'.active = TRUE, emu'.guard = Depth(guest.stack), ~emu.active,
         ~InCall, ~InCall', ~Delivers'
  PROVE  HostInv(top)' /\ Handlers' # {}
<1> DEFINE s == guest.stack
           f == Frame("nmi", guest)
           t == guest'.stack
<1>1. /\ DOMAIN top = 1..Len(prog.code) /\ Len(prog.code) \in Nat
      /\ prog.handler \in DOMAIN top /\ top[prog.handler] = "nmi"
  BY NestedHere DEF HostInv, Nests
<1>2. GuestInv(top, guest) /\ s \in Seq(Frames(top)) /\ Len(s) \in Nat BY DEF HostInv, GuestInv
<1>3. f \in Frames(top) /\ f.kind = "nmi" /\ top[f.pc] = KindAt(s, Len(s)) BY <1>1, <1>2, FrameOf
<1>4. guest' = [guest EXCEPT !.pc = prog.handler, !.stack = Append(s, f)]
  OBVIOUS
<1>5. GuestInv(top, guest') /\ t = Append(s, f)
  <2> DEFINE g == guest'
             pc == prog.handler
  <2>1. pc \in DOMAIN top /\ top[pc] = f.kind BY <1>1, <1>3
  <2>2. g = [guest EXCEPT !.pc = pc, !.stack = Append(guest.stack, f)] BY <1>4
  <2> HIDE DEF f, g, pc
  <2>3. GuestInv(top, g) /\ g.stack = Append(guest.stack, f) BY <1>2, <1>3, <2>1, <2>2, EnterNested
  <2> QED BY <2>3 DEF g
<1>6. Handlers = {} BY DEF HostInv, HandlerInv
<1> HIDE DEF f
<1>7. /\ NmiFrames(t) = NmiFrames(s) \cup {Len(s) + 1}
      /\ \A k \in 0..Len(s) : SubSeq(t, 1, k) = SubSeq(s, 1, k)
  BY <1>2, <1>3, <1>5, Pushed
<1>8. Handlers' = {Len(s) + 1}
  BY <1>6, <1>7 DEF Handlers
<1>9. Depth(SubSeq(t, 1, (Len(s) + 1) - 1)) = Depth(s)
  <2>1. (Len(s) + 1) - 1 = Len(s) /\ Len(s) \in 0..Len(s) BY <1>2
  <2>2. SubSeq(t, 1, Len(s)) = SubSeq(s, 1, Len(s)) BY <1>7, <2>1
  <2>3. SubSeq(s, 1, Len(s)) = s BY <1>2, WholeStack
  <2> HIDE DEF s, t
  <2> QED BY <2>1, <2>2, <2>3
<1>10. HandlerInv' BY <1>8, <1>9 DEF HandlerInv
<1>11. CallsInv'
  <2>1. run'.calls = << >> BY DEF HostInv, CallsInv
  <2> QED BY <2>1 DEF CallsInv, InCall
<1>12. Nests(top)' /\ GuestInv(top, guest)' BY <1>5 DEF HostInv, Nests, WellNested, GuestInv
<1> QED BY <1>8, <1>10, <1>11, <1>12 DEF HostInv

(* What is left of saved depths when the last is taken off. *)
LEMMA FrontOf ==
  ASSUME NEW c \in Seq(Nat), c # << >>
  PROVE  /\ SubSeq(c, 1, Len(c) - 1) \in Seq(Nat) /\ Len(SubSeq(c, 1, Len(c) - 1)) = Len(c) - 1
         /\ \A j \in 1..(Len(c) - 1) : SubSeq(c, 1, Len(c) - 1)[j] = c[j]
<1>1. Len(c) - 1 \in 0..Len(c) OBVIOUS
<1>2. ASSUME NEW k \in 0..Len(c)
      PROVE  /\ SubSeq(c, 1, k) \in Seq(Nat) /\ Len(SubSeq(c, 1, k)) = k
             /\ \A j \in 1..k : SubSeq(c, 1, k)[j] = c[j]
  OBVIOUS
<1> QED BY <1>1, <1>2

(* A linked block does not end in RTS. *)
LEMMA RtsNotLinked == ASSUME prog \in Programs, guest.pc \in prog.linked PROVE Here # "rts"
BY FrameAssumption DEF Here, Ins

(* A native call: the stack is above the depth that it waits for.           *)
LEMMA CalledStack == ASSUME NEW top, HostInv(top), NativeCall PROVE HostInv(top)'
<1> DEFINE c == run.calls
           d == Depth(guest.stack)
<1>1. /\ at \in {"dispatch", "njsr"} /\ at' = "njsr" /\ Here = "njsr" /\ prog' = prog /\ emu' = emu
      /\ guest' = Step(guest) /\ run' = [run EXCEPT !.calls = Append(c, d)]
  BY DEF NativeCall
<1>2. GuestInv(top, guest') /\ GuestInv(top, guest) BY <1>1, StepNested DEF HostInv, Nests
<1>3. /\ Below(guest'.stack, guest.stack) /\ NmiFrames(guest'.stack) = Handlers
      /\ Depth(guest'.stack) > d
  BY <1>1, StepBelow DEF HostInv, Nests
<1>4. /\ d \in Nat /\ guest.stack \in Seq(Frames(top))
      /\ \A k \in 1..Len(guest.stack) : Depth(SubSeq(guest.stack, 1, k)) <= d
  BY <1>2, WholeStack DEF GuestInv
<1>5. c \in Seq(Nat) /\ HostType BY DEF HostInv, HostType
<1>6. Handlers' = Handlers /\ Handlers \subseteq 1..Len(guest.stack) BY <1>3 DEF Handlers, NmiFrames
<1> HIDE DEF c, d
<1>7. /\ run'.calls = Append(c, d) /\ Append(c, d) \in Seq(Nat) /\ Len(Append(c, d)) = Len(c) + 1
      /\ Append(c, d)[Len(c) + 1] = d /\ Len(c) \in Nat /\ \A j \in 1..Len(c) : Append(c, d)[j] = c[j]
  BY <1>1, <1>4, <1>5 DEF HostType
<1>8. HostType' BY <1>1, <1>5, <1>7 DEF HostType
<1>9. HandlerInv'
  <2>1. \A k \in Handlers' : emu'.active /\ Depth(SubSeq(guest'.stack, 1, k - 1)) = emu'.guard
    BY <1>1, <1>3, <1>6 DEF HostInv, HandlerInv, Below
  <2> QED BY <1>1, <2>1 DEF HandlerInv, Delivers, Rendering
<1>10. CallsInv'
  <2>1. ASSUME NEW j \in 1..Len(run'.calls), NEW k \in Handlers'
        PROVE  Depth(SubSeq(guest'.stack, 1, k)) <= run'.calls[j]
    <3>1. Depth(SubSeq(guest'.stack, 1, k)) = Depth(SubSeq(guest.stack, 1, k)) /\ k \in Handlers
      BY <1>3, <1>6 DEF Below
    <3>2. CASE j = Len(c) + 1 BY <1>4, <1>6, <1>7, <3>1, <3>2
    <3>3. CASE j \in 1..Len(c) BY <1>7, <3>1, <3>3 DEF HostInv, CallsInv, c
    <3> QED BY <1>7, <3>2, <3>3
  <2>2. InCall' /\ run'.calls # << >>
    <3>1. InCall' BY <1>1 DEF InCall
    <3>2. Len(run'.calls) > 0 BY <1>7
    <3>3. run'.calls # << >> BY <3>2
    <3> QED BY <3>1, <3>3
  <2>3. Depth(guest'.stack) > run'.calls[Len(run'.calls)] BY <1>3, <1>7
  <2> QED BY <2>1, <2>2, <2>3 DEF CallsInv
<1>11. Nests(top)' /\ GuestInv(top, guest)' BY <1>1, <1>2 DEF HostInv, Nests, WellNested, GuestInv
<1> QED BY <1>8, <1>9, <1>10, <1>11 DEF HostInv

(* A native call goes on, is over, or is left for a vertical blank.         *)
LEMMA CheckedStack == ASSUME NEW top, HostInv(top), NativeChecks PROVE HostInv(top)'
<1> DEFINE c == run.calls
<1>1. /\ at = "njsr_checks" /\ guest' = guest /\ prog' = prog /\ emu' = emu /\ rv' = rv
      /\ \/ at' = "compile" /\ run' = [run EXCEPT !.calls = << >>]
         \/ at' = "njsr" /\ run' = run /\ Depth(guest.stack) > c[Len(c)]
         \/ /\ run' = [run EXCEPT !.calls = Pop(c)]
            /\ at' = IF Len(c) > 1 THEN "njsr_checks" ELSE "checks"
  BY DEF NativeChecks
<1>2. Handlers' = Handlers BY <1>1 DEF Handlers
<1>3. HandlerInv' BY <1>1, <1>2 DEF HostInv, HandlerInv, Delivers, Rendering
<1>4. Nests(top)' /\ GuestInv(top, guest)' BY <1>1 DEF HostInv, Nests, WellNested, GuestInv
<1>5. HostType /\ c \in Seq(Nat) /\ c # << >> /\ CallsInv BY <1>1 DEF HostInv, HostType, CallsInv, InCall
<1>6. CASE at' = "compile" /\ run' = [run EXCEPT !.calls = << >>]
  <2>1. HostType' /\ run'.calls = << >> BY <1>1, <1>5, <1>6 DEF HostType
  <2>2. CallsInv' BY <1>6, <2>1 DEF CallsInv, InCall, Rendering
  <2> QED BY <1>3, <1>4, <2>1, <2>2 DEF HostInv
<1>7. CASE at' = "njsr" /\ run' = run /\ Depth(guest.stack) > c[Len(c)]
  <2>1. HostType' BY <1>1, <1>5, <1>7 DEF HostType
  <2>2. CallsInv' BY <1>1, <1>2, <1>5, <1>7 DEF CallsInv, InCall
  <2> QED BY <1>3, <1>4, <2>1, <2>2 DEF HostInv
<1>8. CASE run' = [run EXCEPT !.calls = Pop(c)] /\ at' = (IF Len(c) > 1 THEN "njsr_checks" ELSE "checks")
  <2>1. /\ Pop(c) \in Seq(Nat) /\ Len(Pop(c)) = Len(c) - 1 /\ Len(c) \in Nat /\ Len(c) > 0
        /\ \A j \in 1..(Len(c) - 1) : Pop(c)[j] = c[j]
    <3> HIDE DEF c
    <3>1. Len(c) \in Nat /\ Len(c) > 0 BY <1>5
    <3> QED BY <1>5, <3>1, FrontOf DEF Pop
  <2>2. HostType' /\ run'.calls = Pop(c) BY <1>1, <1>5, <1>8, <2>1 DEF HostType
  <2>3. InCall' <=> Len(c) > 1 BY <1>8 DEF InCall, Rendering
  <2>4. CallsInv'
    <3>1. \A j \in 1..Len(run'.calls), k \in Handlers' : Depth(SubSeq(guest'.stack, 1, k)) <= run'.calls[j]
      <4> TAKE j \in 1..Len(run'.calls), k \in Handlers'
      <4>1. Depth(SubSeq(guest.stack, 1, k)) <= c[j] /\ j \in 1..(Len(c) - 1)
        <5>1. k \in Handlers /\ j \in 1..(Len(c) - 1) /\ j \in 1..Len(c) BY <1>2, <2>1, <2>2
        <5> QED BY <1>5, <5>1 DEF CallsInv
      <4> HIDE DEF c
      <4> QED BY <1>1, <2>1, <2>2, <4>1
    <3>2. run'.calls # << >> <=> Len(c) > 1
      <4> HIDE DEF c
      <4> QED BY <2>1, <2>2
    <3> QED BY <1>8, <2>3, <3>1, <3>2 DEF CallsInv
  <2> QED BY <1>3, <1>4, <2>2, <2>4 DEF HostInv
<1> QED BY <1>1, <1>6, <1>7, <1>8


(* An interpreted instruction, in a native call or not. *)
LEMMA InterpretedStack ==
  ASSUME NEW top, HostInv(top), RvType, NEW ret \in {"after", "checks", "njsr_checks", "turn"}, Interpret(ret),
         prog' = prog, emu' = emu, run'.calls = run.calls, HostType',
         at \notin Rendering, at \notin {"nmi", "njsr_checks"}, at = "njsr" <=> ret = "njsr_checks"
  PROVE  HostInv(top)' /\ (Here # "rti" => Handlers' = Handlers) /\ (Here = "rti" => at' = ret)
<1>1. guest' = Step(guest) BY DEF Interpret
<1>2. IF Here = "ppu" /\ Len(Step(guest).queue) >= FlushAt
      THEN at' = "rv_wait" /\ rv' = [rv EXCEPT !.ret = ret, !.spun = FALSE]
      ELSE at' = ret /\ rv' = rv
  BY DEF Interpret, Call
<1>3. /\ InCall' <=> ret = "njsr_checks"
      /\ ~Delivers' /\ at' # "njsr" /\ (Here = "rti" => at' = ret)
  BY <1>2 DEF InCall, Delivers, Rendering, RvType
<1>4. InCall <=> at = "njsr" BY DEF InCall
<1> QED BY <1>1, <1>3, <1>4, SteppedStack

(* The batch. *)
LEMMA RunHost == ASSUME NEW top, OrderInv, HostInv(top), Run6502 PROVE HostInv(top)'
<1>1. /\ RvType /\ HostType /\ GuestInv(top, guest) /\ GuestInv(top, Step(guest))
      /\ DOMAIN top = 1..Len(prog.code) /\ guest.pc \in DOMAIN top
      /\ \A q \in Follows(Ins(guest.pc), guest.pc) : q \in DOMAIN top /\ top[q] = top[guest.pc]
  BY NestedHere, StepNested DEF OrderInv, Types, HostInv, Nests
<1>2. CASE Checks
  <2>1. /\ at = "checks" /\ at' \in {"after", "dispatch"} /\ run'.calls = run.calls /\ HostType'
    BY <1>1, <1>2 DEF Checks, HostType
  <2> QED BY <1>1, <1>2, <2>1, SameStack DEF Checks, InCall, Delivers, Rendering
<1>3. CASE NeedsCompile
  <2>1. /\ at' = "compile" /\ run' = [run EXCEPT !.calls = << >>] /\ HostType' /\ run'.calls = << >>
        /\ guest' = guest /\ prog' = prog /\ emu' = emu
    BY <1>1, <1>3 DEF NeedsCompile, HostType
  <2>2. Handlers' = Handlers BY <2>1 DEF Handlers
  <2>3. HandlerInv' /\ CallsInv'
    BY <2>1, <2>2 DEF HostInv, HandlerInv, CallsInv, InCall, Delivers, Rendering
  <2>4. Nests(top)' /\ GuestInv(top, guest)' BY <2>1 DEF HostInv, Nests, WellNested, GuestInv
  <2> QED BY <2>1, <2>3, <2>4 DEF HostInv
<1>4. CASE Compile
  <2>1. at = "compile" /\ run' = run /\ emu' = emu /\ prog' = prog BY <1>4 DEF Compile
  <2>2. HostType' BY <1>1, <2>1 DEF HostType
  <2>3. CASE Interpret("after") BY <1>1, <2>1, <2>2, <2>3, InterpretedStack DEF Rendering
  <2>4. CASE at' = "after" /\ guest' = guest /\ rv' = rv
    BY <1>1, <2>1, <2>2, <2>4, SameStack DEF InCall, Delivers, Rendering
  <2> QED BY <1>4, <2>3, <2>4 DEF Compile
<1>5. CASE RunBlock
  <2>1. /\ guest' = Step(guest) /\ run' = run /\ emu' = emu /\ prog' = prog /\ rv' = rv
        /\ at \in {"dispatch", "njsr"} /\ Here # "rti"
        /\ at' = IF guest.pc \in prog.linked THEN at ELSE Checked
    BY <1>5 DEF RunBlock, Native, ToInterpret, LeftToInterpreter
  <2>2. HostType' BY <1>1, <2>1 DEF HostType
  <2>3. at' = "njsr" => at = "njsr" /\ Here \notin {"rts", "rti"}
    BY <2>1, RtsNotLinked DEF HostInv, Nests, Checked
  <2>4. InCall' <=> InCall BY <2>1 DEF InCall, Rendering, Checked
  <2>5. ~Delivers' BY <2>1 DEF Delivers, Rendering, Checked
  <2> QED BY <2>1, <2>2, <2>3, <2>4, <2>5, SteppedStack
<1>6. CASE LoopEnds
  <2>1. /\ guest' = [guest EXCEPT !.pc = guest.pc + 1] /\ run' = run /\ emu' = emu /\ prog' = prog /\ rv' = rv
        /\ at \in {"dispatch", "njsr"} /\ at' = Checked /\ Here \in Loops
    BY <1>6 DEF LoopEnds, Looping
  <2>2. HostType' BY <1>1, <2>1 DEF HostType
  <2>3. guest.pc + 1 \in DOMAIN top /\ top[guest.pc + 1] = top[guest.pc]
    BY <1>1, <2>1 DEF Follows, Here, Loops
  <2>4. GuestInv(top, guest') /\ guest'.stack = guest.stack
    <3>1. /\ DOMAIN guest' = DOMAIN guest /\ guest'.stack = guest.stack /\ guest'.n = guest.n
          /\ guest'.vblank = guest.vblank /\ guest'.pc = guest.pc + 1
          /\ guest.n \in BOOLEAN /\ guest.vblank \in BOOLEAN
      BY <1>1, <2>1 DEF GuestInv
    <3> QED BY <1>1, <2>3, <3>1, StayNested
  <2>5. (InCall' <=> InCall) /\ ~Delivers' /\ at' # "njsr"
    BY <2>1 DEF InCall, Delivers, Rendering, Checked
  <2> QED BY <2>1, <2>2, <2>4, <2>5, SameStack
<1>7. CASE LoopYields
  <2>1. /\ guest' = guest /\ run' = run /\ prog' = prog /\ rv' = rv /\ emu' = [emu EXCEPT !.yield = FALSE]
        /\ at \in {"dispatch", "njsr"} /\ at' \in {at, Checked}
    BY <1>7 DEF LoopYields, Looping
  <2>2. HostType' /\ emu'.active = emu.active /\ emu'.guard = emu.guard BY <1>1, <2>1 DEF HostType
  <2>3. (InCall' <=> InCall) /\ ~Delivers' /\ (at' = "njsr" => at = "njsr")
    BY <2>1 DEF InCall, Delivers, Rendering, Checked
  <2> QED BY <1>1, <2>1, <2>2, <2>3, SameStack
<1>8. CASE NativeCall BY <1>8, CalledStack DEF OrderInv, Types
<1>9. CASE NativeInterpret
  <2>1. at = "njsr" /\ run' = run /\ emu' = emu /\ prog' = prog BY <1>9 DEF NativeInterpret
  <2>2. HostType' BY <1>1, <2>1 DEF HostType
  <2> QED BY <1>1, <1>9, <2>1, <2>2, InterpretedStack DEF NativeInterpret, Rendering
<1>10. CASE NativeChecks BY <1>10, CheckedStack
<1>11. CASE InterpretOne
  <2>1. /\ at = "dispatch" /\ emu' = emu /\ prog' = prog /\ HostType' /\ run'.calls = run.calls
    BY <1>1, <1>11 DEF InterpretOne, HostType
  <2> QED BY <1>1, <1>11, <2>1, InterpretedStack DEF InterpretOne, Rendering
<1>12. CASE BeginTurn
  <2>1. HostType' /\ run'.calls = run.calls BY <1>1, <1>12 DEF BeginTurn, HostType
  <2> QED BY <1>1, <1>12, <2>1, SameStack DEF BeginTurn, InCall, Delivers, Rendering
<1>13. CASE Turn
  <2>1. /\ at = "turn" /\ emu' = emu /\ prog' = prog /\ HostType' /\ run'.calls = run.calls
    BY <1>1, <1>13 DEF Turn, HostType
  <2>2. CASE Interpret("turn") BY <1>1, <2>1, <2>2, InterpretedStack DEF Rendering
  <2>3. CASE at' = "after" /\ guest' = guest /\ rv' = rv
    BY <1>1, <2>1, <2>3, SameStack DEF InCall, Delivers, Rendering
  <2> QED BY <1>13, <2>2, <2>3 DEF Turn
<1> QED BY <1>2, <1>3, <1>4, <1>5, <1>6, <1>7, <1>8, <1>9, <1>10, <1>11, <1>12, <1>13 DEF Run6502

(* render_video: it is there to return to where it was called.              *)
LEMMA RenderHost == ASSUME NEW top, OrderInv, HostInv(top), RenderVideo PROVE HostInv(top)'
<1>1. /\ RvType /\ HostType /\ GuestInv(top, guest) /\ rv.ret \in Returns
      /\ {"pc", "stack", "flag", "n", "ctrl", "vblank", "dma", "queue", "written"} \subseteq DOMAIN guest
  BY DEF OrderInv, Types, RvType, HostInv, GuestInv
<1>2. at \in Rendering /\ prog' = prog /\ run' = run /\ emu' = emu
  BY DEF RenderVideo, RvDone, RvTimeout, RvSubmit, RvFlags, RvStore, RvNote, Rendering
<1>3. HostType' BY <1>1, <1>2 DEF HostType
<1>4. /\ DOMAIN guest' = DOMAIN guest /\ guest'.stack = guest.stack /\ guest'.pc = guest.pc
      /\ guest'.n = guest.n /\ guest'.vblank \in BOOLEAN
  <2>1. CASE guest' = guest BY <1>1, <2>1 DEF GuestInv
  <2>2. CASE guest' = [guest EXCEPT !.queue = << >>] BY <1>1, <2>2 DEF GuestInv
  <2>3. CASE guest' = [guest EXCEPT !.vblank = TRUE] BY <1>1, <2>3 DEF GuestInv
  <2> QED BY <2>1, <2>2, <2>3 DEF RenderVideo, RvDone, RvTimeout, RvSubmit, RvFlags, RvStore, RvNote
<1>5. GuestInv(top, guest') BY <1>1, <1>4, StayNested DEF GuestInv
<1>6. (InCall' <=> InCall) /\ (Delivers' => Delivers) /\ at' # "njsr"
  <2>1. CASE RvDone \/ RvTimeout
    <3>1. rv'.ret = rv.ret /\ at \in {"rv_wait", "fin_wait"} /\ at' = Waited
      BY <1>1, <2>1 DEF RvDone, RvTimeout, RvType
    <3> QED BY <3>1 DEF Waited, InCall, Delivers, Rendering
  <2>2. CASE RvSubmit \/ RvFlags \/ RvStore
    <3>1. /\ rv'.ret = rv.ret
          /\ at \in {"rv_submit", "rv_flags", "rv_store"} /\ at' \in {"rv_flags", "rv_store", "rv_note"}
      BY <1>1, <2>2 DEF RvSubmit, RvFlags, RvStore, RvType
    <3> QED BY <3>1 DEF InCall, Delivers, Rendering
  <2>3. CASE RvNote
    <3>1. at = "rv_note" /\ at' = rv.ret BY <2>3 DEF RvNote
    <3> QED BY <1>1, <3>1 DEF InCall, Delivers, Rendering, Returns
  <2> QED BY <2>1, <2>2, <2>3 DEF RenderVideo
<1> QED BY <1>2, <1>3, <1>4, <1>5, <1>6, SameStack

(* Where the main loop looks at what the guest may see of a vertical blank. *)
LEMMA FieldsNested ==
  ASSUME NEW top, GuestInv(top, guest),
         guest' = guest \/ guest' = [guest EXCEPT !.vblank = TRUE] \/ guest' = [guest EXCEPT !.dma = FALSE]
  PROVE  GuestInv(top, guest') /\ guest'.stack = guest.stack
<1>1. /\ DOMAIN guest' = DOMAIN guest /\ guest'.stack = guest.stack /\ guest'.pc = guest.pc
      /\ guest'.n = guest.n /\ guest'.vblank \in BOOLEAN /\ guest.n \in BOOLEAN
      /\ guest.pc \in DOMAIN top
  BY DEF GuestInv
<1> QED BY <1>1, StayNested

(* The two places where the main loop delivers the NMI. *)
LEMMA DeliveredHost ==
  ASSUME NEW top, OrderInv, HostInv(top), (Nmi /\ EnterNmi) \/ WatchdogNmi PROVE HostInv(top)' /\ Handlers' # {}
<1>1. HostType /\ HandlerInv BY DEF HostInv
<1>2. /\ at \in {"nmi", "wd_check"} /\ at' \in {"mark", "top"} /\ run' = run /\ prog' = prog /\ ~emu.active
      /\ HostType' /\ emu'.active = TRUE /\ emu'.guard = Depth(guest.stack)
      /\ guest' = [guest EXCEPT !.stack = Append(guest.stack, Frame("nmi", guest)), !.pc = prog.handler]
  <2>1. CASE Nmi /\ EnterNmi BY <1>1, <2>1 DEF Nmi, EnterNmi, HostType, HandlerInv, Delivers
  <2>2. CASE WatchdogNmi BY <1>1, <2>2 DEF WatchdogNmi, HostType
  <2> QED BY <2>1, <2>2
<1>3. ~InCall /\ ~InCall' /\ ~Delivers' BY <1>2 DEF InCall, Delivers, Rendering
<1> QED BY <1>2, <1>3, EnteredStack

(* The main loop delivers the NMI while no handler is on the stack.         *)
LEMMA LoopHost == ASSUME NEW top, OrderInv, HostInv(top), MainLoop PROVE HostInv(top)'
<1>1. RvType /\ HostType /\ GuestInv(top, guest) /\ HandlerInv BY DEF OrderInv, Types, HostInv
<1>2. CASE Top
  <2>1. /\ at = "top" /\ at' \in {"after", "dispatch"} /\ run'.calls = run.calls /\ HostType'
    BY <1>1, <1>2 DEF Top, HostType
  <2> QED BY <1>1, <1>2, <2>1, SameStack DEF Top, InCall, Delivers, Rendering
<1>3. CASE After
  <2> DEFINE running == emu.active /\ Depth(guest.stack) # emu.guard
  <2>1. /\ at = "after" /\ at' = "frame" /\ run' = run /\ prog' = prog /\ rv' = rv
        /\ emu' = [emu EXCEPT !.active = running] /\ guest' = [guest EXCEPT !.dma = FALSE]
    BY <1>3 DEF After
  <2>2. GuestInv(top, guest') /\ guest'.stack = guest.stack BY <1>1, <2>1, FieldsNested
  <2>3. HostType' /\ emu'.active = running /\ emu'.guard = emu.guard BY <1>1, <2>1 DEF HostType
  <2>4. Handlers' = Handlers BY <2>2 DEF Handlers
  <2>5. ASSUME NEW k \in Handlers PROVE running
    <3>1. guest.stack \in Seq(Frames(top)) /\ k \in 1..Len(guest.stack)
      BY <1>1 DEF GuestInv, Handlers, NmiFrames
    <3>2. Depth(SubSeq(guest.stack, 1, k - 1)) < Depth(guest.stack) /\ Depth(guest.stack) \in Nat
      BY <3>1, WholeStack
    <3>3. emu.active /\ Depth(SubSeq(guest.stack, 1, k - 1)) = emu.guard BY <1>1 DEF HandlerInv
    <3> QED BY <3>2, <3>3
  <2> HIDE DEF running
  <2>6. HandlerInv' BY <1>1, <2>1, <2>2, <2>3, <2>4, <2>5 DEF HandlerInv, Delivers, Rendering
  <2>7. CallsInv'
    <3>1. ~InCall /\ ~InCall' BY <2>1 DEF InCall, Rendering
    <3> QED BY <2>1, <3>1 DEF HostInv, CallsInv
  <2>8. Nests(top)' /\ GuestInv(top, guest)' BY <2>1, <2>2 DEF HostInv, Nests, WellNested, GuestInv
  <2> QED BY <2>3, <2>6, <2>7, <2>8 DEF HostInv
<1>4. CASE NewFrame
  <2>1. /\ at = "frame" /\ run' = run /\ prog' = prog
        /\ HostType' /\ emu'.active = emu.active /\ emu'.guard = emu.guard
    BY <1>1, <1>4 DEF NewFrame, HostType
  <2>2. guest' = guest \/ guest' = [guest EXCEPT !.vblank = TRUE] BY <1>4 DEF NewFrame
  <2>3. GuestInv(top, guest') /\ guest'.stack = guest.stack BY <1>1, <2>2, FieldsNested
  <2>4. CASE emu.active /\ at' = "mark"
    BY <2>1, <2>3, <2>4, SameStack DEF InCall, Delivers, Rendering
  <2>5. CASE ~emu.active /\ at' = "nmi"
    BY <2>1, <2>3, <2>5, SameStack DEF InCall, Rendering
  <2>6. CASE ~emu.active /\ Call("nmi")
    <3>1. at' = "rv_wait" /\ rv'.ret = "nmi" BY <1>1, <2>6 DEF Call, RvType
    <3> QED BY <2>1, <2>3, <2>6, <3>1, SameStack DEF InCall, Rendering
  <2> QED BY <1>4, <2>4, <2>5, <2>6 DEF NewFrame
<1>5. CASE Nmi
  <2>1. at = "nmi" /\ at' = "mark" /\ run' = run /\ prog' = prog /\ rv' = rv BY <1>5 DEF Nmi
  <2>2. ~InCall /\ ~InCall' /\ ~Delivers' /\ ~emu.active
    BY <1>1, <2>1 DEF InCall, Delivers, Rendering, HandlerInv
  <2>3. CASE EnterNmi BY <1>5, <2>3, DeliveredHost
  <2>4. CASE guest' = guest /\ emu' = emu
    <3>1. HostType' BY <1>1, <2>1, <2>4 DEF HostType
    <3> QED BY <1>1, <2>1, <2>2, <2>4, <3>1, SameStack
  <2> QED BY <1>5, <2>3, <2>4 DEF Nmi
<1>6. CASE Mark
  <2>1. /\ at = "mark" /\ at' = "top" /\ run' = run /\ prog' = prog /\ guest' = guest /\ rv' = rv
        /\ HostType' /\ emu'.active = emu.active /\ emu'.guard = emu.guard
    BY <1>1, <1>6 DEF Mark, HostType
  <2> QED BY <1>1, <2>1, SameStack DEF InCall, Delivers, Rendering
<1>7. CASE NoFrame
  <2>1. /\ at = "frame" /\ run' = run /\ prog' = prog /\ guest' = guest
        /\ HostType' /\ emu'.active = emu.active /\ emu'.guard = emu.guard
    BY <1>1, <1>7 DEF NoFrame, HostType
  <2>2. CASE at' = "top" BY <1>1, <2>1, <2>2, SameStack DEF InCall, Delivers, Rendering
  <2>3. CASE Call("fin_wait")
    <3>1. at' = "rv_wait" /\ rv'.ret = "fin_wait" BY <1>1, <2>3 DEF Call, RvType
    <3> QED BY <1>1, <2>1, <3>1, SameStack DEF InCall, Delivers, Rendering
  <2> QED BY <1>7, <2>2, <2>3 DEF NoFrame
<1>8. CASE WatchdogNmi BY <1>8, DeliveredHost
<1>9. CASE WatchdogQuiet
  <2>1. /\ at = "wd_check" /\ at' = "top" /\ run' = run /\ prog' = prog /\ guest' = guest
        /\ HostType' /\ emu'.active = emu.active /\ emu'.guard = emu.guard
    BY <1>1, <1>9 DEF WatchdogQuiet, HostType
  <2> QED BY <1>1, <2>1, SameStack DEF InCall, Delivers, Rendering
<1> QED BY <1>2, <1>3, <1>4, <1>5, <1>6, <1>7, <1>8, <1>9 DEF MainLoop

(* The vertical blank touches neither the stack nor nmi_active. *)
LEMMA VblankHost == ASSUME NEW top, OrderInv, HostInv(top), Vblank PROVE HostInv(top)'
<1>1. /\ at' = at /\ prog' = prog /\ guest' = guest /\ run' = run /\ emu' = [emu EXCEPT !.yield = TRUE]
      /\ rv' = [rv EXCEPT !.spun = at \in {"rv_wait", "fin_wait"}]
  BY DEF Vblank
<1>2. RvType /\ HostType /\ GuestInv(top, guest) BY DEF OrderInv, Types, HostInv
<1>3. rv'.ret = rv.ret BY <1>1, <1>2 DEF RvType
<1>4. HostType' /\ emu'.active = emu.active /\ emu'.guard = emu.guard BY <1>1, <1>2 DEF HostType
<1>5. (InCall' <=> InCall) /\ (Delivers' <=> Delivers) BY <1>1, <1>3 DEF InCall, Delivers
<1> QED BY <1>1, <1>2, <1>4, <1>5, SameStack

LEMMA InitHost == ASSUME GuestsNested, Init PROVE \E top : HostInv(top) /\ Handlers = {}
<1>1. /\ prog \in Programs /\ at = "top" /\ run.calls = << >> /\ emu.active = FALSE
      /\ guest = [pc |-> prog.entry, stack |-> << >>, flag |-> FALSE, n |-> FALSE, ctrl |-> FALSE,
                  vblank |-> FALSE, dma |-> FALSE, queue |-> << >>, written |-> 1]
  BY DEF Init
<1>2. PICK top : Nests(top) BY <1>1 DEF GuestsNested, Nests
<1>3. prog.entry \in DOMAIN top /\ top[prog.entry] = "none" BY <1>2 DEF Nests, WellNested
<1>4. << >> \in Seq(Frames(top)) /\ Len(<< >>) = 0 OBVIOUS
<1>5. GuestInv(top, guest) BY <1>1, <1>3, <1>4 DEF GuestInv, KindAt
<1>6. Handlers = {} BY <1>1, <1>4 DEF Handlers, NmiFrames
<1>7. HostType BY DEF Init, HostType
<1>8. HandlerInv BY <1>1, <1>6 DEF HandlerInv, Delivers, Rendering
<1>9. CallsInv BY <1>1, <1>6 DEF CallsInv, InCall, Rendering
<1> QED BY <1>2, <1>5, <1>6, <1>7, <1>8, <1>9 DEF HostInv
-----------------------------------------------------------------------------
(* The handler returns where somebody looks for it. *)

LEMMA NotReturned ==
  ASSUME ReturnedInv, at \notin {"checks", "after"}, Handlers' = Handlers, emu'.active = emu.active
  PROVE  ReturnedInv'
BY DEF ReturnedInv

LEMMA JustReturned ==
  ASSUME NEW top, HostInv(top), Here = "rti", guest' = Step(guest), emu' = emu, at' \in {"checks", "after"}
  PROVE  ReturnedInv'
<1> DEFINE s == guest.stack
<1>1. Len(s) \in Handlers /\ guest'.stack = SubSeq(s, 1, Len(s) - 1)
  BY StepBelow DEF HostInv, Nests
<1>2. Depth(SubSeq(s, 1, Len(s) - 1)) = emu.guard BY <1>1 DEF HostInv, HandlerInv
<1> QED BY <1>1, <1>2 DEF ReturnedInv

(* Within a native call there is no RTI to interpret: the handler, if any,  *)
(* is below what the call has pushed.                                       *)
LEMMA NoReturnInCall == ASSUME NEW top, HostInv(top), at = "njsr" PROVE Here # "rti"
<1> SUFFICES ASSUME Here = "rti" PROVE FALSE OBVIOUS
<1> DEFINE s == guest.stack
           c == run.calls
<1>1. Len(s) \in Handlers BY StepBelow DEF HostInv, Nests
<1>2. s \in Seq(Frames(top)) BY DEF HostInv, GuestInv
<1>3. c \in Seq(Nat) /\ c # << >> BY DEF HostInv, HostType, CallsInv, InCall
<1>4. Depth(s) > c[Len(c)] BY DEF HostInv, CallsInv
<1>5. \A j \in 1..Len(c) : Depth(SubSeq(s, 1, Len(s))) <= c[j] BY <1>1 DEF HostInv, CallsInv
<1> HIDE DEF s, c
<1>6. Len(c) \in 1..Len(c) /\ c[Len(c)] \in Nat BY <1>3
<1>7. SubSeq(s, 1, Len(s)) = s /\ Depth(s) \in Nat BY <1>2, WholeStack
<1>8. Depth(s) <= c[Len(c)] BY <1>5, <1>6, <1>7
<1> QED BY <1>4, <1>6, <1>7, <1>8

LEMMA RunReturned ==
  ASSUME NEW top, OrderInv, HostInv(top), ReturnedInv, NoReturnInTurn, Run6502 PROVE ReturnedInv'
<1>1. RvType /\ HostType /\ Nests(top) /\ GuestInv(top, guest)
  BY DEF OrderInv, Types, HostInv
<1>2. Here # "rti" => NmiFrames(Step(guest).stack) = Handlers BY <1>1, StepBelow DEF Nests
<1>3. ASSUME NEW ret \in {"after", "checks", "njsr_checks", "turn"}, Interpret(ret), emu' = emu,
             at \notin {"checks", "after"}, Here = "rti" => ret \in {"checks", "after"}
      PROVE  ReturnedInv'
  <2>1. guest' = Step(guest) BY <1>3 DEF Interpret
  <2>2. CASE Here = "rti"
    <3>1. at' = ret BY <1>3, <2>2 DEF Interpret
    <3> QED BY <1>3, <2>1, <2>2, <3>1, JustReturned
  <2>3. CASE Here # "rti"
    <3>1. Handlers' = Handlers BY <1>2, <2>1, <2>3 DEF Handlers
    <3> QED BY <1>3, <3>1, NotReturned
  <2> QED BY <2>2, <2>3
<1>4. ASSUME guest' = guest \/ (guest' = Step(guest) /\ Here # "rti"), emu'.active = emu.active,
             at \notin {"checks", "after"}
      PROVE  ReturnedInv'
  <2>1. Handlers' = Handlers
    <3>1. CASE guest' = guest BY <3>1 DEF Handlers
    <3>2. CASE guest' = Step(guest) /\ Here # "rti" BY <1>2, <3>2 DEF Handlers
    <3> QED BY <1>4, <3>1, <3>2
  <2> QED BY <1>4, <2>1, NotReturned
<1>5. CASE Checks
  <2>1. /\ at = "checks" /\ guest' = guest /\ emu' = emu
        /\ emu.active /\ Depth(guest.stack) = emu.guard => at' = "after"
    BY <1>5 DEF Checks
  <2> QED BY <2>1 DEF ReturnedInv, Handlers
<1>6. CASE NeedsCompile BY <1>4, <1>6 DEF NeedsCompile
<1>7. CASE Compile
  <2>1. at = "compile" /\ emu' = emu BY <1>7 DEF Compile
  <2>2. CASE Interpret("after") BY <1>3, <2>1, <2>2
  <2>3. CASE guest' = guest BY <1>4, <2>1, <2>3
  <2> QED BY <1>7, <2>2, <2>3 DEF Compile
<1>8. CASE RunBlock BY <1>4, <1>8 DEF RunBlock, Native, ToInterpret, LeftToInterpreter
<1>9. CASE LoopEnds
  <2>1. guest' = [guest EXCEPT !.pc = guest.pc + 1] /\ emu' = emu /\ at \in {"dispatch", "njsr"}
    BY <1>9 DEF LoopEnds, Looping
  <2>2. Handlers' = Handlers BY <1>1, <2>1 DEF Handlers, GuestInv
  <2> QED BY <2>1, <2>2, NotReturned
<1>10. CASE LoopYields
  <2>1. guest' = guest /\ emu'.active = emu.active /\ at \in {"dispatch", "njsr"}
    BY <1>1, <1>10 DEF LoopYields, Looping, HostType
  <2> QED BY <1>4, <2>1
<1>11. CASE NativeCall BY <1>4, <1>11 DEF NativeCall
<1>12. CASE NativeInterpret
  <2>1. at = "njsr" /\ emu' = emu /\ Interpret("njsr_checks") BY <1>12 DEF NativeInterpret
  <2>2. Here # "rti" BY <2>1, NoReturnInCall
  <2> QED BY <1>3, <2>1, <2>2
<1>13. CASE NativeChecks BY <1>4, <1>13 DEF NativeChecks
<1>14. CASE InterpretOne BY <1>3, <1>14 DEF InterpretOne
<1>15. CASE BeginTurn BY <1>4, <1>15 DEF BeginTurn
<1>16. CASE Turn
  <2>1. at = "turn" /\ emu' = emu /\ Here # "rti" BY <1>16 DEF Turn, NoReturnInTurn
  <2>2. CASE Interpret("turn") BY <1>3, <2>1, <2>2
  <2>3. CASE guest' = guest BY <1>4, <2>1, <2>3
  <2> QED BY <1>16, <2>2, <2>3 DEF Turn
<1> QED BY <1>5, <1>6, <1>7, <1>8, <1>9, <1>10, <1>11, <1>12, <1>13, <1>14, <1>15, <1>16 DEF Run6502

LEMMA RestReturned ==
  ASSUME NEW top, OrderInv, HostInv(top), ReturnedInv, RenderVideo \/ MainLoop \/ Vblank PROVE ReturnedInv'
<1>1. RvType /\ HostType /\ GuestInv(top, guest) BY DEF OrderInv, Types, HostInv
<1>2. ASSUME guest'.stack = guest.stack, emu'.active = emu.active, at \notin {"checks", "after"} PROVE ReturnedInv'
  <2>1. Handlers' = Handlers BY <1>2 DEF Handlers
  <2> QED BY <1>2, <2>1, NotReturned
<1>3. CASE RenderVideo
  <2>1. at \in Rendering /\ emu' = emu
    BY <1>3 DEF RenderVideo, RvDone, RvTimeout, RvSubmit, RvFlags, RvStore, RvNote, Rendering
  <2>2. guest' = guest \/ guest' = [guest EXCEPT !.queue = << >>] \/ guest' = [guest EXCEPT !.vblank = TRUE]
    BY <1>3 DEF RenderVideo, RvDone, RvTimeout, RvSubmit, RvFlags, RvStore, RvNote
  <2>3. guest'.stack = guest.stack BY <1>1, <2>2 DEF GuestInv
  <2> QED BY <1>2, <2>1, <2>3 DEF Rendering
<1>4. CASE Vblank
  <2>1. at' = at /\ guest' = guest /\ emu'.active = emu.active /\ emu'.guard = emu.guard
    BY <1>1, <1>4 DEF Vblank, HostType
  <2> QED BY <2>1 DEF ReturnedInv, Handlers
<1>5. CASE Top BY <1>2, <1>5 DEF Top
<1>6. CASE After
  <2> DEFINE running == emu.active /\ Depth(guest.stack) # emu.guard
  <2>1. emu' = [emu EXCEPT !.active = running] /\ guest' = [guest EXCEPT !.dma = FALSE] BY <1>6 DEF After
  <2>2. emu'.active = running /\ guest'.stack = guest.stack BY <1>1, <2>1 DEF HostType, GuestInv
  <2>3. running => emu.active /\ Depth(guest.stack) # emu.guard OBVIOUS
  <2> HIDE DEF running
  <2> QED BY <2>2, <2>3 DEF ReturnedInv, Handlers
<1>7. CASE NewFrame
  <2>1. guest' = guest \/ guest' = [guest EXCEPT !.vblank = TRUE] BY <1>7 DEF NewFrame
  <2>2. guest'.stack = guest.stack BY <1>1, <2>1 DEF GuestInv
  <2>3. at = "frame" /\ emu'.active = emu.active BY <1>1, <1>7 DEF NewFrame, HostType
  <2> QED BY <1>2, <2>2, <2>3
<1>8. CASE Nmi
  <2>1. CASE EnterNmi
    <3>1. Handlers' # {} BY <1>8, <2>1, DeliveredHost
    <3> QED BY <3>1 DEF ReturnedInv
  <2>2. CASE guest' = guest /\ emu' = emu BY <1>2, <1>8, <2>2 DEF Nmi
  <2> QED BY <1>8, <2>1, <2>2 DEF Nmi
<1>9. CASE Mark
  <2>1. at = "mark" /\ guest' = guest /\ emu'.active = emu.active BY <1>1, <1>9 DEF Mark, HostType
  <2> QED BY <1>2, <2>1
<1>10. CASE NoFrame
  <2>1. at = "frame" /\ guest' = guest /\ emu'.active = emu.active BY <1>1, <1>10 DEF NoFrame, HostType
  <2> QED BY <1>2, <2>1
<1>11. CASE WatchdogNmi
  <2>1. Handlers' # {} BY <1>11, DeliveredHost
  <2> QED BY <2>1 DEF ReturnedInv
<1>12. CASE WatchdogQuiet
  <2>1. at = "wd_check" /\ guest' = guest /\ emu'.active = emu.active BY <1>1, <1>12 DEF WatchdogQuiet, HostType
  <2> QED BY <1>2, <2>1
<1> QED BY <1>3, <1>4, <1>5, <1>6, <1>7, <1>8, <1>9, <1>10, <1>11, <1>12 DEF MainLoop
-----------------------------------------------------------------------------
(* Results. *)

HostNested == \E top : HostInv(top)
NmiOutermost ==
  /\ Cardinality(Handlers) <= 1
  /\ \A k \in Handlers : emu.active /\ Depth(SubSeq(guest.stack, 1, k - 1)) = emu.guard

(* Two handlers would be at one depth. *)
LEMMA AtMostOne ==
  ASSUME NEW top, HostInv(top), NEW k \in Handlers PROVE Handlers = {k} /\ Cardinality(Handlers) = 1
<1> DEFINE s == guest.stack
           D(j) == Depth(SubSeq(s, 1, j))
<1>1. s \in Seq(Frames(top)) /\ Handlers \subseteq 1..Len(s) /\ Len(s) \in Nat
  BY DEF HostInv, GuestInv, Handlers, NmiFrames
<1>2. \A i \in Handlers : D(i - 1) = emu.guard BY DEF HostInv, HandlerInv
<1>3. ASSUME NEW i \in Handlers, NEW j \in Handlers, i < j PROVE FALSE
  <2>1. i \in 1..Len(s) /\ j \in 1..Len(s) BY <1>1, <1>3
  <2>2. j - 1 \in 1..Len(s) /\ i - 1 \in 0..((j - 1) - 1) BY <1>1, <1>3, <2>1
  <2> HIDE DEF s
  <2>3. D(i - 1) < D(j - 1) /\ D(i - 1) \in Nat BY <1>1, <2>2, DepthGrows
  <2> HIDE DEF D
  <2> QED BY <1>2, <1>3, <2>3
<1>4. ASSUME NEW i \in Handlers PROVE i = k
  <2>1. i \in 1..Len(s) /\ k \in 1..Len(s) BY <1>1, <1>4
  <2>2. ~(i < k) /\ ~(k < i) BY <1>3, <1>4
  <2> HIDE DEF s
  <2> QED BY <1>1, <2>1, <2>2
<1>5. Handlers = {k} BY <1>4
<1> QED BY <1>5, FS_Singleton

LEMMA HostAlways == ASSUME GuestsNested PROVE Spec => []HostNested
<1>1. Init => HostNested BY InitHost DEF HostNested
<1>2. OrderInv /\ HostNested /\ [Next]_vars => HostNested'
  <2> SUFFICES ASSUME OrderInv, HostNested, [Next]_vars PROVE HostNested' OBVIOUS
  <2>1. PICK top : HostInv(top) BY DEF HostNested
  <2>2. HostInv(top)'
    <3>1. CASE UNCHANGED vars
      BY <2>1, <3>1 DEF vars, HostInv, Nests, WellNested, GuestInv, HostType, HandlerInv, CallsInv, InCall, Delivers, Handlers
    <3> QED BY <2>1, <3>1, RenderHost, RunHost, LoopHost, VblankHost DEF Next, Host
  <2> QED BY <2>2 DEF HostNested
<1> QED BY OrderAlways, <1>1, <1>2, PTL DEF Spec

(* The emulated NMI never nests: a guest whose handler is on the stack is   *)
(* not sent into it again, whatever natives, loops and yields the vertical  *)
(* blank comes between, since nmi_active stays set and nmi_sp_guard stays   *)
(* its depth until it has returned (nes.c:117-129, 561-587, 644-652).       *)
THEOREM NmiNeverNests == GuestsNested /\ Spec => []NmiOutermost
<1> SUFFICES ASSUME GuestsNested PROVE Spec => []NmiOutermost OBVIOUS
<1>1. HostNested => NmiOutermost
  <2> SUFFICES ASSUME HostNested PROVE NmiOutermost OBVIOUS
  <2>1. PICK top : HostInv(top) BY DEF HostNested
  <2>2. \A k \in Handlers : emu.active /\ Depth(SubSeq(guest.stack, 1, k - 1)) = emu.guard
    BY <2>1 DEF HostInv, HandlerInv
  <2>3. Cardinality(Handlers) <= 1
    <3>1. CASE Handlers = {} BY <3>1, FS_EmptySet
    <3>2. CASE Handlers # {}
      <4>1. PICK k : k \in Handlers BY <3>2
      <4>2. Cardinality(Handlers) = 1 BY <2>1, <4>1, AtMostOne
      <4> QED BY <4>2
    <3> QED BY <3>1, <3>2
  <2> QED BY <2>2, <2>3 DEF NmiOutermost
<1> QED BY HostAlways, <1>1, PTL

(* For every guest that returns from what it has entered, and does not      *)
(* return from the handler within a turn of the idle loop, nmi_active tells *)
(* between two batches whether the handler is running: no NMI is sent into  *)
(* a handler, and none is held back when it has returned (nes.c:498-503,    *)
(* dynamos.c:640-643).  A turn does not look at nmi_sp_guard                *)
(* (dynamos.c:527-547), hence the second hypothesis.                        *)
THEOREM NmiIsBracketed == GuestsNested /\ Spec /\ []NoReturnInTurn => []NmiBracketed
<1> SUFFICES ASSUME GuestsNested PROVE Spec /\ []NoReturnInTurn => []NmiBracketed OBVIOUS
<1>1. Init => ReturnedInv BY DEF Init, ReturnedInv
<1>2. OrderInv /\ HostNested /\ NoReturnInTurn /\ ReturnedInv /\ [Next]_vars => ReturnedInv'
  <2> SUFFICES ASSUME OrderInv, HostNested, NoReturnInTurn, ReturnedInv, [Next]_vars PROVE ReturnedInv'
    OBVIOUS
  <2>1. PICK top : HostInv(top) BY DEF HostNested
  <2>2. CASE UNCHANGED vars BY <2>2 DEF vars, ReturnedInv, Handlers
  <2> QED BY <2>1, <2>2, RunReturned, RestReturned DEF Next, Host
<1>3. HostNested /\ ReturnedInv => NmiBracketed
  <2> SUFFICES ASSUME HostNested, ReturnedInv, at \in {"frame", "top"}
               PROVE  /\ Cardinality(Handlers) = IF emu.active THEN 1 ELSE 0
                      /\ \A k \in Handlers : Depth(SubSeq(guest.stack, 1, k - 1)) = emu.guard
    BY DEF NmiBracketed
  <2>1. PICK top : HostInv(top) BY DEF HostNested
  <2>2. \A k \in Handlers : emu.active /\ Depth(SubSeq(guest.stack, 1, k - 1)) = emu.guard
    BY <2>1 DEF HostInv, HandlerInv
  <2>3. CASE Handlers = {}
    <3>1. ~emu.active BY <2>3 DEF ReturnedInv
    <3> QED BY <2>2, <2>3, <3>1, FS_EmptySet
  <2>4. CASE Handlers # {}
    <3>1. PICK k : k \in Handlers BY <2>4
    <3>2. Cardinality(Handlers) = 1 BY <2>1, <3>1, AtMostOne
    <3>3. emu.active BY <2>2, <3>1
    <3> QED BY <2>2, <3>2, <3>3
  <2> QED BY <2>3, <2>4
<1> QED BY OrderAlways, HostAlways, <1>1, <1>2, <1>3, PTL DEF Spec
=============================================================================
