------------------------------ MODULE NesFrame ------------------------------
(***************************************************************************)
(* The frame loop of the NES platform: main() and its watchdog, the batch  *)
(* of dispatches in run_6502, the native JSR trampoline and the loops that *)
(* poll nmi_yield, the PPU write queue with the non-blocking render_video, *)
(* and the emulated NMI.  The real vertical blank (the handler of the      *)
(* lazynes library, patched by patch_lnlist.py and patch_nmi_yield.py) may *)
(* interrupt between any two steps.  Guest programs are sequences of the   *)
(* few instructions that matter here; a program counter is an index.       *)
(***************************************************************************)
EXTENDS Naturals, Sequences, FiniteSets

CONSTANTS
  Programs,        \* [code, entry, handler, fresh, unknown, linked]: instructions [op, to]; the vectors; addresses
                   \* not compiled; not found by the walk; whose exit goes on without returning to the dispatcher
  FlushAt,         \* queued PPU writes that force a flush (96 bytes)
  BatchLimit,      \* dispatches per batch (64)
  StuckLimit,      \* idle rounds before the watchdog acts (3)
  IdleThreshold,   \* visits before a loop is interpreted a turn at a time (8)
  IdleSteps,       \* instructions of such a turn (8)
  CounterMod,      \* bound: values of the frame counter at $26
  WriteMod,        \* bound: names of PPU writes, more than are ever under way
  YieldReturns     \* cross_bank_dispatch returns to C (Millipede) or dispatches again

ASSUME FrameAssumption ==
  /\ FlushAt \in Nat \ {0} /\ BatchLimit \in Nat \ {0} /\ StuckLimit \in Nat \ {0}
  /\ IdleThreshold \in Nat \ {0} /\ IdleSteps \in Nat \ {0}
  /\ CounterMod \in Nat \ {0, 1} /\ YieldReturns \in BOOLEAN
  /\ WriteMod \in Nat /\ WriteMod > 3 * FlushAt
  /\ \A p \in Programs : \A pc \in p.linked : p.code[pc].op # "rts"   \* its target is not known (dynamos.c:3507)

VARIABLES
  at,      \* where the host is in its loop
  prog,    \* the guest program
  fresh,   \* addresses not compiled yet
  guest,   \* the guest: pc, stack, flag, n; its PPU registers, queue and DMA request
  run,     \* run_6502: batch_nmi, batch_count, idle detection, saved stack depths of native calls
  emu,     \* last_nmi_frame, nmi_active, nmi_sp_guard, nmi_stuck_count, nmi_yield
  lz,      \* lazynes: nmiCounter, the flags "list pending" and "sync", the list, the last write shown
  rv       \* render_video: rv_sync_active, rv_sync_nmi, the flags it has read, where it returns to

vars == <<at, prog, fresh, guest, run, emu, lz, rv>>

-----------------------------------------------------------------------------
\* The guest.

Ins(pc) == prog.code[pc]
Here == Ins(guest.pc).op
AtIdle == Here = "idle"                       \* sa_is_idle_pc(pc)
Frame(kind, g) == [kind |-> kind, pc |-> g.pc + (IF kind = "call" THEN 1 ELSE 0), n |-> g.n]
NmiFrames(stack) == {k \in 1..Len(stack) : stack[k].kind = "nmi"}
\* Bytes pushed, the distance of sp from its start: the NMI pushes P besides the pc.
Depth(stack) == 2 * Len(stack) + Cardinality(NmiFrames(stack))
Pop(stack) == SubSeq(stack, 1, Len(stack) - 1)

\* One instruction, whether interpreted or native.
Step(g) ==
  LET i == Ins(g.pc)   top == g.stack[Len(g.stack)]   next == [g EXCEPT !.pc = g.pc + 1]
  IN  CASE i.op = "jmp" -> [g EXCEPT !.pc = i.to]
        [] i.op \in {"jsr", "njsr"} -> [g EXCEPT !.pc = i.to, !.stack = Append(g.stack, Frame("call", g))]
        [] i.op = "rts" -> [g EXCEPT !.pc = top.pc, !.stack = Pop(g.stack)]
        [] i.op = "rti" -> [g EXCEPT !.pc = top.pc, !.n = top.n, !.stack = Pop(g.stack)]
        [] i.op = "set" -> [next EXCEPT !.flag = TRUE]
        [] i.op = "clear" -> [next EXCEPT !.flag = FALSE]
        [] i.op \in {"idle", "loop"} -> IF g.flag THEN next ELSE g
        [] i.op = "status" -> [next EXCEPT !.n = g.vblank, !.vblank = FALSE]   \* LDA $2002
        [] i.op = "bpl" -> IF g.n THEN next ELSE [g EXCEPT !.pc = i.to]
        [] i.op = "ppu" -> [next EXCEPT !.queue = Append(g.queue, g.written), !.written = (g.written + 1) % WriteMod]
        [] i.op = "ctrl" -> [next EXCEPT !.ctrl = i.to = 1]                    \* STA $2000
        [] i.op = "dma" -> [next EXCEPT !.dma = TRUE]                          \* STA $4014
        [] OTHER -> next

Loops == {"idle", "loop", "delay"}   \* native loops within one block
LeftToInterpreter == {"status", "ppu", "ctrl", "rti"}   \* I/O accesses and RTI
\* What dispatch_on_pc answers.
ToCompile == guest.pc \in fresh
ToInterpret == ~ToCompile /\ Here \in LeftToInterpreter
Native == ~ToCompile /\ ~ToInterpret

\* nmi6502, and what the main loop notes when it calls it.
EnterNmi ==
  /\ guest' = [guest EXCEPT !.stack = Append(guest.stack, Frame("nmi", guest)), !.pc = prog.handler]
  /\ emu' = [emu EXCEPT !.active = TRUE, !.guard = Depth(guest.stack)]

-----------------------------------------------------------------------------
\* The vertical blank.  The handler of lazynes counts a frame, and takes the
\* list, only when a sync is requested; the hook sets nmi_yield every time.
Vblank ==
  /\ emu' = [emu EXCEPT !.yield = TRUE]
  /\ lz' = IF lz.sync
           THEN [lz EXCEPT !.sync = FALSE, !.list = FALSE, !.counter = (lz.counter + 1) % CounterMod,
                           !.shown = IF lz.list THEN lz.submit[Len(lz.submit)] ELSE lz.shown]
           ELSE lz
  /\ rv' = [rv EXCEPT !.spun = at \in {"rv_wait", "fin_wait"}]
  /\ UNCHANGED <<at, prog, fresh, guest, run>>

-----------------------------------------------------------------------------
\* render_video, called by the guest's writes and by the frame loop.

Call(ret) == at' = "rv_wait" /\ rv' = [rv EXCEPT !.ret = ret, !.spun = FALSE]

\* rv_complete_pending: wait for the list before this one.
Waited == IF at = "rv_wait" THEN "rv_submit" ELSE "wd_check"
\* Mistake: the list before is taken to be shown.
RvDone_Hurries ==
  /\ at \in {"rv_wait", "fin_wait"}
  /\ rv' = [rv EXCEPT !.active = FALSE] /\ at' = Waited
  /\ UNCHANGED <<prog, fresh, guest, run, emu, lz>>
RvDone ==
  /\ at \in {"rv_wait", "fin_wait"} /\ (~rv.active \/ lz.counter # rv.nmi)
  /\ rv' = [rv EXCEPT !.active = FALSE] /\ at' = Waited
  /\ UNCHANGED <<prog, fresh, guest, run, emu, lz>>
\* Mistake: the spin has no limit.
RvTimeout_Never == FALSE /\ UNCHANGED vars
RvTimeout ==
  /\ at \in {"rv_wait", "fin_wait"} /\ rv.active /\ lz.counter = rv.nmi /\ rv.spun
  /\ lz' = [lz EXCEPT !.sync = FALSE, !.list = FALSE]
  /\ rv' = [rv EXCEPT !.active = FALSE] /\ at' = Waited
  /\ UNCHANGED <<prog, fresh, guest, run, emu>>

\* lnList takes a copy of the queue and requests the sync.
RvSubmit ==
  /\ at = "rv_submit" /\ at' = "rv_flags"
  /\ lz' = [lz EXCEPT !.submit = guest.queue, !.list = guest.queue # << >>, !.sync = TRUE]
  /\ guest' = [guest EXCEPT !.queue = << >>]
  /\ UNCHANGED <<prog, fresh, run, emu, rv>>

\* nmiFlags is read, changed and stored: the vertical blank may come in between.
RvFlags ==
  /\ at = "rv_flags" /\ at' = "rv_store" /\ rv' = [rv EXCEPT !.flags = lz.list]
  /\ UNCHANGED <<prog, fresh, guest, run, emu, lz>>
RvStore ==
  /\ at = "rv_store" /\ at' = "rv_note" /\ lz' = [lz EXCEPT !.sync = TRUE, !.list = rv.flags]
  /\ UNCHANGED <<prog, fresh, guest, run, emu, rv>>
\* Mistake: only a counted frame tells the guest of a vertical blank.
RvNote_Silent ==
  /\ at = "rv_note" /\ at' = rv.ret
  /\ rv' = [rv EXCEPT !.active = TRUE, !.nmi = lz.counter, !.spun = FALSE]
  /\ UNCHANGED <<prog, fresh, guest, run, emu, lz>>
RvNote ==
  /\ at = "rv_note" /\ at' = rv.ret
  /\ rv' = [rv EXCEPT !.active = TRUE, !.nmi = lz.counter, !.spun = FALSE]
  /\ guest' = [guest EXCEPT !.vblank = TRUE]
  /\ UNCHANGED <<prog, fresh, run, emu, lz>>

\* An interpreted instruction; a PPU write that fills the queue renders before it returns.
Interpret(ret) ==
  LET g == Step(guest) IN
  /\ guest' = g
  /\ IF Here = "ppu" /\ Len(g.queue) >= FlushAt THEN Call(ret) ELSE at' = ret /\ UNCHANGED rv

-----------------------------------------------------------------------------
\* run_6502: the batch.

Top ==
  /\ at = "top" /\ at' = IF AtIdle THEN "after" ELSE "dispatch"
  /\ run' = [run EXCEPT !.nmi = lz.counter, !.count = 0]
  /\ UNCHANGED <<prog, fresh, guest, emu, lz, rv>>

\* Mistake: the batch goes on when the handler has returned.
Checks_PastRti ==
  /\ at = "checks"
  /\ IF lz.counter # run.nmi \/ run.count + 1 >= BatchLimit \/ AtIdle
     THEN at' = "after" /\ UNCHANGED run
     ELSE at' = "dispatch" /\ run' = [run EXCEPT !.count = run.count + 1]
  /\ UNCHANGED <<prog, fresh, guest, emu, lz, rv>>
Checks ==
  /\ at = "checks"
  /\ IF \/ lz.counter # run.nmi \/ run.count + 1 >= BatchLimit
        \/ AtIdle \/ (emu.active /\ Depth(guest.stack) = emu.guard)
     THEN at' = "after" /\ UNCHANGED run
     ELSE at' = "dispatch" /\ run' = [run EXCEPT !.count = run.count + 1]
  /\ UNCHANGED <<prog, fresh, guest, emu, lz, rv>>

\* A result of 1 leaves the batch, through every native call under way.
NeedsCompile ==
  /\ at \in {"dispatch", "njsr"} /\ ToCompile
  /\ at' = "compile" /\ run' = [run EXCEPT !.calls = << >>]
  /\ UNCHANGED <<prog, fresh, guest, emu, lz, rv>>

\* The compile path interprets at once what the walk of the ROM has not found,
\* and what turns out to be the interpreter's; it leaves alone what is compiled:
\* a native call returned for a vertical blank.
NotFound == ToCompile /\ guest.pc \in prog.unknown
Compile ==
  /\ at = "compile"
  /\ fresh' = IF NotFound THEN fresh ELSE fresh \ {guest.pc}
  /\ IF NotFound \/ Here \in LeftToInterpreter THEN Interpret("after")
     ELSE at' = "after" /\ UNCHANGED <<guest, rv>>
  /\ UNCHANGED <<prog, run, emu, lz>>

Checked == IF at = "dispatch" THEN "checks" ELSE "njsr_checks"
RunBlock ==
  /\ at \in {"dispatch", "njsr"} /\ Native /\ Here \notin {"njsr"} \cup Loops
  /\ guest' = Step(guest) /\ at' = IF guest.pc \in prog.linked THEN at ELSE Checked
  /\ UNCHANGED <<prog, fresh, run, emu, lz, rv>>

\* A native loop goes on until its condition holds; nmi_yield makes it leave
\* through cross_bank_dispatch, which clears the flag.
Looping == at \in {"dispatch", "njsr"} /\ Native /\ Here \in Loops
LoopEnds ==
  /\ Looping /\ (Here = "delay" \/ guest.flag)
  /\ guest' = [guest EXCEPT !.pc = guest.pc + 1] /\ at' = Checked
  /\ UNCHANGED <<prog, fresh, run, emu, lz, rv>>
LoopYields ==
  /\ Looping /\ emu.yield /\ emu' = [emu EXCEPT !.yield = FALSE]
  /\ at' = IF YieldReturns THEN Checked ELSE at
  /\ UNCHANGED <<prog, fresh, guest, run, lz, rv>>

\* native_jsr_trampoline: it dispatches until the stack is back where it was.
NativeCall ==
  /\ at \in {"dispatch", "njsr"} /\ Native /\ Here = "njsr" /\ at' = "njsr"
  /\ run' = [run EXCEPT !.calls = Append(run.calls, Depth(guest.stack))]
  /\ guest' = Step(guest)
  /\ UNCHANGED <<prog, fresh, emu, lz, rv>>
NativeInterpret ==
  /\ at = "njsr" /\ ToInterpret /\ Interpret("njsr_checks")
  /\ UNCHANGED <<prog, fresh, run, emu, lz>>
NativeChecks ==
  /\ at = "njsr_checks"
  /\ IF lz.counter # emu.last THEN at' = "compile" /\ run' = [run EXCEPT !.calls = << >>]
     ELSE IF Depth(guest.stack) > run.calls[Len(run.calls)] THEN at' = "njsr" /\ UNCHANGED run
     ELSE /\ run' = [run EXCEPT !.calls = Pop(run.calls)]
          /\ at' = IF Len(run.calls) > 1 THEN "njsr_checks" ELSE "checks"
  /\ UNCHANGED <<prog, fresh, guest, emu, lz, rv>>

\* The interpreter's case, with the detection of loops it keeps coming back to.
Visits == IF guest.pc = run.anchor THEN run.hits + 1 ELSE run.hits
InterpretOne ==
  /\ at = "dispatch" /\ ToInterpret
  /\ ~(guest.pc = run.anchor /\ Visits >= IdleThreshold)
  /\ run' = [run EXCEPT !.prev = guest.pc,
                        !.anchor = IF guest.pc < run.prev THEN guest.pc ELSE run.anchor,
                        !.hits = IF guest.pc # run.anchor /\ guest.pc < run.prev THEN 1 ELSE Visits]
  /\ Interpret("checks")
  /\ UNCHANGED <<prog, fresh, emu, lz>>
BeginTurn ==
  /\ at = "dispatch" /\ ToInterpret /\ guest.pc = run.anchor /\ Visits >= IdleThreshold
  /\ at' = "turn" /\ run' = [run EXCEPT !.hits = IdleThreshold, !.steps = 0]
  /\ UNCHANGED <<prog, fresh, guest, emu, lz, rv>>
Turn ==
  /\ at = "turn"
  /\ IF run.steps > 0 /\ (guest.pc = run.anchor \/ run.steps = IdleSteps)
     THEN /\ at' = "after" /\ UNCHANGED <<guest, rv>>
          /\ run' = IF guest.pc = run.anchor THEN [run EXCEPT !.prev = guest.pc]
                    ELSE [run EXCEPT !.prev = guest.pc, !.anchor = 0, !.hits = 0]
     ELSE Interpret("turn") /\ run' = [run EXCEPT !.steps = run.steps + 1]
  /\ UNCHANGED <<prog, fresh, emu, lz>>

-----------------------------------------------------------------------------
\* main(): what follows the batch.

\* The handler is taken to have returned when sp is back; OAM DMA is forwarded.
After ==
  /\ at = "after" /\ at' = "frame"
  /\ emu' = [emu EXCEPT !.active = emu.active /\ Depth(guest.stack) # emu.guard]
  /\ guest' = [guest EXCEPT !.dma = FALSE]
  /\ UNCHANGED <<prog, fresh, run, lz, rv>>

\* A vertical blank was counted: flush the queue, or just show it to the guest.
\* Mistake: the queue is left for a fuller one, as in the middle of a batch.
NewFrame_WhenFull ==
  /\ at = "frame" /\ lz.counter # emu.last
  /\ emu' = [emu EXCEPT !.stuck = 0]
  /\ IF emu.active THEN at' = "mark" /\ UNCHANGED <<guest, rv>>
     ELSE IF Len(guest.queue) >= FlushAt THEN Call("nmi") /\ UNCHANGED guest
     ELSE at' = "nmi" /\ guest' = [guest EXCEPT !.vblank = TRUE] /\ UNCHANGED rv
  /\ UNCHANGED <<prog, fresh, run, lz>>
NewFrame ==
  /\ at = "frame" /\ lz.counter # emu.last
  /\ emu' = [emu EXCEPT !.stuck = 0]
  /\ IF emu.active THEN at' = "mark" /\ UNCHANGED <<guest, rv>>
     ELSE IF guest.queue # << >> THEN Call("nmi") /\ UNCHANGED guest
     ELSE at' = "nmi" /\ guest' = [guest EXCEPT !.vblank = TRUE] /\ UNCHANGED rv
  /\ UNCHANGED <<prog, fresh, run, lz>>
Nmi ==
  /\ at = "nmi" /\ at' = "mark"
  /\ IF guest.ctrl THEN EnterNmi ELSE UNCHANGED <<guest, emu>>
  /\ UNCHANGED <<prog, fresh, run, lz, rv>>
Mark ==
  /\ at = "mark" /\ at' = "top" /\ emu' = [emu EXCEPT !.last = lz.counter, !.yield = FALSE]
  /\ UNCHANGED <<prog, fresh, guest, run, lz, rv>>

\* None was: after StuckLimit rounds the watchdog renders, to request a sync.
\* Mistake: no watchdog.
NoFrame_Waits ==
  /\ at = "frame" /\ lz.counter = emu.last /\ at' = "top"
  /\ UNCHANGED <<prog, fresh, guest, run, emu, lz, rv>>
NoFrame ==
  /\ at = "frame" /\ lz.counter = emu.last
  /\ IF emu.stuck + 1 >= StuckLimit THEN emu' = [emu EXCEPT !.stuck = 0] /\ Call("fin_wait")
     ELSE emu' = [emu EXCEPT !.stuck = emu.stuck + 1] /\ at' = "top" /\ UNCHANGED rv
  /\ UNCHANGED <<prog, fresh, guest, run, lz>>
WatchdogNmi ==
  /\ at = "wd_check" /\ lz.counter # emu.last /\ ~emu.active /\ guest.ctrl
  /\ at' = "top" /\ guest' = [guest EXCEPT !.stack = Append(guest.stack, Frame("nmi", guest)), !.pc = prog.handler]
  /\ emu' = [emu EXCEPT !.active = TRUE, !.guard = Depth(guest.stack), !.last = lz.counter, !.yield = FALSE]
  /\ UNCHANGED <<prog, fresh, run, lz, rv>>
WatchdogQuiet ==
  /\ at = "wd_check" /\ (lz.counter = emu.last \/ emu.active \/ ~guest.ctrl) /\ at' = "top"
  /\ emu' = IF lz.counter = emu.last THEN emu ELSE [emu EXCEPT !.last = lz.counter, !.yield = FALSE]
  /\ UNCHANGED <<prog, fresh, guest, run, lz, rv>>

-----------------------------------------------------------------------------
Init ==
  /\ prog \in Programs /\ fresh = prog.fresh /\ at = "top"
  /\ guest = [pc |-> prog.entry, stack |-> << >>, flag |-> FALSE, n |-> FALSE, ctrl |-> FALSE, vblank |-> FALSE,
              dma |-> FALSE, queue |-> << >>, written |-> 1]
  /\ run = [nmi |-> 0, count |-> 0, anchor |-> 0, hits |-> 0, prev |-> 0, steps |-> 0, calls |-> << >>]
  /\ emu = [last |-> 0, active |-> FALSE, guard |-> 0, stuck |-> 0, yield |-> FALSE]
  /\ lz = [counter |-> 0, list |-> FALSE, sync |-> FALSE, submit |-> << >>, shown |-> 0]
  /\ rv = [active |-> FALSE, nmi |-> 0, flags |-> FALSE, ret |-> "nmi", spun |-> FALSE]

RenderVideo == RvDone \/ RvTimeout \/ RvSubmit \/ RvFlags \/ RvStore \/ RvNote
Run6502 ==
  \/ Checks \/ NeedsCompile \/ Compile \/ RunBlock \/ LoopEnds \/ LoopYields
  \/ NativeCall \/ NativeInterpret \/ NativeChecks \/ InterpretOne \/ BeginTurn \/ Turn
MainLoop == Top \/ After \/ NewFrame \/ Nmi \/ Mark \/ NoFrame \/ WatchdogNmi \/ WatchdogQuiet
Host == RenderVideo \/ Run6502 \/ MainLoop
Next == Host \/ Vblank

\* The processor goes on, the vertical blank comes sixty times a second, and a
\* native delay loop ends although nmi_yield may interrupt it.
Spec == Init /\ [][Next]_vars /\ WF_vars(Host) /\ WF_vars(Vblank) /\ WF_vars(LoopEnds)

-----------------------------------------------------------------------------
\* The PPU writes under way: the list that lazynes holds, unless it has been
\* shown already, and the queue.
UnderWay ==
  (IF lz.list /\ lz.submit[Len(lz.submit)] # lz.shown THEN lz.submit ELSE << >>) \o guest.queue

(* PPU writes reach the screen in the order the guest made them; none is   *)
(* lost and none comes after a later one, although lists are handed over   *)
(* without waiting and the flags of the handler are read, changed and      *)
(* stored with the handler enabled (nes.c:917-998).  A list that the store *)
(* brings back may be shown once more while it is the latest: that changes *)
(* nothing on the screen and is allowed.                                   *)
ShownInOrder ==
  /\ \A k \in 1..Len(UnderWay) : UnderWay[k] = (lz.shown + k) % WriteMod
  /\ guest.written = (lz.shown + Len(UnderWay) + 1) % WriteMod

(* Between two batches nmi_active tells whether the handler is running:    *)
(* one frame of it on the guest's stack, at nmi_sp_guard.  The emulated    *)
(* NMI never nests and is never held back by a handler that has returned   *)
(* (nes.c:498-503, dynamos.c:640-643).                                     *)
Handlers == NmiFrames(guest.stack)
NmiBracketed ==
  at \in {"frame", "top"} =>
    /\ Cardinality(Handlers) = IF emu.active THEN 1 ELSE 0
    /\ \A k \in Handlers : Depth(SubSeq(guest.stack, 1, k - 1)) = emu.guard

(* Guests that return from what they have entered: top tells for every     *)
(* address what lies on top of the stack there, the return of a call or of *)
(* the NMI, so that RTS finds the one and RTI the other.                   *)
Follows(i, pc) ==
  CASE i.op \in {"rts", "rti"}   -> {}
    [] i.op = "jmp"              -> {i.to}
    [] i.op = "bpl"              -> {i.to, pc + 1}
    [] i.op \in {"idle", "loop"} -> {pc, pc + 1}
    [] OTHER                     -> {pc + 1}
WellNested(p, top) ==
  /\ DOMAIN top = 1..Len(p.code)
  /\ {p.entry, p.handler} \subseteq DOMAIN top /\ top[p.entry] = "none" /\ top[p.handler] = "nmi"
  /\ \A pc \in DOMAIN top :
       LET i == p.code[pc] IN
       /\ i.op = "rts" => top[pc] = "call"
       /\ i.op = "rti" => top[pc] = "nmi"
       /\ i.op \in {"jsr", "njsr"} => i.to \in DOMAIN top /\ top[i.to] = "call"
       /\ \A q \in Follows(i, pc) : q \in DOMAIN top /\ top[q] = top[pc]

(* Frames are served for ever: the main loop keeps reaching the point      *)
(* where it delivers the NMI (dynamos.c:617-621, nes.c:612-620).           *)
FramesServed == []<>(at = "nmi" \/ (at = "wd_check" /\ lz.counter # emu.last))

(* A guest that polls $2002 for the vertical blank sees it, also when      *)
(* nothing it does makes lazynes count frames (nes.c:97-102, 612-620).     *)
PollEnds == (Here = "status" \/ Here = "bpl") ~> ~(Here = "status" \/ Here = "bpl")

(* What the guest wrote to the PPU before the vertical blank is handed     *)
(* over before its handler runs, with the NMI switched off in between or   *)
(* not (nes.c:550-570, 620-624).                                           *)
PpuBeforeNmi == [][~emu.active /\ emu.active' => guest.queue = << >>]_vars

(* render_video returns, also when the vertical blank comes between the    *)
(* request of the sync and the read of the counter (nes.c:917-935).        *)
RenderReturns ==
  (at \in {"rv_wait", "fin_wait", "rv_submit", "rv_flags", "rv_store", "rv_note"})
    ~> (at \notin {"rv_wait", "fin_wait", "rv_submit", "rv_flags", "rv_store", "rv_note"})

(* A guest that waits for a flag gets past the wait when the flag is set,  *)
(* and not only into its next NMI handler (static_analysis.c:380-384,      *)
(* nes.c:474-477).                                                         *)
WaitEnds == (Here = "idle" /\ guest.flag) ~> (Here # "idle" /\ Handlers = {})
=============================================================================
