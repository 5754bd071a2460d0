------------------------------- MODULE SaWalk -------------------------------
(***************************************************************************)
(* core/static_analysis: the walk over the guest ROM at power-on and what  *)
(* it keeps in flash.  run_6502 compiles at a PC only if the bitmap says   *)
(* that an instruction starts there, and a JSR becomes a native call only  *)
(* if the subroutine table says that its target leaves the stack clean.    *)
(*                                                                         *)
(* The bitmap, the header, the list of indirect targets and the subroutine *)
(* table survive a reset, which can come between any two flash writes; the *)
(* queue and the walk itself are in WRAM.  Table entries are programmed    *)
(* byte by byte, and programming only clears bits.                         *)
(***************************************************************************)
EXTENDS Integers, Sequences, FiniteSets

CONSTANTS
  PageSize,        \* values of a byte (256); an address is two of them
  AndBits(_, _),   \* bitwise and of two bytes
  BitmapSize,      \* bits of the bitmap, $8000
  RomMin, RomMax,  \* ROM_ADDR_MIN, ROM_ADDR_MAX
  Insn,            \* Insn[a]: what the bytes at the ROM address a decode to
  Vectors,         \* reset, NMI and IRQ vector
  Resolved,        \* where the JMP ($xxxx) of the guest can lead
  CleanSubs,       \* entries sa_analyze_subroutine_safety finds clean
  QueueSlots, IndirectMax, SubroutineMax   \* SA_QUEUE_SLOTS, SA_..._MAX

Byte  == 0..(PageSize - 1)
Empty == PageSize - 1                  \* an erased byte, $FF
Addr  == 0..(PageSize * PageSize - 1)
Rom   == RomMin..RomMax

(* jump         JMP abs
   stop         JMP (ind), RTS, RTI, BRK, or an undocumented opcode, taken
                for data: the walk ends this path
   call, branch JSR, and the conditional branches
   other        all other instructions                                     *)
InsnKinds == {"jump", "stop", "call", "branch", "other"}

ASSUME WalkAssumption ==
  /\ PageSize \in Nat \ {0} /\ BitmapSize \in Nat \ {0}
  /\ \A x, y \in Byte : AndBits(x, y) \in Byte /\ AndBits(Empty, y) = y
  /\ RomMin \in Addr \ {0} /\ RomMax \in Addr
  /\ RomMax - RomMin < BitmapSize
  /\ Insn \in [Rom -> [kind : InsnKinds, len : 1..3, target : Addr]]
  /\ Vectors \in [1..3 -> Addr] /\ Resolved \subseteq Addr
  /\ QueueSlots \in Nat \ {0}
  /\ IndirectMax \in Nat /\ SubroutineMax \in Nat

VARIABLES
  (* flash *)
  header,      \* does the SA header match this ROM?
  known,       \* clear bits of the bitmap
  indirect,    \* list of indirect targets
  subs,        \* subroutine table
  (* WRAM *)
  stage,       \* where sa_run, or the recording of a target, is
  queue, cur,  \* BFS queue, and the PC the linear walk is at
  index,       \* loop counter over seeds and table slots
  arg,         \* address being recorded
  (* history *)
  lost         \* bits cleared since the erase for code the walk gave up on

flash   == <<header, known, indirect, subs>>
wram    == <<stage, queue, cur, index, arg>>
vars    == <<flash, wram, lost>>

NoAddr == -1
BlankTarget == [lo |-> Empty, hi |-> Empty, type |-> "empty"]
BlankSub    == [lo |-> Empty, hi |-> Empty, flags |-> "empty"]
NoTargets   == [i \in 1..IndirectMax |-> BlankTarget]
NoSubs      == [i \in 1..SubroutineMax |-> BlankSub]

Index(a) == a % BitmapSize
Lo(a) == a % PageSize
Hi(a) == a \div PageSize
Join(lo, hi) == hi * PageSize + lo

(* 16-bit addition to a PC. *)
Plus(a, n) == (a + n) % (PageSize * PageSize)
-----------------------------------------------------------------------------
(* sa_enqueue_if_valid: the bitmap is marked first, and q_push drops the
   address when the queue is full.                                        *)
Wanted_AnyAddress(t) == t \in Addr /\ Index(t) \notin known
Wanted_Again(t) == t \in Rom
Wanted(t) == t \in Rom /\ Index(t) \notin known

QueueFull_Never == FALSE
QueueFull == Len(queue) >= QueueSlots

Enqueued(t) == IF Wanted(t) THEN {Index(t)} ELSE {}
Pushed(t)   == IF Wanted(t) /\ ~QueueFull THEN Append(queue, t) ELSE queue
Dropped(t)  == IF Wanted(t) /\ QueueFull THEN {Index(t)} ELSE {}

(* The linear walk marks the next instruction it comes to, and goes on
   there.  Past $FFFF the PC wraps: the bit is marked all the same, and
   the walk stops.                                                       *)
Continued(n) == IF n <= RomMax THEN {Index(n)} ELSE {}
GoOn(n) == IF n \in Rom THEN n ELSE NoAddr
Stray(n) == IF n \notin Rom THEN Continued(n) \ known ELSE {}

(* Slots of the subroutine table. *)
SlotEmpty_LowByte(s) == s.lo = Empty
SlotEmpty(s) == s.lo = Empty /\ s.hi = Empty
SlotHolds_LowByte(s, t) == s.lo = Lo(t)
SlotHolds(s, t) == s.lo = Lo(t) /\ s.hi = Hi(t)

(* The slot sa_record_subroutine writes t to; none if the table holds t
   already or is full.                                                  *)
SlotFor(t) ==
  {i \in 1..SubroutineMax :
     /\ SlotEmpty(subs[i])
     /\ \A j \in 1..(i - 1) : ~SlotEmpty(subs[j]) /\ ~SlotHolds(subs[j], t)}

(* sa_indirect_exists and sa_indirect_find_empty look at the type byte. *)
ListEnd == {i \in 1..IndirectMax : indirect[i].type = "empty"}
Listed(t) ==
  \E i \in 1..IndirectMax :
    /\ \A j \in 1..i : indirect[j].type # "empty"
    /\ Join(indirect[i].lo, indirect[i].hi) = t
FreeEntry == {i \in ListEnd : \A j \in ListEnd : i <= j}
-----------------------------------------------------------------------------
(* A new chip, or one that was used with another ROM. *)
Init ==
  /\ header = FALSE
  /\ known \in SUBSET (0..(BitmapSize - 1))
  /\ indirect \in {NoTargets,
       [i \in 1..IndirectMax |-> [lo |-> 0, hi |-> 0, type |-> "jmp_ind"]]}
  /\ subs \in {NoSubs,
       [i \in 1..SubroutineMax |-> [lo |-> 0, hi |-> 0, flags |-> "clean"]]}
  /\ stage = "off" /\ queue = <<>> /\ cur = NoAddr /\ index = 1 /\ arg = 0
  /\ lost = {}

Boot ==
  /\ stage = "off"
  /\ IF header
     THEN stage' = "seed" /\ UNCHANGED <<flash, lost>>
     ELSE /\ known' = {} /\ indirect' = NoTargets /\ subs' = NoSubs
          /\ lost' = {}
          /\ stage' = "header"
          /\ UNCHANGED header
  /\ index' = 1
  /\ UNCHANGED <<queue, cur, arg>>

WriteHeader ==
  /\ stage = "header"
  /\ header' = TRUE /\ stage' = "seed"
  /\ UNCHANGED <<known, indirect, subs, queue, cur, index, arg, lost>>

(* The vectors, then the list of indirect targets up to its first empty
   entry.                                                               *)
MoreSeeds ==
  \/ index <= 3
  \/ index \in 4..(IndirectMax + 3) /\ indirect[index - 3].type # "empty"
SeedAddr ==
  IF index <= 3 THEN Vectors[index]
  ELSE Join(indirect[index - 3].lo, indirect[index - 3].hi)

Seed ==
  /\ stage = "seed" /\ MoreSeeds
  /\ known' = known \cup Enqueued(SeedAddr)
  /\ queue' = Pushed(SeedAddr)
  /\ lost' = lost \cup Dropped(SeedAddr)
  /\ index' = index + 1
  /\ UNCHANGED <<header, indirect, subs, stage, cur, arg>>

SeedsDone ==
  /\ stage = "seed" /\ ~MoreSeeds
  /\ stage' = "walk"
  /\ UNCHANGED <<flash, queue, cur, index, arg, lost>>

NextPath ==
  /\ stage = "walk" /\ cur = NoAddr /\ queue # <<>>
  /\ cur' = GoOn(Head(queue)) /\ queue' = Tail(queue)
  /\ UNCHANGED <<flash, stage, index, arg, lost>>

Walking(kind) == stage = "walk" /\ cur \in Rom /\ Insn[cur].kind = kind

WalkStop ==
  /\ Walking("stop")
  /\ cur' = NoAddr
  /\ lost' = lost \ {Index(cur)}
  /\ UNCHANGED <<flash, stage, queue, index, arg>>

WalkJump ==
  /\ Walking("jump")
  /\ known' = known \cup Enqueued(Insn[cur].target)
  /\ queue' = Pushed(Insn[cur].target)
  /\ lost' = (lost \ {Index(cur)}) \cup Dropped(Insn[cur].target)
  /\ cur' = NoAddr
  /\ UNCHANGED <<header, indirect, subs, stage, index, arg>>

NotTaken_Operand(a) == Plus(a, 1)
NotTaken(a) == Plus(a, 2)

WalkBranch ==
  LET t == Insn[cur].target  n == NotTaken(cur)
  IN /\ Walking("branch")
     /\ known' = known \cup Enqueued(t) \cup Continued(n)
     /\ queue' = Pushed(t)
     /\ lost' = (lost \ {Index(cur)}) \cup Dropped(t) \cup Stray(n)
     /\ cur' = GoOn(n)
     /\ UNCHANGED <<header, indirect, subs, stage, index, arg>>

WalkOther ==
  LET n == Plus(cur, Insn[cur].len)
  IN /\ Walking("other")
     /\ known' = known \cup Continued(n)
     /\ lost' = (lost \ {Index(cur)}) \cup Stray(n)
     /\ cur' = GoOn(n)
     /\ UNCHANGED <<header, indirect, subs, stage, queue, index, arg>>

ProgramLow(i, t)  == subs' = [subs EXCEPT ![i].lo = AndBits(@, Lo(t))]
ProgramHigh(i, t) == subs' = [subs EXCEPT ![i].hi = AndBits(@, Hi(t))]

(* JSR: the target is enqueued and recorded, low byte first. *)
WalkCall ==
  LET t == Insn[cur].target
  IN /\ Walking("call")
     /\ known' = known \cup Enqueued(t)
     /\ queue' = Pushed(t)
     /\ lost' = lost \cup Dropped(t)
     /\ \/ /\ SlotFor(t) = {}
           /\ stage' = "call" /\ UNCHANGED <<subs, index>>
        \/ \E i \in SlotFor(t) :
             ProgramLow(i, t) /\ index' = i /\ stage' = "call_high"
     /\ UNCHANGED <<header, indirect, cur, arg>>

CallHigh ==
  /\ stage = "call_high"
  /\ ProgramHigh(index, Insn[cur].target)
  /\ stage' = "call"
  /\ UNCHANGED <<header, known, indirect, queue, cur, index, arg, lost>>

(* The walk goes on behind the JSR. *)
WalkReturn ==
  LET n == Plus(cur, 3)
  IN /\ stage = "call"
     /\ known' = known \cup Continued(n)
     /\ lost' = (lost \ {Index(cur)}) \cup Stray(n)
     /\ cur' = GoOn(n)
     /\ stage' = "walk"
     /\ UNCHANGED <<header, indirect, subs, queue, index, arg>>

WalkEnd ==
  /\ stage = "walk" /\ cur = NoAddr /\ queue = <<>>
  /\ stage' = "analyze" /\ index' = 1
  /\ UNCHANGED <<flash, queue, cur, arg, lost>>

(* sa_analyze_all_subroutines: entries without flags get them. *)
Safety(a) == IF a \in CleanSubs THEN "clean" ELSE "dirty"
MoreSubs == index <= SubroutineMax /\ ~SlotEmpty(subs[index])

Analyze ==
  /\ stage = "analyze" /\ MoreSubs
  /\ subs' = [subs EXCEPT ![index].flags =
                IF @ = "empty" THEN Safety(Join(subs[index].lo, subs[index].hi))
                ELSE @]
  /\ index' = index + 1
  /\ UNCHANGED <<header, known, indirect, stage, queue, cur, arg, lost>>

AnalyzeEnd ==
  /\ stage = "analyze" /\ ~MoreSubs
  /\ stage' = "run"
  /\ UNCHANGED <<flash, queue, cur, index, arg, lost>>
-----------------------------------------------------------------------------
(* While the guest runs: the recompiler comes to a JSR ... *)
GuestCalls == {Insn[a].target : a \in {b \in Rom : Insn[b].kind = "call"}}

RecordSubroutine(t) ==
  /\ stage = "run" /\ t \in GuestCalls
  /\ \E i \in SlotFor(t) : ProgramLow(i, t) /\ index' = i
  /\ arg' = t /\ stage' = "sub_high"
  /\ UNCHANGED <<header, known, indirect, queue, cur, lost>>

SubroutineHigh ==
  /\ stage = "sub_high"
  /\ ProgramHigh(index, arg)
  /\ stage' = "run"
  /\ UNCHANGED <<header, known, indirect, queue, cur, index, arg, lost>>

(* ... and the interpreter resolves a JMP ($xxxx) to a PC that is neither
   in the bitmap nor in the list: low byte, high byte, type, bitmap bit.  *)
RecordIndirect(t) ==
  /\ stage = "run" /\ t \in Resolved
  /\ Index(t) \notin known /\ ~Listed(t)
  /\ \E i \in FreeEntry :
       /\ indirect' = [indirect EXCEPT ![i].lo = AndBits(@, Lo(t))]
       /\ index' = i
  /\ arg' = t /\ stage' = "target_high"
  /\ UNCHANGED <<header, known, subs, queue, cur, lost>>

IndirectHigh ==
  /\ stage = "target_high"
  /\ indirect' = [indirect EXCEPT ![index].hi = AndBits(@, Hi(arg))]
  /\ stage' = "target_type"
  /\ UNCHANGED <<header, known, subs, queue, cur, index, arg, lost>>

IndirectType ==
  /\ stage = "target_type"
  /\ indirect' = [indirect EXCEPT ![index].type = "jmp_ind"]
  /\ stage' = "target_mark"
  /\ UNCHANGED <<header, known, subs, queue, cur, index, arg, lost>>

IndirectMark ==
  /\ stage = "target_mark"
  /\ known' = known \cup {Index(arg)}
  /\ lost' = lost \cup {Index(arg)}
  /\ stage' = "run"
  /\ UNCHANGED <<header, indirect, subs, queue, cur, index, arg>>

(* Power loss or reset at any point. *)
Reset ==
  /\ stage # "off"
  /\ lost' = lost \cup {Index(queue[i]) : i \in DOMAIN queue}
                  \cup (IF cur = NoAddr THEN {} ELSE {Index(cur)})
  /\ stage' = "off" /\ queue' = <<>> /\ cur' = NoAddr /\ index' = 1 /\ arg' = 0
  /\ UNCHANGED flash

BootStep ==
  \/ Boot \/ WriteHeader \/ Seed \/ SeedsDone
  \/ NextPath \/ WalkStop \/ WalkJump \/ WalkBranch \/ WalkOther
  \/ WalkCall \/ CallHigh \/ WalkReturn \/ WalkEnd
  \/ Analyze \/ AnalyzeEnd

RunStep ==
  \/ \E t \in Addr : RecordSubroutine(t) \/ RecordIndirect(t)
  \/ SubroutineHigh \/ IndirectHigh \/ IndirectType \/ IndirectMark

Next == BootStep \/ RunStep \/ Reset

Spec == Init /\ [][Next]_vars

(* sa_run does not wait for anything. *)
FairSpec == Spec /\ WF_vars(BootStep)
-----------------------------------------------------------------------------
(* What the analysis promises. *)

Stages == {"off", "header", "seed", "walk", "call_high", "call", "analyze",
           "run", "sub_high", "target_high", "target_type", "target_mark"}

TypeOK ==
  /\ header \in BOOLEAN
  /\ known \subseteq 0..(BitmapSize - 1) /\ lost \subseteq known
  /\ indirect \in [1..IndirectMax ->
                     [lo : Byte, hi : Byte, type : {"empty", "jmp_ind"}]]
  /\ subs \in [1..SubroutineMax ->
                 [lo : Byte, hi : Byte, flags : {"empty", "clean", "dirty"}]]
  /\ stage \in Stages
  /\ queue \in Seq(Rom) /\ Len(queue) <= QueueSlots
  /\ cur \in Rom \cup {NoAddr}
  /\ index \in Nat \ {0} /\ arg \in Addr

(* Control flow of the guest as far as it can be seen statically: the PCs
   that may come after the instruction at a and that the walk may mark.    *)
After(a) ==
  CASE Insn[a].kind = "branch" -> {Plus(a, 2)}
    [] Insn[a].kind = "call"   -> {Plus(a, 3)}
    [] Insn[a].kind = "other"  -> {Plus(a, Insn[a].len)}
    [] OTHER -> {}
Taken(a) ==
  IF Insn[a].kind \in {"jump", "branch", "call"} THEN {Insn[a].target} ELSE {}
Succ == [a \in Rom |-> {n \in After(a) : n <= RomMax} \cup (Taken(a) \cap Rom)]

ClosedSets == {R \in SUBSET Rom : \A a \in R : Succ[a] \cap Rom \subseteq R}
MarksOf ==
  [R \in ClosedSets |-> {Index(a) : a \in R \cup UNION {Succ[a] : a \in R}}]

Entries == {Join(indirect[i].lo, indirect[i].hi) :
              i \in {j \in 1..IndirectMax : indirect[j].type # "empty"}}
Seeds == {Vectors[i] : i \in 1..3} \cup Entries

(* "A known instruction head" (the guard of run_6502): every bit that is
   clear stands for a PC that control flow leads to from the vectors and the
   listed targets, or for one that a JMP ($xxxx) was resolved to.  Bits that
   stand for operands or data would let run_6502 program garbage.          *)
KnownIsReachable ==
  header => \A R \in ClosedSets : Seeds \cap Rom \subseteq R =>
    known \subseteq MarksOf[R] \cup {Index(t) : t \in Resolved}

(* Once the guest runs, what follows an instruction that is known is known
   too, unless the instruction was dropped by the full queue, cut off by a
   reset, or never walked because it was resolved at run time.             *)
Explored(a) == \A n \in Succ[a] : Index(n) \in known
WalkComplete ==
  stage = "run" =>
    \A a \in Rom : Index(a) \in known \ lost => Explored(a)

(* Every JSR the walk came to has its target in the table, unless the table
   is full: the target can be called natively after this boot.             *)
Recorded(t) == \E i \in 1..SubroutineMax : SlotHolds(subs[i], t)
CallsRecorded ==
  stage = "run" => \A a \in Rom :
    Index(a) \in known \ lost /\ Insn[a].kind = "call" =>
      \/ Recorded(Insn[a].target)
      \/ \A i \in 1..SubroutineMax : ~SlotEmpty(subs[i])

(* sa_subroutine_lookup: the flags of the first slot that holds t, of the
   slots in front of the first empty one.                                *)
LookupSlot(t) ==
  {i \in 1..SubroutineMax :
     /\ SlotHolds(subs[i], t) /\ ~SlotEmpty(subs[i])
     /\ \A j \in 1..(i - 1) : ~SlotEmpty(subs[j]) /\ ~SlotHolds(subs[j], t)}

(* A target that the lookup reports as clean, to be called natively, is one:
   torn, shared and rewritten table slots never pass the flags of one
   subroutine to another.                                                 *)
LookupFaithful ==
  header => \A t \in GuestCalls : \A i \in LookupSlot(t) :
    subs[i].flags \in {"empty", Safety(t)}

(* The walk ends, whatever loops the ROM holds. *)
WalkTerminates == (stage = "seed") ~> (stage \in {"run", "off"})

=============================================================================
