---------------------------- MODULE SaWalkProofs ----------------------------
(***************************************************************************)
(* Proofs about SaWalk, for every ROM, bitmap, queue and table size.       *)
(***************************************************************************)
EXTENDS SaWalk, WellFoundedInduction, TLAPS

Bit == 0..(BitmapSize - 1)

-----------------------------------------------------------------------------
(* Arithmetic of addresses. *)

(* Every address has a bit in the bitmap. *)
LEMMA IndexInBitmap == \A a \in Nat : Index(a) \in Bit
  BY WalkAssumption DEF Index, Bit

(* No two PCs in ROM share a bit. *)
LEMMA IndexInjective == \A a, b \in Rom : Index(a) = Index(b) => a = b
<1> SUFFICES ASSUME NEW a \in Rom, NEW b \in Rom, Index(a) = Index(b), b < a
             PROVE  FALSE
  BY WalkAssumption DEF Rom, Addr
<1>1. a \in Nat /\ b \in Nat /\ a - b \in 1..(BitmapSize - 1)
  BY WalkAssumption DEF Rom, Addr
<1> DEFINE q == a \div BitmapSize
           p == b \div BitmapSize
           r == a % BitmapSize
<1>2. a = BitmapSize * q + r /\ b = BitmapSize * p + r /\ q \in Nat /\ p \in Nat /\ r \in Nat
  BY <1>1, WalkAssumption DEF Index
<1> HIDE DEF q, p, r
<1>3. a - b = BitmapSize * (q - p)
  BY <1>2, WalkAssumption
<1>4. q - p \in Int /\ BitmapSize * (q - p) \in 1..(BitmapSize - 1)
  BY <1>1, <1>2, <1>3
<1>5. CASE q - p <= 0
  BY <1>4, <1>5, WalkAssumption
<1>6. CASE q - p >= 1
  BY <1>4, <1>6, WalkAssumption
<1> QED BY <1>4, <1>5, <1>6

(* The two bytes of an address are bytes. *)
LEMMA BytesOfAddress == \A a \in Addr : Lo(a) \in Byte /\ Hi(a) \in Byte
<1> SUFFICES ASSUME NEW a \in Addr PROVE Lo(a) \in Byte /\ Hi(a) \in Byte
  OBVIOUS
<1>1. a \in Nat /\ a < PageSize * PageSize
  BY WalkAssumption DEF Addr
<1>2. Lo(a) \in Byte
  BY <1>1, WalkAssumption DEF Lo, Byte
<1> DEFINE q == a \div PageSize
           r == a % PageSize
<1>3. a = PageSize * q + r /\ q \in Nat /\ r \in Nat
  BY <1>1, WalkAssumption
<1> HIDE DEF q, r
<1>4. q < PageSize
  BY <1>1, <1>3, WalkAssumption
<1> QED BY <1>2, <1>3, <1>4, WalkAssumption DEF Hi, Byte, q

LEMMA PlusInNat == \A a \in Addr, n \in Nat : Plus(a, n) \in Nat
<1> SUFFICES ASSUME NEW a \in Addr, NEW n \in Nat PROVE Plus(a, n) \in Nat
  OBVIOUS
<1> DEFINE N == PageSize * PageSize
<1>1. N \in Nat \ {0} /\ a + n \in Nat
  BY WalkAssumption DEF Addr
<1> HIDE DEF N
<1>2. (a + n) % N \in Nat
  BY <1>1
<1> QED BY <1>2 DEF Plus, N

-----------------------------------------------------------------------------
(* The parts of the inductive invariant. *)

InWalk   == stage \in {"walk", "call_high", "call"}
Queued(a) == \E i \in DOMAIN queue : queue[i] = a

(* Where the walk is: the queue and the PC belong to a walk, a JSR is being
   recorded only at a JSR, and table writes hit a slot that exists.        *)
ControlInv ==
  /\ ~InWalk => cur = NoAddr
  /\ ~InWalk /\ stage # "seed" => queue = <<>>
  /\ stage \in {"call_high", "call"} =>
       /\ cur \in Rom /\ Insn[cur].kind = "call"
       /\ Insn[cur].target \in Rom => Index(Insn[cur].target) \in known
  /\ stage \in {"call_high", "sub_high"} => index \in 1..SubroutineMax
  /\ stage \in {"target_high", "target_type", "target_mark"} =>
       index \in 1..IndirectMax
  /\ stage \in {"target_high", "target_type"} => indirect[index].type = "empty"
  /\ stage \in {"target_high", "target_type", "target_mark"} => arg \in Resolved
  /\ stage \notin {"off", "header"} => header
  /\ stage = "header" => known = {} /\ lost = {}

(* What waits to be walked is marked already. *)
PendingMarked ==
  /\ \A i \in DOMAIN queue : Index(queue[i]) \in known
  /\ cur # NoAddr => Index(cur) \in known

(* KnownIsReachable, with the queue and the PC of the walk. *)
ReachInv ==
  header => \A R \in ClosedSets : Seeds \cap Rom \subseteq R =>
    /\ known \subseteq MarksOf[R] \cup {Index(t) : t \in Resolved}
    /\ \A i \in DOMAIN queue : queue[i] \in R
    /\ cur # NoAddr => cur \in R

(* WalkComplete at any time: what is marked and not lost has been walked, is
   being walked or is in the queue.                                        *)
CompleteInv ==
  header => \A a \in Rom :
    Index(a) \in known \ lost => Queued(a) \/ a = cur \/ Explored(a)

IInv == TypeOK /\ ControlInv /\ PendingMarked /\ ReachInv /\ CompleteInv

-----------------------------------------------------------------------------
(* What sa_enqueue_if_valid does to the queue, the bitmap and the history. *)
LEMMA EnqueueEffect ==
  ASSUME TypeOK, NEW t \in Addr
  PROVE  /\ Pushed(t) \in Seq(Rom) /\ Len(Pushed(t)) <= QueueSlots
         /\ Enqueued(t) \subseteq Bit /\ Dropped(t) \subseteq Enqueued(t)
         /\ Enqueued(t) # {} => t \in Rom /\ Enqueued(t) = {Index(t)}
         /\ \A i \in DOMAIN queue :
              i \in DOMAIN Pushed(t) /\ Pushed(t)[i] = queue[i]
         /\ \A i \in DOMAIN Pushed(t) :
              \/ i \in DOMAIN queue /\ Pushed(t)[i] = queue[i]
              \/ Enqueued(t) # {} /\ Pushed(t)[i] = t
         /\ Enqueued(t) # {} =>
              \/ Dropped(t) = {Index(t)}
              \/ \E i \in DOMAIN Pushed(t) : Pushed(t)[i] = t
<1> DEFINE q == Append(queue, t)
<1>1. t \in Nat /\ Index(t) \in Bit
  BY IndexInBitmap DEF Addr
<1>2. queue \in Seq(Rom) /\ Len(queue) \in Nat /\ Len(queue) <= QueueSlots
  BY DEF TypeOK
<1>3. CASE Wanted(t) /\ ~QueueFull
  <2>1. t \in Rom /\ Pushed(t) = q /\ Enqueued(t) = {Index(t)} /\ Dropped(t) = {}
    BY <1>3 DEF Pushed, Enqueued, Dropped, Wanted
  <2>2. q \in Seq(Rom) /\ Len(q) = Len(queue) + 1 /\ q[Len(queue) + 1] = t
    BY <2>1, <1>2
  <2>3. \A i \in 1..Len(queue) : q[i] = queue[i]
    BY <2>1, <1>2
  <2>4. Len(queue) + 1 <= QueueSlots
    BY <1>2, <1>3, WalkAssumption DEF QueueFull
  <2> HIDE DEF q
  <2>5. DOMAIN q = 1..(Len(queue) + 1) /\ DOMAIN queue = 1..Len(queue)
    BY <2>2, <1>2
  <2>6. \A i \in DOMAIN q : (i \in DOMAIN queue /\ q[i] = queue[i]) \/ q[i] = t
    BY <2>2, <2>3, <2>5, <1>2
  <2>7. Len(queue) + 1 \in DOMAIN q /\ \A i \in DOMAIN queue : i \in DOMAIN q
    BY <2>5, <1>2
  <2> QED BY <1>1, <2>1, <2>2, <2>3, <2>4, <2>5, <2>6, <2>7
<1>4. CASE Wanted(t) /\ QueueFull
  BY <1>1, <1>2, <1>4 DEF Pushed, Enqueued, Dropped, Wanted
<1>5. CASE ~Wanted(t)
  BY <1>1, <1>2, <1>5 DEF Pushed, Enqueued, Dropped
<1> QED BY <1>3, <1>4, <1>5

(* What going on behind an instruction does. *)
LEMMA ContinueEffect ==
  ASSUME TypeOK, NEW n \in Nat
  PROVE  /\ Continued(n) \subseteq Bit /\ Stray(n) \subseteq Continued(n)
         /\ GoOn(n) \in Rom \cup {NoAddr}
         /\ GoOn(n) # NoAddr =>
              GoOn(n) = n /\ n \in Rom /\ Continued(n) = {Index(n)}
         /\ Continued(n) \subseteq known \cup Stray(n)
                                     \cup (IF n \in Rom THEN {Index(n)} ELSE {})
         /\ n \in Rom => GoOn(n) = n
<1>1. Index(n) \in Bit
  BY IndexInBitmap
<1>2. n \in Rom => n <= RomMax
  BY WalkAssumption DEF Rom, Addr
<1>3. Continued(n) = {} \/ Continued(n) = {Index(n)}
  BY DEF Continued
<1>4. n \in Rom => Continued(n) = {Index(n)}
  BY <1>2 DEF Continued
<1>5. GoOn(n) = IF n \in Rom THEN n ELSE NoAddr
  BY DEF GoOn
<1>6. Stray(n) = IF n \notin Rom THEN Continued(n) \ known ELSE {}
  BY DEF Stray
<1> QED BY <1>1, <1>3, <1>4, <1>5, <1>6

(* ROM addresses are addresses, and none of them is NoAddr. *)
LEMMA RomFacts ==
  /\ Rom \subseteq Addr /\ Addr \subseteq Nat
  /\ NoAddr \notin Rom
  /\ \A a \in Rom : /\ Insn[a].kind \in InsnKinds /\ Insn[a].len \in 1..3
                    /\ Insn[a].target \in Addr
<1>1. RomMin \in Nat /\ RomMax \in Nat
  BY WalkAssumption DEF Addr
<1>2. PageSize * PageSize \in Nat
  BY WalkAssumption
<1> QED BY <1>1, <1>2, WalkAssumption DEF Rom, Addr, NoAddr

(* The PCs an instruction can be followed by, at the current PC. *)
LEMMA FollowInNat ==
  \A a \in Rom : /\ NotTaken(a) \in Nat /\ Plus(a, 3) \in Nat
                /\ Plus(a, Insn[a].len) \in Nat
<1> SUFFICES ASSUME NEW a \in Rom
             PROVE /\ NotTaken(a) \in Nat /\ Plus(a, 3) \in Nat
                   /\ Plus(a, Insn[a].len) \in Nat
  OBVIOUS
<1>1. a \in Addr /\ Insn[a].len \in Nat
  BY RomFacts
<1> QED BY <1>1, PlusInNat DEF NotTaken

-----------------------------------------------------------------------------
LEMMA InitIInv == Init => IInv
<1> SUFFICES ASSUME Init PROVE IInv
  OBVIOUS
<1>1. 0 \in Byte /\ Empty \in Byte /\ 0 \in Addr
  BY WalkAssumption DEF Byte, Empty, Addr
<1>2. indirect \in [1..IndirectMax ->
                      [lo : Byte, hi : Byte, type : {"empty", "jmp_ind"}]]
  BY <1>1 DEF Init, NoTargets, BlankTarget
<1>3. subs \in [1..SubroutineMax ->
                  [lo : Byte, hi : Byte, flags : {"empty", "clean", "dirty"}]]
  BY <1>1 DEF Init, NoSubs, BlankSub
<1>4. queue \in Seq(Rom) /\ Len(queue) <= QueueSlots /\ DOMAIN queue = {}
  BY WalkAssumption DEF Init
<1>5. TypeOK
  <2>1. header \in BOOLEAN /\ known \subseteq 0..(BitmapSize - 1)
        /\ lost \subseteq known /\ stage \in Stages
    BY DEF Init, Stages
  <2>2. cur \in Rom \cup {NoAddr} /\ index \in Nat \ {0} /\ arg \in Addr
    BY <1>1 DEF Init
  <2> QED BY <1>2, <1>3, <1>4, <2>1, <2>2 DEF TypeOK
<1>6. ControlInv
  BY DEF Init, ControlInv, InWalk
<1>7. PendingMarked
  BY <1>4 DEF Init, PendingMarked
<1> QED BY <1>5, <1>6, <1>7 DEF IInv, ReachInv, CompleteInv, Init

(* Programming a byte of a slot keeps the table a table. *)
LEMMA ProgramType ==
  ASSUME TypeOK, NEW i \in 1..SubroutineMax, NEW t \in Addr,
         ProgramLow(i, t) \/ ProgramHigh(i, t)
  PROVE  subs' \in [1..SubroutineMax ->
                 [lo : Byte, hi : Byte, flags : {"empty", "clean", "dirty"}]]
<1>1. subs[i] \in [lo : Byte, hi : Byte, flags : {"empty", "clean", "dirty"}]
  BY DEF TypeOK
<1>2. Lo(t) \in Byte /\ Hi(t) \in Byte
  BY BytesOfAddress
<1>3. AndBits(subs[i].lo, Lo(t)) \in Byte /\ AndBits(subs[i].hi, Hi(t)) \in Byte
  BY <1>1, <1>2, WalkAssumption
<1> QED BY <1>1, <1>3 DEF TypeOK, ProgramLow, ProgramHigh

LEMMA TypeStep == IInv /\ Next => TypeOK'
<1> SUFFICES ASSUME IInv, Next PROVE TypeOK'
  OBVIOUS
<1> USE DEF IInv
<1> TypeOK
  OBVIOUS
<1>1. CASE Boot
  <2>1. NoTargets \in [1..IndirectMax ->
                         [lo : Byte, hi : Byte, type : {"empty", "jmp_ind"}]]
    BY WalkAssumption DEF NoTargets, BlankTarget, Byte, Empty
  <2>2. NoSubs \in [1..SubroutineMax ->
                 [lo : Byte, hi : Byte, flags : {"empty", "clean", "dirty"}]]
    BY WalkAssumption DEF NoSubs, BlankSub, Byte, Empty
  <2>3. CASE header
    <3>1. stage' = "seed" /\ UNCHANGED <<flash, lost>>
      BY <1>1, <2>3 DEF Boot
    <3>2. index' = 1 /\ queue' = queue /\ cur' = cur /\ arg' = arg
      BY <1>1 DEF Boot
    <3> QED BY <3>1, <3>2 DEF TypeOK, flash, Stages
  <2>4. CASE ~header
    <3>1. header' = header /\ known' = {} /\ lost' = {}
          /\ indirect' = NoTargets /\ subs' = NoSubs /\ stage' = "header"
      BY <1>1, <2>4 DEF Boot
    <3>2. index' = 1 /\ queue' = queue /\ cur' = cur /\ arg' = arg
      BY <1>1 DEF Boot
    <3> QED BY <2>1, <2>2, <3>1, <3>2 DEF TypeOK, Stages
  <2> QED BY <2>3, <2>4
<1>2. CASE WriteHeader
  BY <1>2 DEF WriteHeader, TypeOK, Stages
<1>3. CASE Seed
  <2>1. CASE SeedAddr \in Addr
    <3>1. /\ known' \subseteq Bit /\ lost' \subseteq known'
          /\ queue' \in Seq(Rom) /\ Len(queue') <= QueueSlots
      BY <1>3, <2>1, EnqueueEffect DEF Seed, TypeOK, Bit
    <3>2. index' \in Nat \ {0}
      BY <1>3 DEF Seed, TypeOK
    <3> QED BY <1>3, <3>1, <3>2 DEF Seed, TypeOK, Bit
  <2>2. CASE SeedAddr \notin Addr
    <3>1. SeedAddr \notin Rom
      BY <2>2, RomFacts
    <3>2. ~Wanted(SeedAddr)
      BY <3>1 DEF Wanted
    <3>3. Enqueued(SeedAddr) = {} /\ Dropped(SeedAddr) = {} /\ Pushed(SeedAddr) = queue
      BY <3>2 DEF Enqueued, Dropped, Pushed
    <3> QED BY <1>3, <3>3 DEF Seed, TypeOK
  <2> QED BY <2>1, <2>2
<1>4. CASE SeedsDone
  BY <1>4 DEF SeedsDone, TypeOK, Stages, flash
<1>5. CASE NextPath
  <2>1. Tail(queue) \in Seq(Rom) /\ Len(Tail(queue)) <= QueueSlots
    BY <1>5, WalkAssumption DEF NextPath, TypeOK
  <2>2. GoOn(Head(queue)) \in Rom \cup {NoAddr}
    BY DEF GoOn
  <2> QED BY <1>5, <2>1, <2>2 DEF NextPath, TypeOK, Stages, flash
<1>6. CASE WalkStop
  BY <1>6 DEF WalkStop, TypeOK, flash
<1>7. CASE WalkJump
  <2>1. cur \in Rom /\ Insn[cur].target \in Addr
    BY <1>7, RomFacts DEF WalkJump, Walking
  <2> QED BY <1>7, <2>1, EnqueueEffect DEF WalkJump, TypeOK, Bit
<1>8. CASE WalkBranch
  <2>1. cur \in Rom /\ Insn[cur].target \in Addr /\ NotTaken(cur) \in Nat
    BY <1>8, RomFacts, FollowInNat DEF WalkBranch, Walking
  <2> QED BY <1>8, <2>1, EnqueueEffect, ContinueEffect DEF WalkBranch, TypeOK, Bit
<1>9. CASE WalkOther
  <2>1. cur \in Rom /\ Plus(cur, Insn[cur].len) \in Nat
    BY <1>9, FollowInNat DEF WalkOther, Walking
  <2> QED BY <1>9, <2>1, ContinueEffect DEF WalkOther, TypeOK, Bit
<1>10. CASE WalkCall
  <2>1. cur \in Rom /\ Insn[cur].target \in Addr
    BY <1>10, RomFacts DEF WalkCall, Walking
  <2>2. known' \subseteq Bit /\ lost' \subseteq known'
        /\ queue' \in Seq(Rom) /\ Len(queue') <= QueueSlots
    BY <1>10, <2>1, EnqueueEffect DEF WalkCall, TypeOK, Bit
  <2>3. \/ stage' = "call" /\ UNCHANGED <<subs, index>>
        \/ \E i \in 1..SubroutineMax : /\ ProgramLow(i, Insn[cur].target)
                                      /\ index' = i /\ stage' = "call_high"
    BY <1>10 DEF WalkCall, SlotFor
  <2>4. /\ subs' \in [1..SubroutineMax ->
                 [lo : Byte, hi : Byte, flags : {"empty", "clean", "dirty"}]]
        /\ index' \in Nat \ {0}
    BY <2>1, <2>3, ProgramType DEF TypeOK
  <2> QED BY <1>10, <2>2, <2>3, <2>4 DEF WalkCall, TypeOK, Stages, Bit
<1>11. CASE CallHigh
  <2>1. cur \in Rom /\ Insn[cur].target \in Addr /\ index \in 1..SubroutineMax
    BY <1>11, RomFacts DEF CallHigh, ControlInv
  <2> QED BY <1>11, <2>1, ProgramType DEF CallHigh, TypeOK, Stages
<1>12. CASE WalkReturn
  <2>1. cur \in Rom /\ Plus(cur, 3) \in Nat
    BY <1>12, FollowInNat DEF WalkReturn, ControlInv
  <2> QED BY <1>12, <2>1, ContinueEffect DEF WalkReturn, TypeOK, Bit, Stages
<1>13. CASE WalkEnd
  BY <1>13 DEF WalkEnd, TypeOK, Stages, flash
<1>14. CASE Analyze
  <2> DEFINE e == subs[index]
             Entry == [lo : Byte, hi : Byte, flags : {"empty", "clean", "dirty"}]
             f == IF e.flags = "empty" THEN Safety(Join(e.lo, e.hi)) ELSE e.flags
  <2>1. index \in 1..SubroutineMax /\ subs \in [1..SubroutineMax -> Entry]
    BY <1>14 DEF Analyze, MoreSubs, TypeOK
  <2>2. e \in Entry
    BY <2>1
  <2>3. f \in {"empty", "clean", "dirty"}
    BY <2>2 DEF Safety
  <2>4. [e EXCEPT !.flags = f] \in Entry
    BY <2>2, <2>3
  <2>5. subs' = [subs EXCEPT ![index] = [e EXCEPT !.flags = f]]
    BY <1>14 DEF Analyze
  <2>6. subs' \in [1..SubroutineMax -> Entry]
    BY <2>1, <2>4, <2>5
  <2> QED BY <1>14, <2>6 DEF Analyze, TypeOK
<1>15. CASE AnalyzeEnd
  BY <1>15 DEF AnalyzeEnd, TypeOK, Stages, flash
<1>16. ASSUME NEW t \in Addr, RecordSubroutine(t) PROVE TypeOK'
  <2>1. PICK i \in 1..SubroutineMax : ProgramLow(i, t) /\ index' = i
    BY <1>16 DEF RecordSubroutine, SlotFor
  <2> QED BY <1>16, <2>1, ProgramType DEF RecordSubroutine, TypeOK, Stages
<1>17. ASSUME NEW t \in Addr, RecordIndirect(t) PROVE TypeOK'
  <2>1. PICK i \in 1..IndirectMax :
          /\ indirect' = [indirect EXCEPT ![i].lo = AndBits(@, Lo(t))]
          /\ index' = i
    BY <1>17 DEF RecordIndirect, FreeEntry, ListEnd
  <2>2. AndBits(indirect[i].lo, Lo(t)) \in Byte
    BY BytesOfAddress, WalkAssumption DEF TypeOK
  <2>3. indirect' \in [1..IndirectMax ->
                         [lo : Byte, hi : Byte, type : {"empty", "jmp_ind"}]]
    BY <2>1, <2>2 DEF TypeOK
  <2> QED BY <1>17, <2>1, <2>3 DEF RecordIndirect, TypeOK, Stages
<1>18. CASE SubroutineHigh
  <2>1. index \in 1..SubroutineMax /\ arg \in Addr
    BY <1>18 DEF SubroutineHigh, ControlInv, TypeOK
  <2> QED BY <1>18, <2>1, ProgramType DEF SubroutineHigh, TypeOK, Stages
<1>19. CASE IndirectHigh
  <2>1. index \in 1..IndirectMax /\ arg \in Addr
    BY <1>19 DEF IndirectHigh, ControlInv, TypeOK
  <2>2. AndBits(indirect[index].hi, Hi(arg)) \in Byte
    BY <2>1, BytesOfAddress, WalkAssumption DEF TypeOK
  <2>3. indirect' \in [1..IndirectMax ->
                         [lo : Byte, hi : Byte, type : {"empty", "jmp_ind"}]]
    BY <1>19, <2>1, <2>2 DEF IndirectHigh, TypeOK
  <2> QED BY <1>19, <2>3 DEF IndirectHigh, TypeOK, Stages
<1>20. CASE IndirectType
  BY <1>20 DEF IndirectType, TypeOK, Stages
<1>21. CASE IndirectMark
  <2>1. Index(arg) \in Bit
    BY IndexInBitmap, RomFacts DEF TypeOK
  <2> QED BY <1>21, <2>1 DEF IndirectMark, TypeOK, Stages, Bit
<1>22. CASE Reset
  <2>1. lost' \subseteq known
    <3>1. {Index(queue[i]) : i \in DOMAIN queue} \subseteq known
      BY DEF PendingMarked
    <3>2. (IF cur = NoAddr THEN {} ELSE {Index(cur)}) \subseteq known
      BY DEF PendingMarked
    <3> QED BY <1>22, <3>1, <3>2 DEF Reset, TypeOK
  <2>2. 0 \in Addr /\ <<>> \in Seq(Rom) /\ Len(<<>>) <= QueueSlots
    BY WalkAssumption DEF Addr
  <2> QED BY <1>22, <2>1, <2>2 DEF Reset, TypeOK, Stages, flash
<1> QED
  BY <1>1, <1>2, <1>3, <1>4, <1>5, <1>6, <1>7, <1>8, <1>9, <1>10, <1>11,
     <1>12, <1>13, <1>14, <1>15, <1>16, <1>17, <1>18, <1>19, <1>20, <1>21,
     <1>22 DEF Next, BootStep, RunStep

-----------------------------------------------------------------------------
LEMMA ControlStep == IInv /\ Next => ControlInv'
<1> SUFFICES ASSUME IInv, Next PROVE ControlInv'
  OBVIOUS
<1> USE DEF ControlInv, InWalk
<1>0. ControlInv /\ TypeOK
  BY DEF IInv
<1>1. CASE Boot
  <2>1. CASE header
    BY <1>0, <1>1, <2>1 DEF Boot, flash
  <2>2. CASE ~header
    BY <1>0, <1>1, <2>2 DEF Boot
  <2> QED BY <2>1, <2>2
<1>2. CASE WriteHeader \/ Seed \/ SeedsDone \/ NextPath
  BY <1>0, <1>2 DEF WriteHeader, Seed, SeedsDone, NextPath, flash
<1>3. CASE WalkStop \/ WalkJump \/ WalkBranch \/ WalkOther
  BY <1>0, <1>3 DEF WalkStop, WalkJump, WalkBranch, WalkOther, Walking, flash
<1>4. CASE WalkCall
  BY <1>0, <1>4 DEF WalkCall, Walking, SlotFor, Enqueued, Wanted
<1>5. CASE CallHigh \/ WalkReturn \/ WalkEnd \/ Analyze \/ AnalyzeEnd
  BY <1>0, <1>5 DEF CallHigh, WalkReturn, WalkEnd, Analyze, AnalyzeEnd, flash
<1>6. ASSUME NEW t \in Addr, RecordSubroutine(t) PROVE ControlInv'
  BY <1>0, <1>6 DEF RecordSubroutine, SlotFor
<1>7. ASSUME NEW t \in Addr, RecordIndirect(t) PROVE ControlInv'
  <2>1. PICK i \in 1..IndirectMax :
          /\ indirect[i].type = "empty"
          /\ indirect' = [indirect EXCEPT ![i].lo = AndBits(@, Lo(t))]
          /\ index' = i
    BY <1>7 DEF RecordIndirect, FreeEntry, ListEnd
  <2>2. indirect'[i].type = "empty"
    BY <1>0, <2>1 DEF TypeOK
  <2> QED BY <1>0, <1>7, <2>1, <2>2 DEF RecordIndirect
<1>8. CASE SubroutineHigh \/ IndirectType \/ IndirectMark
  BY <1>0, <1>8 DEF SubroutineHigh, IndirectType, IndirectMark
<1>9. CASE IndirectHigh
  <2>1. indirect'[index].type = "empty"
    BY <1>0, <1>9 DEF IndirectHigh, TypeOK
  <2> QED BY <1>0, <1>9, <2>1 DEF IndirectHigh
<1>10. CASE Reset
  BY <1>0, <1>10 DEF Reset, flash
<1> QED
  BY <1>1, <1>2, <1>3, <1>4, <1>5, <1>6, <1>7, <1>8, <1>9, <1>10
     DEF Next, BootStep, RunStep

(* Steps that leave the bitmap and the walk alone. *)
QuietStep == UNCHANGED <<known, queue, cur, lost>>

(* What waits to be walked stays marked. *)
LEMMA PendingStep == IInv /\ Next => PendingMarked'
<1> SUFFICES ASSUME IInv, Next PROVE PendingMarked'
  OBVIOUS
<1>0. PendingMarked /\ ControlInv /\ TypeOK
  BY DEF IInv
<1> USE DEF PendingMarked
<1>1. CASE QuietStep
  BY <1>0, <1>1 DEF QuietStep
<1>2. CASE queue' = <<>> /\ cur' = NoAddr
  BY <1>2
<1>3. ASSUME NEW t, queue' = Pushed(t), known' = known \cup Enqueued(t),
             cur' = cur \/ cur' = NoAddr
      PROVE  PendingMarked'
  <2>1. CASE t \in Addr
    BY <1>0, <1>3, <2>1, EnqueueEffect
  <2>2. CASE t \notin Addr
    BY <1>0, <1>3, <2>2, RomFacts DEF Pushed, Enqueued, Wanted
  <2> QED BY <2>1, <2>2
<1>4. CASE NextPath
  <2>1. queue # <<>> /\ queue \in Seq(Rom)
    BY <1>0, <1>4 DEF NextPath, TypeOK
  <2>2. Head(queue) = queue[1] /\ 1 \in DOMAIN queue
        /\ \A i \in DOMAIN Tail(queue) :
             i + 1 \in DOMAIN queue /\ Tail(queue)[i] = queue[i + 1]
    BY <2>1
  <2>3. cur' = NoAddr \/ cur' = queue[1]
    BY <1>4, <2>2 DEF NextPath, GoOn
  <2> QED BY <1>0, <1>4, <2>2, <2>3 DEF NextPath, flash
<1>5. CASE WalkBranch
  <2>1. cur \in Rom /\ Insn[cur].target \in Addr /\ NotTaken(cur) \in Nat
    BY <1>5, RomFacts, FollowInNat DEF WalkBranch, Walking
  <2> QED BY <1>0, <1>5, <2>1, EnqueueEffect, ContinueEffect DEF WalkBranch
<1>6. CASE WalkOther
  <2>1. cur \in Rom /\ Plus(cur, Insn[cur].len) \in Nat
    BY <1>6, FollowInNat DEF WalkOther, Walking
  <2> QED BY <1>0, <1>6, <2>1, ContinueEffect DEF WalkOther
<1>7. CASE WalkReturn
  <2>1. cur \in Rom /\ Plus(cur, 3) \in Nat
    BY <1>0, <1>7, FollowInNat DEF WalkReturn, ControlInv
  <2> QED BY <1>0, <1>7, <2>1, ContinueEffect DEF WalkReturn
<1>8. CASE Boot
  BY <1>0, <1>2, <1>8 DEF Boot, ControlInv, InWalk
<1>9. CASE Seed \/ WalkJump \/ WalkCall
  BY <1>3, <1>9 DEF Seed, WalkJump, WalkCall
<1>10. CASE WalkStop
  BY <1>0, <1>10 DEF WalkStop, flash
<1>11. CASE IndirectMark
  BY <1>0, <1>11 DEF IndirectMark
<1>12. CASE Reset
  BY <1>2, <1>12 DEF Reset
<1>13. CASE WriteHeader \/ SeedsDone \/ CallHigh \/ WalkEnd \/ Analyze \/ AnalyzeEnd
  BY <1>1, <1>13 DEF WriteHeader, SeedsDone, CallHigh, WalkEnd, Analyze,
                     AnalyzeEnd, QuietStep, flash
<1>14. ASSUME NEW t \in Addr, RecordSubroutine(t) \/ RecordIndirect(t)
       PROVE  QuietStep
  BY <1>14 DEF RecordSubroutine, RecordIndirect, QuietStep
<1>15. CASE SubroutineHigh \/ IndirectHigh \/ IndirectType
  BY <1>1, <1>15 DEF SubroutineHigh, IndirectHigh, IndirectType, QuietStep
<1> QED
  BY <1>1, <1>4, <1>5, <1>6, <1>7, <1>8, <1>9, <1>10, <1>11, <1>12, <1>13,
     <1>14, <1>15 DEF Next, BootStep, RunStep

-----------------------------------------------------------------------------
(* A step that is none of the walk's keeps the bitmap, the queue and the PC,
   apart from a reset and a target resolved at run time.                    *)
LEMMA StepKinds ==
  ASSUME IInv, Next, header'
  PROVE  \/ WriteHeader \/ Seed \/ NextPath
         \/ WalkStop \/ WalkJump \/ WalkBranch \/ WalkOther
         \/ WalkCall \/ WalkReturn \/ IndirectMark \/ Reset
         \/ QuietStep
<1>1. CASE Boot
  BY <1>1 DEF Boot, QuietStep, flash
<1>2. CASE SeedsDone \/ CallHigh \/ WalkEnd \/ Analyze \/ AnalyzeEnd
  BY <1>2 DEF SeedsDone, CallHigh, WalkEnd, Analyze, AnalyzeEnd, QuietStep, flash
<1>3. ASSUME NEW t \in Addr, RecordSubroutine(t) \/ RecordIndirect(t)
      PROVE  QuietStep
  BY <1>3 DEF RecordSubroutine, RecordIndirect, QuietStep
<1>4. CASE SubroutineHigh \/ IndirectHigh \/ IndirectType
  BY <1>4 DEF SubroutineHigh, IndirectHigh, IndirectType, QuietStep
<1> QED BY <1>1, <1>2, <1>3, <1>4 DEF Next, BootStep, RunStep

(* Only the writing of the header makes a region valid. *)
LEMMA HeaderStep == IInv /\ Next /\ header' => header \/ WriteHeader
<1> SUFFICES ASSUME IInv, Next, header', ~WriteHeader PROVE header
  OBVIOUS
<1>1. header' = header
  BY DEF Next, BootStep, RunStep, Boot, Seed, SeedsDone, NextPath, WalkStop,
     WalkJump, WalkBranch, WalkOther, WalkCall, CallHigh, WalkReturn, WalkEnd,
     Analyze, AnalyzeEnd, RecordSubroutine, RecordIndirect, SubroutineHigh,
     IndirectHigh, IndirectType, IndirectMark, Reset, flash
<1> QED BY <1>1

(* A complete entry of the list keeps its address. *)
LEMMA SeedsGrow == IInv /\ Next /\ header => Seeds \subseteq Seeds'
<1> SUFFICES ASSUME IInv, Next, header PROVE Entries \subseteq Entries'
  BY DEF Seeds
<1>0. TypeOK /\ ControlInv
  BY DEF IInv
<1> DEFINE Done(f) == {j \in 1..IndirectMax : f[j].type # "empty"}
<1>1. ASSUME \A j \in Done(indirect) :
               /\ indirect'[j].lo = indirect[j].lo
               /\ indirect'[j].hi = indirect[j].hi
               /\ indirect'[j].type = indirect[j].type
      PROVE  Entries \subseteq Entries'
  BY <1>1 DEF Entries
<1>2. CASE UNCHANGED indirect
  BY <1>1, <1>2
<1>3. ASSUME NEW t \in Addr, RecordIndirect(t) PROVE Entries \subseteq Entries'
  <2>1. PICK i \in 1..IndirectMax :
          /\ indirect[i].type = "empty"
          /\ indirect' = [indirect EXCEPT ![i].lo = AndBits(@, Lo(t))]
    BY <1>3 DEF RecordIndirect, FreeEntry, ListEnd
  <2> QED BY <1>0, <1>1, <2>1 DEF TypeOK
<1>4. CASE IndirectHigh
  BY <1>0, <1>1, <1>4 DEF IndirectHigh, ControlInv, TypeOK
<1>5. CASE IndirectType
  BY <1>0, <1>1, <1>5 DEF IndirectType, ControlInv, TypeOK
<1>6. ASSUME NEW t \in Addr, RecordSubroutine(t) PROVE UNCHANGED indirect
  BY <1>6 DEF RecordSubroutine
<1>7. CASE BootStep \/ SubroutineHigh \/ IndirectMark \/ Reset
  BY <1>2, <1>7 DEF BootStep, Boot, WriteHeader, Seed, SeedsDone, NextPath,
     WalkStop, WalkJump, WalkBranch, WalkOther, WalkCall, CallHigh, WalkReturn,
     WalkEnd, Analyze, AnalyzeEnd, SubroutineHigh, IndirectMark, Reset, flash
<1> QED BY <1>2, <1>3, <1>4, <1>5, <1>6, <1>7 DEF Next, RunStep

(* Closed sets and their marks. *)
LEMMA ClosedMarks ==
  ASSUME NEW R \in ClosedSets
  PROVE  /\ R \subseteq Rom
         /\ \A a \in R : Index(a) \in MarksOf[R]
         /\ \A a \in R : \A n \in Succ[a] :
              Index(n) \in MarksOf[R] /\ (n \in Rom => n \in R)
<1>1. MarksOf[R] = {Index(a) : a \in R \cup UNION {Succ[a] : a \in R}}
  BY DEF MarksOf
<1>2. R \subseteq Rom /\ \A a \in R : Succ[a] \cap Rom \subseteq R
  BY DEF ClosedSets
<1>3. \A a \in R : \A n \in Succ[a] : n \in UNION {Succ[b] : b \in R}
  OBVIOUS
<1> QED BY <1>1, <1>2, <1>3

(* Where the walk can go from an instruction is in Succ. *)
LEMMA SuccCases ==
  ASSUME NEW a \in Rom
  PROVE  /\ Succ[a] = {n \in After(a) : n <= RomMax} \cup (Taken(a) \cap Rom)
         /\ Insn[a].kind \in {"jump", "branch", "call"} => Taken(a) = {Insn[a].target}
         /\ Insn[a].kind \notin {"jump", "branch", "call"} => Taken(a) = {}
         /\ Insn[a].kind = "branch" => After(a) = {NotTaken(a)}
         /\ Insn[a].kind = "call" => After(a) = {Plus(a, 3)}
         /\ Insn[a].kind = "other" => After(a) = {Plus(a, Insn[a].len)}
         /\ Insn[a].kind \in {"stop", "jump"} => After(a) = {}
<1>1. Succ[a] = {n \in After(a) : n <= RomMax} \cup (Taken(a) \cap Rom)
  BY DEF Succ
<1>2. /\ Insn[a].kind = "branch" => After(a) = {NotTaken(a)}
      /\ Insn[a].kind = "call" => After(a) = {Plus(a, 3)}
      /\ Insn[a].kind = "other" => After(a) = {Plus(a, Insn[a].len)}
      /\ Insn[a].kind \in {"stop", "jump"} => After(a) = {}
  BY DEF After, NotTaken
<1> QED BY <1>1, <1>2 DEF Taken

-----------------------------------------------------------------------------
LEMMA ReachStep == IInv /\ Next => ReachInv'
<1> DEFINE Code == {Index(t) : t \in Resolved}
           Reached(R, k, q, c) == /\ k \subseteq MarksOf[R] \cup Code
                                  /\ \A i \in DOMAIN q : q[i] \in R
                                  /\ c # NoAddr => c \in R
<1> SUFFICES ASSUME IInv, Next, header', NEW R \in ClosedSets,
                    Seeds' \cap Rom \subseteq R
             PROVE  Reached(R, known', queue', cur')
  BY DEF ReachInv
<1>0. TypeOK /\ ControlInv
  BY DEF IInv
<1>1. CASE WriteHeader
  <2>1. known' = {} /\ queue' = <<>> /\ cur' = NoAddr
    BY <1>0, <1>1 DEF WriteHeader, ControlInv, InWalk
  <2> QED BY <2>1
<1>2. ASSUME ~WriteHeader PROVE Reached(R, known', queue', cur')
  <2>1. header
    BY <1>2, HeaderStep
  <2>2. Seeds \cap Rom \subseteq R
    BY <2>1, SeedsGrow
  <2>3. Reached(R, known, queue, cur)
    BY <2>1, <2>2 DEF IInv, ReachInv
  <2>4. ASSUME NEW t \in Addr, t \in Rom => t \in R
        PROVE  /\ known \cup Enqueued(t) \subseteq MarksOf[R] \cup Code
               /\ \A i \in DOMAIN Pushed(t) : Pushed(t)[i] \in R
    BY <1>0, <2>3, <2>4, EnqueueEffect, ClosedMarks
  <2>5. ASSUME NEW n \in Nat, cur \in R, n \in Succ[cur] \/ n > RomMax
        PROVE  /\ Continued(n) \subseteq MarksOf[R]
               /\ GoOn(n) # NoAddr => GoOn(n) \in R
    <3>1. RomMax \in Nat /\ (n > RomMax => n \notin Rom /\ ~(n <= RomMax))
      BY WalkAssumption DEF Rom, Addr
    <3>2. CASE n > RomMax
      BY <3>1, <3>2 DEF Continued, GoOn
    <3>3. CASE n \in Succ[cur]
      BY <2>5, <3>3, ClosedMarks DEF Continued, GoOn
    <3> QED BY <2>5, <3>2, <3>3
  <2>6. CASE Seed
    <3>1. SeedAddr \in Seeds
      <4>1. MoreSeeds /\ index \in Nat \ {0} /\ IndirectMax \in Nat
        BY <1>0, <2>6, WalkAssumption DEF Seed, TypeOK
      <4>2. CASE index <= 3
        <5>1. index \in 1..3 /\ SeedAddr = Vectors[index]
          BY <4>1, <4>2 DEF SeedAddr
        <5> QED BY <5>1 DEF Seeds
      <4>3. CASE ~(index <= 3)
        <5>1. index - 3 \in 1..IndirectMax /\ indirect[index - 3].type # "empty"
          BY <4>1, <4>3 DEF MoreSeeds
        <5>2. SeedAddr = Join(indirect[index - 3].lo, indirect[index - 3].hi)
          BY <4>3 DEF SeedAddr
        <5> QED BY <5>1, <5>2 DEF Seeds, Entries
      <4> QED BY <4>2, <4>3
    <3>2. CASE SeedAddr \in Addr
      BY <2>2, <2>3, <2>4, <2>6, <3>1, <3>2 DEF Seed
    <3>3. CASE SeedAddr \notin Addr
      BY <2>3, <2>6, <3>3, RomFacts DEF Seed, Enqueued, Pushed, Wanted
    <3> QED BY <3>2, <3>3
  <2>7. CASE NextPath
    <3>1. queue # <<>> /\ queue \in Seq(Rom)
      BY <1>0, <2>7 DEF NextPath, TypeOK
    <3>2. Head(queue) = queue[1] /\ 1 \in DOMAIN queue
          /\ \A i \in DOMAIN Tail(queue) :
               i + 1 \in DOMAIN queue /\ Tail(queue)[i] = queue[i + 1]
      BY <3>1
    <3>3. cur' = NoAddr \/ cur' = queue[1]
      BY <2>7, <3>2 DEF NextPath, GoOn
    <3> QED BY <2>3, <2>7, <3>2, <3>3 DEF NextPath, flash
  <2>8. CASE WalkStop
    BY <2>3, <2>8 DEF WalkStop, flash
  <2>9. ASSUME cur \in Rom, Insn[cur].kind \in {"jump", "branch", "call"}
        PROVE  /\ cur \in R /\ Insn[cur].target \in Addr
               /\ Insn[cur].target \in Rom => Insn[cur].target \in R
    BY <2>3, <2>9, RomFacts, SuccCases, ClosedMarks
  <2>10. ASSUME NEW n \in Nat, cur \in Rom, n \in After(cur)
         PROVE  cur \in R /\ (n \in Succ[cur] \/ n > RomMax)
    <3>1. cur \in R
      BY <2>3, <2>10, RomFacts
    <3>2. RomMax \in Nat
      BY WalkAssumption DEF Addr
    <3> QED BY <2>10, <3>1, <3>2, SuccCases
  <2>11. CASE WalkJump
    BY <2>3, <2>4, <2>9, <2>11 DEF WalkJump, Walking
  <2>12. CASE WalkBranch
    <3>1. cur \in Rom /\ Insn[cur].kind = "branch"
      BY <2>12 DEF WalkBranch, Walking
    <3>2. NotTaken(cur) \in Nat /\ NotTaken(cur) \in After(cur)
      BY <3>1, FollowInNat, SuccCases
    <3> QED BY <2>4, <2>5, <2>9, <2>10, <2>12, <3>1, <3>2 DEF WalkBranch
  <2>13. CASE WalkOther
    <3>1. cur \in Rom /\ Insn[cur].kind = "other"
      BY <2>13 DEF WalkOther, Walking
    <3>2. Plus(cur, Insn[cur].len) \in Nat /\ Plus(cur, Insn[cur].len) \in After(cur)
      BY <3>1, FollowInNat, SuccCases
    <3> QED BY <2>3, <2>5, <2>10, <2>13, <3>1, <3>2 DEF WalkOther
  <2>14. CASE WalkCall
    BY <2>3, <2>4, <2>9, <2>14 DEF WalkCall, Walking
  <2>15. CASE WalkReturn
    <3>1. cur \in Rom /\ Insn[cur].kind = "call"
      BY <1>0, <2>15 DEF WalkReturn, ControlInv
    <3>2. Plus(cur, 3) \in Nat /\ Plus(cur, 3) \in After(cur)
      BY <3>1, FollowInNat, SuccCases
    <3> QED BY <2>3, <2>5, <2>10, <2>15, <3>1, <3>2 DEF WalkReturn
  <2>16. CASE IndirectMark
    BY <1>0, <2>3, <2>16 DEF IndirectMark, ControlInv
  <2>17. CASE Reset
    BY <2>3, <2>17 DEF Reset, flash
  <2>18. CASE QuietStep
    BY <2>3, <2>18 DEF QuietStep
  <2> QED
    BY <1>2, <2>6, <2>7, <2>8, <2>11, <2>12, <2>13, <2>14, <2>15, <2>16, <2>17,
       <2>18, StepKinds
<1> QED BY <1>1, <1>2

(* What is marked and not lost after a step waits to be walked, was dealt
   with before the step, or is the instruction the walk leaves behind.     *)
LeavesCur == WalkStop \/ WalkJump \/ WalkBranch \/ WalkOther \/ WalkReturn
Finished(a) == Index(a) \in known \ lost /\ ~Queued(a) /\ a # cur

LEMMA WalkedBefore ==
  ASSUME IInv, Next, header', header, NEW a \in Rom, Index(a) \in known' \ lost'
  PROVE  \/ Queued(a)' \/ a = cur'
         \/ Finished(a)
         \/ a = cur /\ LeavesCur
<1>0. TypeOK /\ ControlInv /\ PendingMarked
  BY DEF IInv
<1>1. CASE WriteHeader
  BY <1>0, <1>1 DEF WriteHeader, ControlInv
<1>2. CASE ~WriteHeader
  <2>1. ASSUME NEW t \in Addr, queue' = Pushed(t), Dropped(t) \subseteq lost'
        PROVE  /\ Queued(a) => Queued(a)'
               /\ Index(a) \in Enqueued(t) => Queued(a)'
    <3>1. Queued(a) => Queued(a)'
      BY <1>0, <2>1, EnqueueEffect DEF Queued
    <3>2. Index(a) \in Enqueued(t) => a = t /\ Enqueued(t) # {}
      BY <1>0, <2>1, EnqueueEffect, IndexInjective
    <3>3. Index(a) \in Enqueued(t) => Queued(a)'
      BY <1>0, <2>1, <3>2, EnqueueEffect DEF Queued
    <3> QED BY <3>1, <3>3
  <2>2. ASSUME NEW n \in Nat, cur' = GoOn(n), Stray(n) \subseteq lost',
               Index(a) \in Continued(n), Index(a) \notin known
        PROVE  a = cur'
    <3>1. n \in Rom /\ Index(a) = Index(n) /\ GoOn(n) = n
      BY <1>0, <2>2, ContinueEffect
    <3> QED BY <2>2, <3>1, IndexInjective
  <2>3. cur \in Rom /\ Index(a) = Index(cur) => a = cur
    BY IndexInjective
  <2>4. CASE Seed
    <3>1. CASE SeedAddr \in Addr
      BY <2>1, <2>4, <3>1 DEF Seed, Finished
    <3>2. CASE SeedAddr \notin Addr
      <4>1. Enqueued(SeedAddr) = {} /\ Dropped(SeedAddr) = {} /\ Pushed(SeedAddr) = queue
        BY <3>2, RomFacts DEF Enqueued, Dropped, Pushed, Wanted
      <4> QED BY <2>4, <4>1 DEF Seed, Queued, Finished
    <3> QED BY <3>1, <3>2
  <2>5. CASE NextPath
    <3>1. queue # <<>> /\ queue \in Seq(Rom)
      BY <1>0, <2>5 DEF NextPath, TypeOK
    <3>2. Head(queue) = queue[1] /\ queue[1] \in Rom
          /\ \A i \in DOMAIN queue : i # 1 =>
               i - 1 \in DOMAIN Tail(queue) /\ Tail(queue)[i - 1] = queue[i]
      BY <3>1
    <3>3. cur' = queue[1]
      BY <2>5, <3>2 DEF NextPath, GoOn
    <3>4. Queued(a) => Queued(a)' \/ a = cur'
      BY <2>5, <3>2, <3>3 DEF NextPath, Queued
    <3>5. a # cur /\ known' = known /\ lost' = lost
      BY <2>5, RomFacts DEF NextPath, flash
    <3> QED BY <3>4, <3>5 DEF Finished
  <2>6. CASE WalkStop
    BY <2>3, <2>6 DEF WalkStop, Walking, LeavesCur, Finished, Queued, flash
  <2>7. CASE WalkJump
    <3>1. cur \in Rom /\ Insn[cur].target \in Addr
      BY <2>7, RomFacts DEF WalkJump, Walking
    <3> QED BY <2>1, <2>3, <2>7, <3>1 DEF WalkJump, LeavesCur, Finished
  <2>8. CASE WalkBranch
    <3>1. cur \in Rom /\ Insn[cur].target \in Addr /\ NotTaken(cur) \in Nat
      BY <2>8, RomFacts, FollowInNat DEF WalkBranch, Walking
    <3> QED BY <2>1, <2>2, <2>3, <2>8, <3>1 DEF WalkBranch, LeavesCur, Finished
  <2>9. CASE WalkOther
    <3>1. cur \in Rom /\ Plus(cur, Insn[cur].len) \in Nat
      BY <2>9, FollowInNat DEF WalkOther, Walking
    <3> QED BY <2>2, <2>3, <2>9, <3>1 DEF WalkOther, LeavesCur, Finished, Queued
  <2>10. CASE WalkCall
    <3>1. Insn[cur].target \in Addr
      BY <2>10, RomFacts DEF WalkCall, Walking
    <3> QED BY <2>1, <2>10, <3>1 DEF WalkCall, Finished
  <2>11. CASE WalkReturn
    <3>1. cur \in Rom /\ Plus(cur, 3) \in Nat
      BY <1>0, <2>11, FollowInNat DEF WalkReturn, ControlInv
    <3> QED BY <2>2, <2>3, <2>11, <3>1 DEF WalkReturn, LeavesCur, Finished, Queued
  <2>12. CASE IndirectMark
    BY <2>12 DEF IndirectMark, Finished, Queued
  <2>13. CASE Reset
    <3>1. /\ known' = known /\ lost \subseteq lost'
          /\ \A i \in DOMAIN queue : Index(queue[i]) \in lost'
          /\ cur # NoAddr => Index(cur) \in lost'
      BY <2>13 DEF Reset, flash
    <3>2. ~Queued(a) /\ a # cur
      BY <3>1, RomFacts DEF Queued
    <3> QED BY <3>1, <3>2 DEF Finished
  <2>14. CASE QuietStep
    BY <2>14 DEF QuietStep, Queued, Finished
  <2> QED
    BY <1>2, <2>4, <2>5, <2>6, <2>7, <2>8, <2>9, <2>10, <2>11, <2>12, <2>13,
       <2>14, StepKinds
<1> QED BY <1>1, <1>2

(* A valid bitmap only grows. *)
LEMMA KnownGrows == IInv /\ Next /\ header => known \subseteq known'
<1> SUFFICES ASSUME IInv, Next, header, header' PROVE known \subseteq known'
  BY DEF Next, BootStep, RunStep, Boot, WriteHeader, Seed, SeedsDone, NextPath,
     WalkStop, WalkJump, WalkBranch, WalkOther, WalkCall, CallHigh, WalkReturn,
     WalkEnd, Analyze, AnalyzeEnd, RecordSubroutine, RecordIndirect,
     SubroutineHigh, IndirectHigh, IndirectType, IndirectMark, Reset, flash
<1> QED
  BY StepKinds DEF WriteHeader, Seed, NextPath, WalkStop, WalkJump, WalkBranch,
     WalkOther, WalkCall, WalkReturn, IndirectMark, Reset, QuietStep, flash

LEMMA CompleteStep == IInv /\ Next => CompleteInv'
<1> SUFFICES ASSUME IInv, Next, header', NEW a \in Rom, Index(a) \in known' \ lost'
             PROVE  Queued(a)' \/ a = cur' \/ Explored(a)'
  BY DEF CompleteInv
<1>0. TypeOK /\ ControlInv
  BY DEF IInv
<1>1. CASE ~header
  BY <1>0, <1>1, HeaderStep DEF WriteHeader, ControlInv
<1>2. CASE header
  <2>1. known \subseteq known'
    BY <1>2, KnownGrows
  <2>2. CASE Finished(a)
    <3>1. Explored(a)
      BY <1>2, <2>2 DEF IInv, CompleteInv, Finished
    <3> QED BY <2>1, <3>1 DEF Explored
  <2>3. ASSUME a = cur, LeavesCur
        PROVE  Explored(a)'
    <3> DEFINE t == Insn[cur].target
               n == IF Insn[cur].kind = "branch" THEN NotTaken(cur)
                    ELSE IF Insn[cur].kind = "call" THEN Plus(cur, 3)
                    ELSE Plus(cur, Insn[cur].len)
    <3>1. cur \in Rom /\ t \in Addr
      BY <2>3, RomFacts
    <3>2. CASE WalkStop
      BY <2>3, <3>1, <3>2, SuccCases DEF WalkStop, Walking, Explored
    <3>3. CASE WalkJump
      <4>1. Succ[cur] \subseteq {t} \cap Rom
        BY <3>1, <3>3, SuccCases DEF WalkJump, Walking
      <4> HIDE DEF t
      <4>2. known' = known \cup Enqueued(t)
        BY <3>3 DEF WalkJump, t
      <4> QED BY <2>3, <4>1, <4>2 DEF Explored, Enqueued, Wanted
    <3>4. CASE WalkBranch
      <4>1. Succ[cur] \subseteq ({t} \cap Rom) \cup {m \in {n} : m <= RomMax}
        BY <3>1, <3>4, SuccCases DEF WalkBranch, Walking
      <4>2. known' = known \cup Enqueued(t) \cup Continued(n)
        BY <3>4 DEF WalkBranch, Walking
      <4> HIDE DEF t, n
      <4> QED BY <2>3, <4>1, <4>2 DEF Explored, Continued, Enqueued, Wanted
    <3>5. CASE WalkOther
      <4>1. Succ[cur] \subseteq {m \in {n} : m <= RomMax}
        BY <3>1, <3>5, SuccCases DEF WalkOther, Walking
      <4>2. known' = known \cup Continued(n)
        BY <3>5 DEF WalkOther, Walking
      <4> HIDE DEF n
      <4> QED BY <2>3, <4>1, <4>2 DEF Explored, Continued
    <3>6. CASE WalkReturn
      <4>1. Insn[cur].kind = "call" /\ (t \in Rom => Index(t) \in known)
        BY <1>0, <3>6 DEF WalkReturn, ControlInv
      <4>2. Succ[cur] \subseteq ({t} \cap Rom) \cup {m \in {n} : m <= RomMax}
        BY <3>1, <4>1, SuccCases
      <4>3. known' = known \cup Continued(n)
        BY <3>6, <4>1 DEF WalkReturn
      <4> HIDE DEF t, n
      <4> QED BY <2>3, <4>1, <4>2, <4>3 DEF Explored, Continued
    <3> QED BY <2>3, <3>2, <3>3, <3>4, <3>5, <3>6 DEF LeavesCur
  <2> QED BY <1>2, <2>2, <2>3, WalkedBefore
<1> QED BY <1>1, <1>2

-----------------------------------------------------------------------------
LEMMA StutterIInv == IInv /\ UNCHANGED vars => IInv'
  BY DEF IInv, vars, flash, wram, TypeOK, ControlInv, InWalk, PendingMarked,
     ReachInv, CompleteInv, Queued, Explored, Seeds, Entries

LEMMA NextIInv == IInv /\ Next => IInv'
  BY TypeStep, ControlStep, PendingStep, ReachStep, CompleteStep DEF IInv

LEMMA IInvariant == Spec => []IInv
  BY InitIInv, StutterIInv, NextIInv, PTL DEF Spec

(* Type correctness: the queue never holds more than QueueSlots addresses,
   and nothing is lost that was not marked.                                *)
THEOREM TypeCorrect == Spec => []TypeOK
<1>1. IInv => TypeOK
  BY DEF IInv
<1> QED BY IInvariant, <1>1, PTL

(* The guard of run_6502 can be trusted: whatever is reset, torn, dropped or
   resolved at run time, a bit that is clear stands for a PC that control
   flow reaches from the vectors and the listed targets (the PC behind the
   last byte of ROM included), or for a resolved JMP ($xxxx).              *)
THEOREM OnlyCodeIsKnown == Spec => []KnownIsReachable
<1>1. IInv => KnownIsReachable
  BY DEF IInv, ReachInv, KnownIsReachable
<1> QED BY IInvariant, <1>1, PTL

(* When the guest starts to run, the walk has left nothing out but what the
   queue dropped, a reset cut off or a JMP ($xxxx) was resolved to.         *)
THEOREM WalkLosesNothingElse == Spec => []WalkComplete
<1>1. ASSUME IInv PROVE WalkComplete
  <2>1. SUFFICES ASSUME stage = "run", NEW a \in Rom, Index(a) \in known \ lost
                 PROVE  Explored(a)
    BY DEF WalkComplete
  <2>2. header /\ queue = <<>> /\ cur = NoAddr
    BY <1>1, <2>1 DEF IInv, ControlInv, InWalk
  <2>3. ~Queued(a) /\ a # cur
    BY <2>2, RomFacts DEF Queued
  <2> QED BY <1>1, <2>1, <2>2, <2>3 DEF IInv, CompleteInv
<1> QED BY IInvariant, <1>1, PTL

-----------------------------------------------------------------------------
(* The subroutine table.                                                   *)

(* A slot between its two writes, and the subroutine it is for. *)
Programming == stage \in {"call_high", "sub_high"}
Callee == IF stage = "sub_high" THEN arg ELSE Insn[cur].target
LowOnly(t) == [lo |-> Lo(t), hi |-> Empty, flags |-> "empty"]

(* Flags are those of the address a slot holds; a slot that is still erased,
   or whose high byte is to come, has none.                                *)
TableInv ==
  /\ stage = "header" => subs = NoSubs
  /\ header => \A i \in 1..SubroutineMax :
       /\ subs[i].flags \in {"empty", Safety(Join(subs[i].lo, subs[i].hi))}
       /\ SlotEmpty(subs[i]) => subs[i].flags = "empty"
  /\ Programming => subs[index] = LowOnly(Callee)

(* t is in the table for good, or never will be.  The address of all ones
   is found in any erased slot.                                            *)
TableFull == \A i \in 1..SubroutineMax : ~SlotEmpty(subs[i])
HeldBy(i, t) ==
  SlotHolds(subs[i], t) /\ ~SlotEmpty(subs[i]) /\ ~(Programming /\ i = index)
Settled(t) ==
  \/ Lo(t) = Empty /\ Hi(t) = Empty
  \/ TableFull
  \/ \E i \in 1..SubroutineMax : HeldBy(i, t)

(* CallsRecorded at any time: the walk does not leave a JSR behind before
   its target has been recorded.                                          *)
CallsInv ==
  /\ stage = "call" => Settled(Insn[cur].target)
  /\ header => \A a \in Rom :
       Insn[a].kind = "call" /\ Finished(a) => Settled(Insn[a].target)

SubSlot == [lo : Byte, hi : Byte, flags : {"empty", "clean", "dirty"}]

LEMMA JoinBytes == \A t \in Addr : Join(Lo(t), Hi(t)) = t
<1> SUFFICES ASSUME NEW t \in Addr PROVE Join(Lo(t), Hi(t)) = t
  OBVIOUS
<1>1. t \in Nat /\ PageSize \in Nat \ {0}
  BY RomFacts, WalkAssumption
<1> DEFINE q == t \div PageSize
           r == t % PageSize
<1>2. t = PageSize * q + r /\ q \in Nat /\ r \in Nat
  BY <1>1
<1>3. Join(Lo(t), Hi(t)) = q * PageSize + r
  BY DEF Join, Lo, Hi
<1> HIDE DEF q, r
<1> QED BY <1>1, <1>2, <1>3

(* If no slot is chosen for t, it is in the table or the table is full. *)
LEMMA NoSlot ==
  ASSUME NEW t, SlotFor(t) = {}
  PROVE  \/ TableFull
         \/ \E i \in 1..SubroutineMax : SlotHolds(subs[i], t) /\ ~SlotEmpty(subs[i])
<1> DEFINE erased == {i \in 1..SubroutineMax : SlotEmpty(subs[i])}
<1> SUFFICES ASSUME erased # {}
             PROVE  \E i \in 1..SubroutineMax :
                      SlotHolds(subs[i], t) /\ ~SlotEmpty(subs[i])
  BY DEF TableFull
<1>1. SubroutineMax \in Nat /\ erased \subseteq Nat
  BY WalkAssumption
<1>2. PICK m \in erased : \A n \in erased : ~ (<<n, m>> \in OpToRel(<, Nat))
  <2> HIDE DEF erased
  <2> QED BY <1>1, NatLessThanWellFounded, WFMin
<1>3. \A n \in erased : ~(n < m)
  BY <1>1, <1>2 DEF OpToRel
<1>4. m \in 1..SubroutineMax /\ SlotEmpty(subs[m]) /\ m \notin SlotFor(t)
  BY <1>2
<1>5. PICK j \in 1..(m - 1) : SlotEmpty(subs[j]) \/ SlotHolds(subs[j], t)
  BY <1>4 DEF SlotFor
<1>6. j \in 1..SubroutineMax /\ j < m
  BY <1>1, <1>4, <1>5
<1>7. ~SlotEmpty(subs[j])
  BY <1>3, <1>6
<1> QED BY <1>5, <1>6, <1>7

(* The two writes of a record. *)
LEMMA LowEffect ==
  ASSUME TypeOK, TableInv, header, NEW t \in Addr, NEW i \in SlotFor(t),
         ProgramLow(i, t)
  PROVE  /\ i \in 1..SubroutineMax /\ SlotEmpty(subs[i])
         /\ subs'[i] = LowOnly(t)
         /\ \A j \in 1..SubroutineMax : j # i => subs'[j] = subs[j]
<1>1. i \in 1..SubroutineMax /\ SlotEmpty(subs[i])
  BY DEF SlotFor
<1>2. subs[i].flags = "empty" /\ subs[i] \in SubSlot
  BY <1>1 DEF TableInv, TypeOK, SubSlot
<1>3. subs[i].lo = Empty /\ subs[i].hi = Empty
  BY <1>1 DEF SlotEmpty
<1>4. AndBits(Empty, Lo(t)) = Lo(t)
  BY BytesOfAddress, WalkAssumption
<1>5. subs' = [subs EXCEPT ![i].lo = Lo(t)]
  BY <1>3, <1>4 DEF ProgramLow
<1>6. subs \in [1..SubroutineMax -> SubSlot]
  BY DEF TypeOK, SubSlot
<1>7. subs'[i] = [subs[i] EXCEPT !.lo = Lo(t)]
  BY <1>1, <1>5, <1>6
<1>8. subs'[i] = LowOnly(t)
  BY <1>2, <1>3, <1>7 DEF LowOnly, SubSlot
<1> QED BY <1>1, <1>5, <1>6, <1>8

LEMMA HighEffect ==
  ASSUME TypeOK, ControlInv, TableInv, Programming, NEW t \in Addr, t = Callee,
         ProgramHigh(index, t)
  PROVE  /\ index \in 1..SubroutineMax
         /\ subs'[index] = [lo |-> Lo(t), hi |-> Hi(t), flags |-> "empty"]
         /\ \A j \in 1..SubroutineMax : j # index => subs'[j] = subs[j]
<1>1. index \in 1..SubroutineMax /\ subs[index] = LowOnly(t)
  BY DEF TableInv, Programming, ControlInv
<1>2. AndBits(Empty, Hi(t)) = Hi(t)
  BY BytesOfAddress, WalkAssumption
<1>3. subs' = [subs EXCEPT ![index].hi = Hi(t)]
  BY <1>1, <1>2 DEF ProgramHigh, LowOnly
<1>4. subs \in [1..SubroutineMax -> SubSlot]
  BY DEF TypeOK, SubSlot
<1>5. subs'[index] = [LowOnly(t) EXCEPT !.hi = Hi(t)]
  BY <1>1, <1>3, <1>4
<1> QED BY <1>1, <1>3, <1>4, <1>5 DEF LowOnly

(* What a step does to the table: nothing, a write of a record, or flags for
   a slot that has an address.                                             *)
Records(t) ==
  /\ t \in Addr /\ ~Programming /\ Programming' /\ Callee' = t
  /\ \E i \in SlotFor(t) : ProgramLow(i, t) /\ index' = i
Completes == /\ Programming /\ ~Programming'
             /\ ProgramHigh(index, Callee)
Flags == /\ ~Programming /\ ~Programming' /\ index \in 1..SubroutineMax
         /\ ~SlotEmpty(subs[index])
         /\ subs' = [subs EXCEPT ![index].flags =
              IF @ = "empty" THEN Safety(Join(subs[index].lo, subs[index].hi))
              ELSE @]

LEMMA TableStep ==
  ASSUME IInv, Next, header, header'
  PROVE  \/ subs' = subs /\ ~Programming'
         \/ \E t \in Addr : Records(t)
         \/ Completes
         \/ Flags
<1>0. TypeOK /\ ControlInv
  BY DEF IInv
<1>1. CASE Boot \/ WriteHeader \/ Seed \/ SeedsDone \/ NextPath \/ WalkStop
           \/ WalkJump \/ WalkBranch \/ WalkOther \/ WalkReturn \/ WalkEnd
           \/ AnalyzeEnd
  BY <1>1 DEF Boot, WriteHeader, Seed, SeedsDone, NextPath, WalkStop, WalkJump,
     WalkBranch, WalkOther, WalkReturn, WalkEnd, AnalyzeEnd, Walking,
     Programming, flash
<1>2. CASE WalkCall
  <2>1. cur \in Rom /\ Insn[cur].target \in Addr
    BY <1>2, RomFacts DEF WalkCall, Walking
  <2>2. stage = "walk" /\ cur' = cur
    BY <1>2 DEF WalkCall, Walking
  <2>3. \/ stage' = "call" /\ UNCHANGED <<subs, index>>
        \/ \E i \in SlotFor(Insn[cur].target) :
             /\ ProgramLow(i, Insn[cur].target)
             /\ index' = i /\ stage' = "call_high"
    BY <1>2 DEF WalkCall
  <2> QED BY <2>1, <2>2, <2>3 DEF Records, Programming, Callee
<1>3. CASE CallHigh \/ SubroutineHigh
  BY <1>3 DEF CallHigh, SubroutineHigh, Completes, Programming, Callee
<1>4. CASE Analyze
  BY <1>0, <1>4 DEF Analyze, MoreSubs, Flags, Programming, TypeOK
<1>5. ASSUME NEW t \in Addr, RecordSubroutine(t) PROVE Records(t)
  BY <1>5 DEF RecordSubroutine, Records, Programming, Callee
<1>6. ASSUME NEW t \in Addr, RecordIndirect(t)
      PROVE  subs' = subs /\ ~Programming'
  BY <1>6 DEF RecordIndirect, Programming
<1>7. CASE IndirectHigh \/ IndirectType \/ IndirectMark \/ Reset
  BY <1>7 DEF IndirectHigh, IndirectType, IndirectMark, Reset, Programming, flash
<1> QED BY <1>1, <1>2, <1>3, <1>4, <1>5, <1>6, <1>7 DEF Next, BootStep, RunStep

LEMMA TableKept == IInv /\ TableInv /\ Next => TableInv'
<1> SUFFICES ASSUME IInv, TableInv, Next PROVE TableInv'
  OBVIOUS
<1>0. TypeOK /\ ControlInv
  BY DEF IInv
<1>1. ASSUME ~header'
      PROVE  TableInv'
  <2>1. ~Programming'
    BY <1>1, ControlStep DEF IInv, ControlInv, Programming
  <2>2. stage' = "header" => subs' = NoSubs
    <3>1. stage' = "header" => Boot
      BY DEF Next, BootStep, RunStep, Boot, WriteHeader, Seed, SeedsDone,
         NextPath, WalkStop, WalkJump, WalkBranch, WalkOther, WalkCall,
         CallHigh, WalkReturn, WalkEnd, Analyze, AnalyzeEnd, RecordSubroutine,
         RecordIndirect, SubroutineHigh, IndirectHigh, IndirectType,
         IndirectMark, Reset, Walking, flash
    <3> QED BY <3>1, <1>1 DEF Boot, flash
  <2> QED BY <1>1, <2>1, <2>2 DEF TableInv
<1>2. ASSUME header', ~header
      PROVE  TableInv'
  <2>1. WriteHeader
    BY <1>2, HeaderStep
  <2>2. subs' = NoSubs /\ stage' = "seed"
    BY <2>1 DEF WriteHeader, TableInv
  <2> QED BY <2>2 DEF TableInv, Programming, NoSubs, BlankSub
<1>3. ASSUME header', header
      PROVE  TableInv'
  <2>1. stage' # "header"
    BY <1>3 DEF Next, BootStep, RunStep, Boot, WriteHeader, Seed, SeedsDone,
       NextPath, WalkStop, WalkJump, WalkBranch, WalkOther, WalkCall, CallHigh,
       WalkReturn, WalkEnd, Analyze, AnalyzeEnd, RecordSubroutine,
       RecordIndirect, SubroutineHigh, IndirectHigh, IndirectType,
       IndirectMark, Reset, Walking, flash
  <2> DEFINE Good(s) == /\ s.flags \in {"empty", Safety(Join(s.lo, s.hi))}
                        /\ SlotEmpty(s) => s.flags = "empty"
  <2>2. \A i \in 1..SubroutineMax : Good(subs[i])
    BY <1>3 DEF TableInv
  <2>3. ASSUME \A i \in 1..SubroutineMax : Good(subs'[i]), ~Programming'
        PROVE  TableInv'
    BY <2>1, <2>3 DEF TableInv
  <2>4. CASE subs' = subs /\ ~Programming'
    BY <2>2, <2>3, <2>4
  <2>5. ASSUME NEW t \in Addr, Records(t)
        PROVE  TableInv'
    <3>1. PICK i \in SlotFor(t) : ProgramLow(i, t) /\ index' = i
      BY <2>5 DEF Records
    <3>2. /\ subs'[i] = LowOnly(t)
          /\ \A j \in 1..SubroutineMax : j # i => subs'[j] = subs[j]
      BY <1>0, <1>3, <3>1, LowEffect
    <3>3. Good(LowOnly(t))
      BY DEF LowOnly
    <3>4. \A j \in 1..SubroutineMax : Good(subs'[j])
      BY <2>2, <3>2, <3>3
    <3>5. Programming' => subs'[index'] = LowOnly(Callee')
      BY <2>5, <3>1, <3>2 DEF Records
    <3> QED BY <2>1, <3>4, <3>5 DEF TableInv, LowOnly
  <2>6. CASE Completes
    <3>1. Callee \in Addr
      BY <1>0, <2>6, RomFacts DEF Completes, Programming, Callee, ControlInv,
         TypeOK
    <3>2. /\ subs'[index] = [lo |-> Lo(Callee), hi |-> Hi(Callee), flags |-> "empty"]
          /\ \A j \in 1..SubroutineMax : j # index => subs'[j] = subs[j]
      BY <1>0, <2>6, <3>1, HighEffect DEF Completes
    <3>3. \A j \in 1..SubroutineMax : Good(subs'[j])
      BY <2>2, <3>2
    <3> QED BY <2>3, <2>6, <3>3 DEF Completes
  <2>7. CASE Flags
    <3>1. subs \in [1..SubroutineMax -> SubSlot] /\ index \in 1..SubroutineMax
      BY <1>0, <2>7 DEF TypeOK, SubSlot, Flags
    <3>2. \A j \in 1..SubroutineMax : j # index => subs'[j] = subs[j]
      BY <2>7, <3>1 DEF Flags
    <3>3. PICK f : /\ subs' = [subs EXCEPT ![index].flags = f]
                   /\ f = IF subs[index].flags = "empty"
                          THEN Safety(Join(subs[index].lo, subs[index].hi))
                          ELSE subs[index].flags
      BY <2>7, <3>1 DEF Flags
    <3>4. subs'[index] = [subs[index] EXCEPT !.flags = f]
      BY <3>1, <3>3
    <3>5. /\ subs'[index].lo = subs[index].lo /\ subs'[index].hi = subs[index].hi
          /\ subs'[index].flags = f
      <4>1. subs[index] \in SubSlot
        BY <3>1
      <4> QED BY <3>4, <4>1 DEF SubSlot
    <3>6. Good(subs'[index])
      BY <2>2, <2>7, <3>1, <3>3, <3>5 DEF Flags, SlotEmpty
    <3>7. \A j \in 1..SubroutineMax : Good(subs'[j])
      BY <2>2, <3>2, <3>6
    <3> QED BY <2>3, <2>7, <3>7 DEF Flags
  <2> QED BY <1>3, <2>4, <2>5, <2>6, <2>7, TableStep
<1> QED BY <1>1, <1>2, <1>3

(* What is in the table for good stays there. *)
LEMMA SettledStays ==
  ASSUME IInv, TableInv, Next, header, header', NEW t, Settled(t)
  PROVE  Settled(t)'
<1>0. TypeOK /\ ControlInv
  BY DEF IInv
<1>1. ASSUME \A i \in 1..SubroutineMax :
               ~SlotEmpty(subs[i]) =>
                 /\ ~SlotEmpty(subs'[i])
                 /\ HeldBy(i, t) => /\ subs'[i].lo = subs[i].lo
                                    /\ subs'[i].hi = subs[i].hi
                                    /\ ~(Programming' /\ i = index')
      PROVE  Settled(t)'
  <2>1. CASE TableFull
    BY <1>1, <2>1 DEF Settled, TableFull
  <2>2. ASSUME NEW i \in 1..SubroutineMax, HeldBy(i, t)
        PROVE  HeldBy(i, t)'
    BY <1>1, <2>2 DEF HeldBy, SlotHolds
  <2> QED BY <2>1, <2>2 DEF Settled
<1>2. CASE subs' = subs /\ ~Programming'
  BY <1>1, <1>2
<1>3. ASSUME NEW u \in Addr, Records(u)
      PROVE  Settled(t)'
  <2>1. PICK i \in SlotFor(u) : ProgramLow(i, u) /\ index' = i
    BY <1>3 DEF Records
  <2>2. /\ SlotEmpty(subs[i])
        /\ \A j \in 1..SubroutineMax : j # i => subs'[j] = subs[j]
    BY <1>0, <2>1, LowEffect
  <2> QED BY <1>1, <2>1, <2>2
<1>4. CASE Completes
  <2>1. Callee \in Addr
    BY <1>0, <1>4, RomFacts DEF Completes, Programming, Callee, ControlInv,
       TypeOK
  <2>2. /\ subs[index] = LowOnly(Callee) /\ ~Programming'
        /\ subs'[index] = [lo |-> Lo(Callee), hi |-> Hi(Callee), flags |-> "empty"]
        /\ \A j \in 1..SubroutineMax : j # index => subs'[j] = subs[j]
    BY <1>0, <1>4, <2>1, HighEffect DEF Completes, TableInv
  <2>3. ~SlotEmpty(subs[index]) => ~SlotEmpty(subs'[index])
    BY <2>2 DEF SlotEmpty, LowOnly
  <2>4. ~HeldBy(index, t)
    BY <1>4 DEF HeldBy, Completes
  <2> QED BY <1>1, <2>2, <2>3, <2>4
<1>5. CASE Flags
  <2>1. subs \in [1..SubroutineMax -> SubSlot]
    BY <1>0 DEF TypeOK, SubSlot
  <2>2. PICK f : subs' = [subs EXCEPT ![index].flags = f]
    BY <1>5 DEF Flags
  <2>3. \A i \in 1..SubroutineMax :
          subs'[i].lo = subs[i].lo /\ subs'[i].hi = subs[i].hi
    BY <2>1, <2>2 DEF SubSlot
  <2>4. ~Programming'
    BY <1>5 DEF Flags
  <2> QED BY <1>1, <2>3, <2>4 DEF SlotEmpty
<1> QED BY <1>2, <1>3, <1>4, <1>5, TableStep

LEMMA CallsKept == IInv /\ TableInv /\ CallsInv /\ Next => CallsInv'
<1> SUFFICES ASSUME IInv, TableInv, CallsInv, Next PROVE CallsInv'
  OBVIOUS
<1>0. TypeOK /\ ControlInv /\ IInv'
  BY NextIInv DEF IInv
<1>1. ASSUME stage' = "call" PROVE Settled(Insn[cur].target)' /\ cur' = cur
  <2>1. CASE CallHigh
    <3>1. /\ Programming /\ Callee = Insn[cur].target /\ cur \in Rom
          /\ ProgramHigh(index, Callee) /\ cur' = cur /\ ~Programming'
      BY <1>0, <2>1 DEF CallHigh, Programming, Callee, ControlInv
    <3>2. Callee \in Addr
      BY <3>1, RomFacts
    <3>3. /\ index \in 1..SubroutineMax
          /\ subs'[index] = [lo |-> Lo(Callee), hi |-> Hi(Callee), flags |-> "empty"]
      BY <1>0, <3>1, <3>2, HighEffect
    <3> QED BY <3>1, <3>3 DEF Settled, HeldBy, SlotHolds, SlotEmpty
  <2>2. CASE WalkCall
    <3>1. /\ SlotFor(Insn[cur].target) = {} /\ subs' = subs /\ cur' = cur
          /\ ~Programming'
      BY <1>1, <2>2 DEF WalkCall, Programming
    <3> QED BY <3>1, NoSlot DEF Settled, HeldBy, TableFull
  <2> QED
    BY <1>1, <2>1, <2>2 DEF Next, BootStep, RunStep, Boot, WriteHeader, Seed,
       SeedsDone, NextPath, WalkStop, WalkJump, WalkBranch, WalkOther,
       WalkReturn, WalkEnd, Analyze, AnalyzeEnd, RecordSubroutine,
       RecordIndirect, SubroutineHigh, IndirectHigh, IndirectType,
       IndirectMark, Reset, Walking, flash
<1>2. ASSUME header', NEW a \in Rom, Insn[a].kind = "call", Finished(a)'
      PROVE  Settled(Insn[a].target)'
  <2>1. CASE ~header
    BY <1>0, <1>2, <2>1, HeaderStep DEF WriteHeader, ControlInv, Finished
  <2>2. CASE header
    <3>1. Finished(a) \/ (a = cur /\ LeavesCur)
      BY <1>2, <2>2, WalkedBefore DEF Finished
    <3>2. CASE Finished(a)
      BY <1>2, <2>2, <3>2, SettledStays DEF CallsInv
    <3>3. CASE a = cur /\ LeavesCur
      <4>1. WalkReturn
        BY <1>2, <3>3 DEF LeavesCur, WalkStop, WalkJump, WalkBranch, WalkOther,
           Walking
      <4>2. Settled(Insn[a].target)
        BY <3>3, <4>1 DEF WalkReturn, CallsInv
      <4> QED BY <1>2, <2>2, <4>2, SettledStays
    <3> QED BY <3>1, <3>2, <3>3
  <2> QED BY <2>1, <2>2
<1> QED BY <1>1, <1>2 DEF CallsInv

TablesInv == IInv /\ TableInv /\ CallsInv

LEMMA TablesInvariant == Spec => []TablesInv
<1>1. Init => TablesInv
  <2>1. Init => TableInv /\ CallsInv
    BY DEF Init, TableInv, CallsInv, Programming
  <2> QED BY <2>1, InitIInv DEF TablesInv
<1>2. TablesInv /\ Next => TablesInv'
  BY NextIInv, TableKept, CallsKept DEF TablesInv
<1>3. TablesInv /\ UNCHANGED vars => TablesInv'
  <2> SUFFICES ASSUME TablesInv, UNCHANGED vars PROVE TablesInv'
    OBVIOUS
  <2>1. IInv'
    BY StutterIInv DEF TablesInv
  <2>2. TableInv' /\ CallsInv'
    BY DEF TablesInv, TableInv, CallsInv, Programming, Callee, Settled, HeldBy,
       TableFull, Finished, Queued, vars, flash, wram
  <2> QED BY <2>1, <2>2 DEF TablesInv
<1> QED BY <1>1, <1>2, <1>3, PTL DEF Spec

(* The flags that a lookup returns are those of the address it looks for,
   or none: for every ROM and table size, and whatever slots a reset has left
   with one byte written.                                                  *)
THEOREM FlagsFaithful == Spec => []LookupFaithful
<1>1. ASSUME TablesInv PROVE LookupFaithful
  <2>1. SUFFICES ASSUME header, NEW t \in GuestCalls, NEW i \in LookupSlot(t)
                 PROVE  subs[i].flags \in {"empty", Safety(t)}
    BY DEF LookupFaithful
  <2>2. t \in Addr
    BY RomFacts DEF GuestCalls
  <2>3. i \in 1..SubroutineMax /\ subs[i].lo = Lo(t) /\ subs[i].hi = Hi(t)
    BY DEF LookupSlot, SlotHolds
  <2>4. Join(subs[i].lo, subs[i].hi) = t
    BY <2>2, <2>3, JoinBytes
  <2> QED BY <1>1, <2>1, <2>3, <2>4 DEF TablesInv, TableInv
<1> QED BY <1>1, TablesInvariant, PTL

(* When the guest starts to run, every JSR the walk came to has its target in
   the subroutine table, unless no slot is left.                           *)
THEOREM CallsAreRecorded == Spec => []CallsRecorded
<1>1. ASSUME TablesInv PROVE CallsRecorded
  <2>1. SUFFICES ASSUME stage = "run", NEW a \in Rom, Index(a) \in known \ lost,
                        Insn[a].kind = "call",
                        ~ \A i \in 1..SubroutineMax : ~SlotEmpty(subs[i])
                 PROVE  Recorded(Insn[a].target)
    BY DEF CallsRecorded
  <2>2. header /\ queue = <<>> /\ cur = NoAddr
    BY <1>1, <2>1 DEF TablesInv, IInv, ControlInv, InWalk
  <2>3. Finished(a)
    BY <2>1, <2>2, RomFacts DEF Finished, Queued
  <2>4. Settled(Insn[a].target)
    BY <1>1, <2>1, <2>2, <2>3 DEF TablesInv, CallsInv
  <2> QED
    BY <2>1, <2>4 DEF Settled, TableFull, HeldBy, Recorded, SlotHolds, SlotEmpty
<1> QED BY <1>1, TablesInvariant, PTL
=============================================================================
