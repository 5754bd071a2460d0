----------------------- MODULE TranslationCacheProofs -----------------------
(***************************************************************************)
(* FlashCache implements TranslationCache in every build whose caches are  *)
(* formatted at power-on: for every guest program, number of sectors and   *)
(* sector geometry.                                                        *)
(*                                                                         *)
(* A block appears in the map when its sentinel is written, a PC is        *)
(* entered when its flag is, and left to the interpreter when it is        *)
(* marked; every other step of the compile path, the address bytes of an   *)
(* entry included, cannot be seen by the dispatcher.                       *)
(***************************************************************************)
EXTENDS CompileOnceProofs

(* That no two translations share an address, that what is entered is held,
   and that a block is begun for a PC that has none.                        *)
CacheInv == DisjointInv /\ RunnableInv /\ OnceInv

LEMMA CacheInvInit == Init => CacheInv
BY DisjointInit, RunnableInit, OnceInit DEF CacheInv

LEMMA CacheInvNext ==
  ASSUME CacheInv, ~CachePersist, [Next]_vars PROVE CacheInv'
<1>1. DisjointInv'
  BY BeginDisjoint, LoopDisjoint, RomReadDisjoint, UndoDisjoint, ProgramDisjoint,
     PublishDisjoint, ShrinkDisjoint, QuietDisjoint, BootDisjoint, StutterDisjoint
     DEF CacheInv, Next, CompileStep
<1> QED
  BY <1>1, RunnableNext, OnceNext DEF CacheInv

-----------------------------------------------------------------------------
(* What can be seen of a state. *)

LEMMA SettledPc ==
  ASSUME TypeInv, NEW p \in Pc
  PROVE  Cache!Settled(p) <=> pc_flag[p] # Erased
<1>1. pc_flag[p] \in {Erased, "recompiled", "interpreted"}
  BY DEF TypeInv, TypeOK, Flags
<1>2. p \in Declined <=> pc_flag[p] = "interpreted"
  BY DEF Declined
<1>3. (\E x \in Entered : x.pc = p) <=> pc_flag[p] = "recompiled"
  <2>1. ASSUME pc_flag[p] = "recompiled" PROVE \E x \in Entered : x.pc = p
    <3>1. [at |-> pc_native[p], pc |-> p] \in Entered BY <2>1 DEF Entered
    <3> QED BY <3>1
  <2>2. ASSUME NEW x \in Entered, x.pc = p PROVE pc_flag[p] = "recompiled"
    BY <2>2 DEF Entered
  <2> QED BY <2>1, <2>2
<1> QED
  BY <1>1, <1>2, <1>3 DEF Cache!Settled, Erased

(* Entries change only with a flag. *)
LEMMA EnteredStays ==
  ASSUME UNCHANGED pc_flag,
         \A p \in Pc : pc_flag[p] = "recompiled" => pc_native'[p] = pc_native[p]
  PROVE  Entered' = Entered /\ Declined' = Declined
<1>1. Declined' = Declined BY DEF Declined
<1>2. Entered' = Entered
  BY DEF Entered
<1> QED BY <1>1, <1>2

LEMMA HeldStays ==
  ASSUME UNCHANGED sealed PROVE Held' = Held
BY DEF Held, Entry, Covered

LEMMA Unseen ==
  ASSUME UNCHANGED <<sealed, pc_flag, pc_native>>, stage # "off", stage' # "off"
  PROVE  UNCHANGED Cache!vars
BY EnteredStays, HeldStays DEF Cache!vars

-----------------------------------------------------------------------------
(* The steps that can be seen. *)

LEMMA InitSeen == Init => Cache!Init
<1> SUFFICES ASSUME Init PROVE Cache!Init
  OBVIOUS
<1>1. Held = {} BY DEF Init, Held
<1>2. Entered = {} /\ Declined = {}
  BY DEF Init, Entered, Declined, Erased
<1> QED
  BY <1>1, <1>2 DEF Init, Cache!Init

(* A PC without an entry is marked for the interpreter. *)
LEMMA DeclineSeen ==
  ASSUME TypeInv, stage # "off", stage' # "off", UNCHANGED sealed,
         NEW p \in Pc, pc_flag[p] = Erased,
         pc_flag' = [pc_flag EXCEPT ![p] = "interpreted"],
         \A q \in Pc : q # p => pc_native'[q] = pc_native[q]
  PROVE  Cache!Decline(p)
<1>1. /\ ~Cache!Settled(p)
      /\ pc_flag'[p] = "interpreted"
      /\ \A q \in Pc : q # p => pc_flag'[q] = pc_flag[q]
  BY SettledPc DEF TypeInv, TypeOK
<1>2. Held' = Held BY HeldStays
<1>3. Declined' = Declined \cup {p}
  BY <1>1 DEF Declined
<1>4. Entered' = Entered
  BY <1>1 DEF Entered, Erased
<1> QED
  BY <1>1, <1>2, <1>3, <1>4 DEF Cache!Decline

LEMMA MarkSeen ==
  ASSUME TypeInv, stage # "off", stage' # "off", UNCHANGED sealed,
         NEW p \in Pc, MarkInterpreted(p)
  PROVE  [Cache!Next]_(Cache!vars)
<1>1. CASE SlotErased(p)
  <2>1. /\ pc_flag[p] = Erased
        /\ pc_flag' = [pc_flag EXCEPT ![p] = "interpreted"]
        /\ \A q \in Pc : q # p => pc_native'[q] = pc_native[q]
    BY <1>1 DEF MarkInterpreted, SlotErased, TypeInv, TypeOK
  <2>2. Cache!Decline(p) BY <2>1, DeclineSeen
  <2> QED BY <2>2 DEF Cache!Next
<1>2. CASE ~SlotErased(p)
  BY <1>2, Unseen DEF MarkInterpreted
<1> QED BY <1>1, <1>2

(* A block is sealed: a whole translation of its entry, where there was none. *)
LEMMA SealSeen ==
  ASSUME CacheInv, SealBlock PROVE Cache!Translate(entry_pc)
<1> DEFINE b == ThisBlock
<1>1. /\ TypeInv /\ stage = "seal" /\ stage' # "off" /\ entry_pc \in Pc
      /\ sealed' = sealed \cup {b} /\ UNCHANGED <<pc_flag, pc_native>>
  BY DEF CacheInv, DisjointInv, TypeInv, TypeOK, SealBlock
<1>2. b \in blocks /\ sealed \subseteq blocks
  BY <1>1 DEF TypeInv, TypeOK, BufferInv, Programmed
<1>3. /\ pc_flag[entry_pc] = Erased /\ instr_off[entry_pc] = 0 /\ code_index > 0
      /\ \A c \in sealed : pc_flag[c.entry] # Erased
  BY <1>1 DEF CacheInv, OnceInv, EntryInv, EntriesTaken
<1>4. b \notin sealed BY <1>3 DEF ThisBlock
<1>5. ~Cache!Settled(entry_pc) BY <1>1, <1>3, SettledPc
<1>6. ASSUME NEW c \in sealed, NEW p \in Covered(c), NEW q \in Covered(b)
      PROVE  Entry(c, p).at # Entry(b, q).at
  <2>1. c \in blocks /\ c # b BY <1>2, <1>4, <1>6
  <2>2. c.sec = b.sec => Apart(c.base, EndOf(c), b.base, EndOf(b))
    BY <1>2, <2>1 DEF CacheInv, DisjointInv, ExtentsDisjoint
  <2>3. /\ c.base \in Nat /\ c.len \in Nat /\ c.offs[p] \in NativeOff
        /\ b.base \in Nat /\ b.len \in Nat /\ b.offs[q] \in NativeOff
    BY <1>1, <1>2, <2>1 DEF TypeInv, TypeOK, Covered
  <2>4. /\ c.offs[p] \in Nat /\ c.offs[p] < c.len
        /\ b.offs[q] \in Nat /\ b.offs[q] < b.len
    BY <2>3, LayoutAssumption DEF Covered, NativeOff, NoOff
  <2>5. c.sec = b.sec => c.base + c.offs[p] # b.base + b.offs[q]
    BY <2>2, <2>3, <2>4 DEF Apart, EndOf, BlockEnd, BlockHeaderSize
  <2>6. c.sec = b.sec =>
          c.base + BlockHeaderSize + c.offs[p] # b.base + BlockHeaderSize + b.offs[q]
    BY <2>3, <2>4, <2>5 DEF BlockHeaderSize
  <2> QED
    BY <2>6 DEF Entry
<1>7. Held' = Held \cup {Entry(b, q) : q \in Covered(b)}
  <2>1. Held' = UNION {{Entry(c, q) : q \in Covered(c)} : c \in sealed'}
    BY DEF Held, Entry, Covered
  <2> QED BY <1>1, <2>1 DEF Held
<1>8. ASSUME NEW x \in Held, NEW y \in {Entry(b, q) : q \in Covered(b)}
      PROVE  x.at # y.at
  <2>1. PICK c \in sealed : \E p \in Covered(c) : x = Entry(c, p)
    BY DEF Held
  <2> QED BY <1>6, <2>1
<1>9. entry_pc \in Covered(b) /\ Entry(b, entry_pc).pc = entry_pc
  BY <1>1, <1>3, LayoutAssumption
     DEF Covered, Entry, ThisBlock, NoOff, TypeInv, TypeOK
<1>10. \E x \in Held' \ Held : x.pc = entry_pc
  BY <1>7, <1>8, <1>9
<1>11. \A x \in Held, y \in Held' \ Held : x.at # y.at
  BY <1>7, <1>8
<1>12. Entered' = Entered /\ Declined' = Declined
  BY <1>1, EnteredStays
<1> QED
  BY <1>1, <1>5, <1>7, <1>10, <1>11, <1>12 DEF Cache!Translate

(* The flag of a PC is programmed: dispatch finds its code at once. *)
LEMMA FlagSeen ==
  ASSUME CacheInv, CacheInv', NEW p \in Pc, PublishFlag(p)
  PROVE  \E x \in Held : Cache!Enter(x)
<1> DEFINE x == [at |-> pc_native[p], pc |-> p]
<1>1. /\ TypeInv /\ stage = "flag" /\ stage' # "off" /\ Publishing(p)
      /\ UNCHANGED <<sealed, pc_native>>
      /\ pc_flag' = [pc_flag EXCEPT ![p] = "recompiled"]
  BY DEF CacheInv, RunnableInv, PublishFlag
<1>2. /\ pc_flag'[p] = "recompiled"
      /\ \A q \in Pc : q # p => pc_flag'[q] = pc_flag[q]
  BY <1>1 DEF TypeInv, TypeOK
<1>3. pc_flag[p] = Erased
  BY <1>1 DEF CacheInv, OnceInv, FlagInv
<1>4. ~Cache!Settled(p) BY <1>1, <1>3, SettledPc
<1>5. x \in Held
  <2>1. PICK b \in sealed :
          /\ b.offs[p] # NoOff
          /\ pc_native[p] = <<b.sec, b.base + BlockHeaderSize + b.offs[p]>>
          /\ b.offs[p] < b.len - EpilogueSize
    BY <1>1, <1>2 DEF CacheInv, RunnableInv, PublishedIsRunnable
  <2>2. p \in Covered(b) /\ x = Entry(b, p) BY <2>1 DEF Covered, Entry
  <2> QED BY <2>2 DEF Held
<1>6. Held' = Held BY <1>1, HeldStays
<1>7. Declined' = Declined
  BY <1>2, <1>3 DEF Declined, Erased
<1>8. Entered' = Entered \cup {x}
  BY <1>1, <1>2 DEF Entered
<1>9. Cache!Enter(x)
  BY <1>1, <1>4, <1>5, <1>6, <1>7, <1>8 DEF Cache!Enter
<1> QED BY <1>5, <1>9

(* Power goes while a PC is marked: its address is no entry without a flag. *)
LEMMA TornSeen ==
  ASSUME TypeInv, stage # "off", UNCHANGED sealed,
         NEW p \in Pc, NEW off \in Nat, TornMark(p, off)
  PROVE  Cache!Next
<1>1. /\ stage' = "off" /\ pc_flag' = pc_flag /\ pc_flag[p] = Erased
      /\ \A q \in Pc : q # p => pc_native'[q] = pc_native[q]
  BY TornKeeps
<1>2. UNCHANGED <<Held, Entered, Declined>>
  BY <1>1, HeldStays, EnteredStays DEF Erased
<1> QED BY <1>1, <1>2 DEF Cache!PowerOff, Cache!Next

-----------------------------------------------------------------------------
LEMMA StepSeen ==
  ASSUME CacheInv, CacheInv', ~CachePersist, [Next]_vars
  PROVE  [Cache!Next]_(Cache!vars)
<1>1. TypeInv BY DEF CacheInv, RunnableInv
<1>2. CASE Boot
  <2>1. stage = "off" /\ stage' # "off" /\ sealed' = {}
        /\ pc_flag' = [p \in Pc |-> Erased]
    BY <1>2 DEF Boot, FlashFormat
  <2>2. Held' = {} BY <2>1 DEF Held
  <2>3. Entered' = {} /\ Declined' = {}
    BY <2>1 DEF Entered, Declined, Erased
  <2> QED BY <2>1, <2>2, <2>3 DEF Cache!PowerOn, Cache!Next
<1>3. CASE Reset
  <2>1. stage # "off" /\ stage' = "off" /\ UNCHANGED <<sealed, pc_flag, pc_native>>
    BY <1>3 DEF Reset, flashVars
  <2>2. UNCHANGED <<Held, Entered, Declined>>
    BY <2>1, HeldStays, EnteredStays
  <2> QED BY <2>1, <2>2 DEF Cache!PowerOff, Cache!Next
<1>4. CASE RunGuest \/ Undo \/ ProgramBlock \/ Shrink \/ \E s \in Sector : BeginBlock(s)
  BY <1>4, Unseen DEF RunGuest, NeedsCompile, BeginBlock, Undo, ProgramBlock, Shrink,
     flashVars
<1>5. CASE NoRoom
  <2>1. stage = "dispatch" /\ UNCHANGED sealed /\ pc \in Pc /\ pc_flag[pc] = Erased
    BY <1>5, CacheAssumption DEF NoRoom, NeedsCompile
  <2>2. CASE TornMark(pc, 0)
    BY <1>1, <2>1, <2>2, TornSeen
  <2>3. CASE ~TornMark(pc, 0) /\ SlotErased(pc)
    <3>1. /\ pc_flag' = [pc_flag EXCEPT ![pc] = "interpreted"]
          /\ \A q \in Pc : q # pc => pc_native'[q] = pc_native[q]
          /\ stage' = stage
      BY <1>1, <1>5, <2>1, <2>3 DEF NoRoom, TypeInv, TypeOK
    <3>2. Cache!Decline(pc) BY <1>1, <2>1, <3>1, DeclineSeen
    <3> QED BY <2>1, <3>2 DEF Cache!Next
  <2>4. CASE ~TornMark(pc, 0) /\ ~SlotErased(pc)
    BY <1>5, <2>1, <2>4, Unseen DEF NoRoom
  <2> QED BY <2>2, <2>3, <2>4
<1>6. CASE \/ CompileInstruction
           \/ \E s \in Sector : CompileRomRead(s)
           \/ CompileRomReadNoRoom
  <2>1. /\ pc \in Pc /\ stage = "loop" /\ UNCHANGED sealed /\ code_index \in Nat
    <3>1. stage = "loop" /\ UNCHANGED sealed
      BY <1>6 DEF CompileInstruction, CompileRomRead, CompileRomReadNoRoom
    <3>2. pc \in Pc
      BY <1>1, <3>1, CacheAssumption DEF TypeInv, BufferInv
    <3>3. code_index \in Nat
      BY <1>1, LayoutAssumption DEF TypeInv, TypeOK
    <3> QED BY <3>1, <3>2, <3>3
  <2>2. \/ TornMark(pc, code_index)
        \/ /\ stage' # "off"
           /\ UNCHANGED <<pc_flag, pc_native>> \/ MarkInterpreted(pc)
    BY <1>6 DEF CompileInstruction, CompileRomRead, CompileRomReadNoRoom, Emit,
                StopHere
  <2> QED BY <1>1, <2>1, <2>2, MarkSeen, TornSeen, Unseen
<1>7. CASE SealBlock
  <2>1. entry_pc \in Pc BY <1>1 DEF TypeInv, TypeOK
  <2> QED BY <1>7, <2>1, SealSeen DEF Cache!Next
<1>8. ASSUME NEW p \in Pc, PublishAddress(p) PROVE UNCHANGED Cache!vars
  <2>1. /\ stage = "publish" /\ stage' # "off" /\ UNCHANGED <<sealed, pc_flag>>
    BY <1>8 DEF PublishAddress
  <2>2. \A q \in Pc : pc_flag[q] = "recompiled" => pc_native'[q] = pc_native[q]
    BY <1>1, <1>8 DEF PublishAddress, SlotErased, Erased, TypeInv, TypeOK
  <2> QED BY <2>1, <2>2, EnteredStays, HeldStays DEF Cache!vars
<1>9. ASSUME NEW p \in Pc, PublishFlag(p) PROVE Cache!Next
  BY <1>9, FlagSeen DEF Cache!Next
<1>10. CASE UNCHANGED vars
  <2>1. UNCHANGED <<sealed, pc_flag, pc_native, stage>>
    BY <1>10 DEF vars, flashVars
  <2>2. UNCHANGED <<Held, Entered, Declined>>
    BY <2>1, HeldStays, EnteredStays
  <2> QED BY <2>1, <2>2 DEF Cache!vars
<1> QED
  BY <1>2, <1>3, <1>4, <1>5, <1>6, <1>7, <1>8, <1>9, <1>10 DEF Next, CompileStep

(* In a build whose caches are formatted at power-on, the dispatcher sees a
   map from PCs to whole translations, that grows by one entry at a time and
   takes nothing back, although blocks are compiled, undone, shrunk, crossed
   by data copies, and entered by two separate flash writes.                 *)
THEOREM CacheImplemented == ~CachePersist /\ Spec => ImplementsCache
<1> SUFFICES ASSUME ~CachePersist PROVE Spec => ImplementsCache
  OBVIOUS
<1>1. CacheInv /\ [Next]_vars => CacheInv'
  BY CacheInvNext
<1>2. CacheInv /\ CacheInv' /\ [Next]_vars => [Cache!Next]_(Cache!vars)
  BY StepSeen
<1> QED
  BY CacheInvInit, InitSeen, <1>1, <1>2, PTL DEF Spec, ImplementsCache, Cache!Spec
=============================================================================
