-------------------------- MODULE FullResolveProofs --------------------------
(***************************************************************************)
(* opt2_full_link_resolve is exhaustive: for every set of blocks without a *)
(* gap between them and fewer operands than MaxPatches, nothing linkable   *)
(* is left when its two scans are over.                                    *)
(*                                                                         *)
(* The invariant says of each scan what lies behind it: blocks in sectors  *)
(* it has left and in front of its offset have been dealt with, and what   *)
(* has been dealt with stays so.  That a scan stops only at the end of a   *)
(* sector's blocks needs the order in which they were compiled.            *)
(***************************************************************************)
EXTENDS BranchLinkerProofs

(* A block is compiled after those in front of it. *)
OrderInv ==
  \A b \in compiled : \A c \in Blocks :
    Code[c].sec = Code[b].sec /\ Code[c].base < Code[b].base => c \in compiled

(* The walk is at the first header of a sector or behind a block of it. *)
Behind(c, s, off) ==
  Code[c].sec = s /\ off = NextHeader(Code[c].base, Code[c].len)
WalkInv ==
  scan.off = FirstHeader \/ \E c \in compiled : Behind(c, scan.sec, scan.off)

(* Patches of a scan are operands that now hold an address. *)
Operands == Site \cup Exits
Programmed == {e \in Operands : operand[e] # NoAddr}
CountInv == scan.patched <= Cardinality(Programmed)

Reached(b) ==
  \/ Code[b].sec < scan.sec
  \/ Code[b].sec = scan.sec /\ Code[b].base < scan.off

ExitsInv ==
  /\ plan = <<"epilogues", "branches", "sweep">> =>
       \A b \in compiled : Reached(b) => ~Linkable(b)
  /\ plan \in {<<"branches", "sweep">>, <<"sweep">>} =>
       \A b \in compiled : ~Linkable(b)

Settled(b, x) == Patched(b, x.pos) \/ LeftBehind(b, x)
TemplatesInv ==
  /\ plan = <<"branches", "sweep">> =>
       \A b \in compiled : Reached(b) =>
         \A x \in Sites(b) : Settled(b, x) \/ (b \in scan.block /\ x \in scan.left)
  /\ plan = <<"sweep">> =>
       \A b \in compiled : \A x \in Sites(b) : Settled(b, x)

ResolveInv ==
  FewPatches /\ ChainUnbroken =>
    OrderInv /\ WalkInv /\ CountInv /\ ExitsInv /\ TemplatesInv
-----------------------------------------------------------------------------
(* Numbers and finite sets. *)
LEMMA NatMin ==
  ASSUME NEW S \in SUBSET Nat, S # {}
  PROVE  \E m \in S : \A n \in S : m <= n
<1>1. PICK m \in S : \A n \in S : ~ (<<n, m>> \in OpToRel(<, Nat))
  <2>1. S \subseteq Nat
    OBVIOUS
  <2> QED
    BY <2>1, NatLessThanWellFounded, WFMin
<1>2. \A n \in S : ~(n < m)
  BY <1>1 DEF OpToRel
<1>3. \A n \in S : n \in Nat
  OBVIOUS
<1>4. \A n \in S : m <= n
  BY <1>2, <1>3
<1> QED
  BY <1>4

LEMMA ImageFinite ==
  ASSUME NEW S, IsFiniteSet(S), NEW T, NEW f \in [S -> T],
         \A t \in T : \E s \in S : f[s] = t
  PROVE  IsFiniteSet(T)
<1>1. f \in Surjection(S, T)
  BY DEF Surjection
<1> QED
  BY <1>1, FS_Surjection

LEMMA OperandsFinite == IsFiniteSet(Operands)
<1>1. ASSUME NEW b \in Blocks
      PROVE  IsFiniteSet({<<b, x.pos>> : x \in Code[b].sites})
  <2> DEFINE T == {<<b, x.pos>> : x \in Code[b].sites}
             f == [x \in Code[b].sites |-> <<b, x.pos>>]
  <2>1. f \in [Code[b].sites -> T] /\ \A t \in T : \E s \in Code[b].sites : f[s] = t
    OBVIOUS
  <2>2. IsFiniteSet(Code[b].sites)
    BY GeometryAssumption
  <2> HIDE DEF f, T
  <2>3. IsFiniteSet(T)
    BY <2>1, <2>2, ImageFinite
  <2> QED
    BY <2>3 DEF T
<1>2. IsFiniteSet({{<<b, x.pos>> : x \in Code[b].sites} : b \in Blocks})
  <2> DEFINE P(b) == {<<b, x.pos>> : x \in Code[b].sites}
             T == {P(b) : b \in Blocks}
             f == [b \in Blocks |-> P(b)]
  <2> HIDE DEF P
  <2>1. f \in [Blocks -> T] /\ \A t \in T : \E s \in Blocks : f[s] = t
    OBVIOUS
  <2>2. IsFiniteSet(Blocks)
    BY GeometryAssumption
  <2> HIDE DEF f, T
  <2>3. IsFiniteSet(T)
    BY <2>1, <2>2, ImageFinite
  <2> QED
    BY <2>3 DEF T, P
<1>3. IsFiniteSet(Site)
  BY <1>1, <1>2, FS_UNION DEF Site
<1>4. IsFiniteSet(Exits)
  <2> DEFINE f == [b \in Blocks |-> <<b, EpiloguePos(b)>>]
  <2>1. f \in [Blocks -> Exits] /\ \A t \in Exits : \E s \in Blocks : f[s] = t
    BY DEF Exits
  <2>2. IsFiniteSet(Blocks)
    BY GeometryAssumption
  <2> HIDE DEF f
  <2> QED
    BY <2>1, <2>2, ImageFinite
<1> QED
  BY <1>3, <1>4, FS_Union DEF Operands

LEMMA ProgrammedFinite ==
  /\ IsFiniteSet(Programmed) /\ Cardinality(Programmed) \in Nat
  /\ Cardinality(Programmed) <= Cardinality(Operands)
<1>1. Programmed \in SUBSET Operands
  BY DEF Programmed
<1> QED
  BY <1>1, OperandsFinite, FS_Subset, FS_CardinalityType

(* A programmed operand stays, and a patch adds one. *)
LEMMA CountStays ==
  ASSUME OperandsKept
  PROVE  /\ IsFiniteSet(Programmed') /\ Cardinality(Programmed') \in Nat
         /\ Cardinality(Programmed) <= Cardinality(Programmed')
<1>1. Programmed' \in SUBSET Operands /\ Programmed \in SUBSET Programmed'
  BY DEF Programmed, OperandsKept, Operands
<1>2. IsFiniteSet(Programmed')
  BY <1>1, OperandsFinite, FS_Subset
<1> QED
  BY <1>1, <1>2, FS_Subset, FS_CardinalityType

LEMMA CountGrows ==
  ASSUME OperandsKept, NEW e \in Operands, operand[e] = NoAddr,
         operand'[e] # NoAddr
  PROVE  Cardinality(Programmed) + 1 <= Cardinality(Programmed')
<1>1. IsFiniteSet(Programmed') /\ IsFiniteSet(Programmed)
  BY CountStays, ProgrammedFinite
<1>2. e \notin Programmed /\ Programmed \cup {e} \in SUBSET Programmed'
  BY DEF Programmed, OperandsKept, Operands
<1>3. Cardinality(Programmed \cup {e}) = Cardinality(Programmed) + 1
  BY <1>1, <1>2, FS_AddElement
<1> QED
  BY <1>1, <1>2, <1>3, FS_Subset
-----------------------------------------------------------------------------
(* The pool has no first slot to choose only if it has none. *)
LEMMA PoolFull ==
  ASSUME NEW s, NEW na
  PROVE  PoolChoice(s, na) = {} <=>
           \A k \in PoolSlots : tramp[PoolSlot(s, k)] \notin {NoAddr, na}
<1> DEFINE open == {k \in PoolSlots : tramp[PoolSlot(s, k)] \in {NoAddr, na}}
<1>1. open \in SUBSET Nat
  BY DEF PoolSlots
<1>2. PoolChoice(s, na) = {k \in open : \A j \in open : k <= j}
  BY DEF PoolChoice
<1>3. open # {} => PoolChoice(s, na) # {}
  <2> SUFFICES ASSUME open # {} PROVE PoolChoice(s, na) # {}
    OBVIOUS
  <2> HIDE DEF open
  <2>1. PICK m \in open : \A n \in open : m <= n
    BY <1>1, NatMin
  <2> QED
    BY <1>2, <2>1
<1>4. open = {} => PoolChoice(s, na) = {}
  BY <1>2
<1> QED
  BY <1>3, <1>4

LEMMA PoolStaysFull ==
  ASSUME SlotsKept, NEW s \in Sector, NEW na, PoolChoice(s, na) = {}
  PROVE  PoolChoice(s, na)' = {}
<1>1. \A k \in PoolSlots : tramp'[PoolSlot(s, k)] \notin {NoAddr, na}
  <2> SUFFICES ASSUME NEW k \in PoolSlots
               PROVE  tramp'[PoolSlot(s, k)] \notin {NoAddr, na}
    OBVIOUS
  <2>1. tramp[PoolSlot(s, k)] \notin {NoAddr, na}
    BY PoolFull
  <2>2. PoolSlot(s, k) \in Slots
    BY PoolFacts
  <2> QED
    BY <2>1, <2>2 DEF SlotsKept
<1> QED
  BY <1>1 DEF PoolChoice

(* What has been dealt with stays so. *)
LEMMA ExitStays ==
  ASSUME OperandsKept, native' = native, NEW b \in Blocks, ~Linkable(b)
  PROVE  ~Linkable(b)'
BY ExitFact DEF Linkable, Patched, OperandsKept

LEMMA TemplateStays ==
  ASSUME OperandsKept, SlotsKept, native' = native,
         NEW b \in Blocks, NEW x \in Sites(b), Settled(b, x)
  PROVE  Settled(b, x)'
<1>1. CASE Patched(b, x.pos)
  <2>1. <<b, x.pos>> \in Site
    BY SiteFacts DEF Sites
  <2> QED
    BY <1>1, <2>1 DEF Settled, Patched, OperandsKept
<1>2. CASE LeftBehind(b, x)
  <2>1. Code[b].sec \in Sector
    BY BlockFacts
  <2>2. BranchLinkable(b, x)' <=> BranchLinkable(b, x)
    BY DEF BranchLinkable
  <2>3. PICK na : na = native[x.target]
    OBVIOUS
  <2>4. PoolChoice(Code[b].sec, na) = {} => PoolChoice(Code[b].sec, na)' = {}
    BY <2>1, PoolStaysFull
  <2> QED
    BY <1>2, <2>2, <2>3, <2>4 DEF Settled, LeftBehind, PoolChoice
<1> QED
  BY <1>1, <1>2 DEF Settled
-----------------------------------------------------------------------------
(* The walk from header to header. *)
LEMMA HeadersApart ==
  ASSUME NEW b \in Blocks, NEW c \in Blocks, Code[b].sec = Code[c].sec,
         Code[b].base <= Code[c].base
  PROVE  b = c \/ NextHeader(Code[b].base, Code[b].len) <= Code[c].base
<1>1. /\ Code[b].base \in Nat /\ Code[c].base \in Nat
      /\ Code[b].len \in Nat /\ Code[c].len \in Nat
      /\ EpiloguePos(b) \in Nat /\ EpiloguePos(b) < Code[b].len
      /\ EpiloguePos(c) \in Nat /\ EpiloguePos(c) < Code[c].len
  BY BlockFacts
<1>2. /\ NextHeader(Code[c].base, Code[c].len) \in Nat
      /\ NextHeader(Code[c].base, Code[c].len)
           >= BlockEnd(Code[c].base, Code[c].len)
  BY <1>1, NextHeaderFacts
<1>3. BlockEnd(Code[c].base, Code[c].len) > Code[c].base
  BY <1>1 DEF BlockEnd, BlockHeaderSize
<1>4. ~(NextHeader(Code[c].base, Code[c].len) <= Code[b].base)
  BY <1>1, <1>2, <1>3 DEF BlockEnd, BlockHeaderSize
<1> QED
  BY <1>4, BlocksApart

(* No header at the walk's place: no block of the sector lies behind it. *)
LEMMA NoneAhead ==
  ASSUME LinkInv, ChainUnbroken, OrderInv, WalkInv,
         BlocksAt(scan.sec, scan.off) = {},
         NEW b \in compiled, Code[b].sec = scan.sec
  PROVE  Code[b].base < scan.off
<1> DEFINE ahead == {Code[c].base : c \in {d \in compiled :
                       Code[d].sec = scan.sec /\ Code[d].base >= scan.off}}
<1>0. /\ compiled \subseteq Blocks /\ scan.off \in Nat
      /\ \A c \in Blocks : Code[c].base \in Nat
  <2>1. scan.off \in 0..SectorSize
    BY DEF LinkInv, TypeInv, Scans
  <2>2. compiled \subseteq Blocks
    BY DEF LinkInv, TypeInv
  <2> QED
    BY <2>1, <2>2, BlockFacts, PoolBase
<1> SUFFICES ASSUME Code[b].base >= scan.off PROVE FALSE
  BY <1>0
<1>1. ahead \in SUBSET Nat /\ ahead # {}
  BY <1>0
<1>2. PICK m \in ahead : \A n \in ahead : m <= n
  <2> HIDE DEF ahead
  <2> QED
    BY <1>1, NatMin
<1>3. PICK c \in compiled : /\ Code[c].sec = scan.sec
                            /\ Code[c].base >= scan.off /\ Code[c].base = m
  BY <1>2
<1>c. c \in Blocks /\ Code[c].base \in Nat
  BY <1>0, <1>3
<1>4. \A d \in compiled : Code[d].sec = scan.sec /\ Code[d].base >= scan.off
        => Code[c].base <= Code[d].base
  BY <1>2, <1>3
<1>5. Code[c].base # scan.off
  BY <1>3 DEF BlocksAt
<1>6. Code[c].base > scan.off
  BY <1>0, <1>c, <1>3, <1>5
<1>7. scan.off >= FirstHeader
  <2>1. CASE scan.off = FirstHeader
    BY <2>1, <1>0
  <2>2. ASSUME NEW d \in compiled, Behind(d, scan.sec, scan.off)
        PROVE  scan.off >= FirstHeader
    <3>1. d \in Blocks /\ scan.off = NextHeader(Code[d].base, Code[d].len)
      BY <1>0, <2>2 DEF Behind
    <3>2. Code[d].base \in Nat /\ Code[d].base >= HeaderPos /\ Code[d].len \in Nat
      BY <3>1, BlockFacts
    <3>3. scan.off >= BlockEnd(Code[d].base, Code[d].len)
      BY <3>1, <3>2, NextHeaderFacts
    <3> QED
      BY <1>0, <3>2, <3>3, FirstHeaderFact
         DEF BlockEnd, HeaderPos, BlockAlignment, BlockHeaderSize
  <2> QED
    BY <2>1, <2>2 DEF WalkInv
<1>8. FirstHeader \in Nat
  BY FirstHeaderFact DEF HeaderPos, BlockAlignment, BlockHeaderSize
<1>9. Code[c].base # FirstHeader
  BY <1>0, <1>c, <1>6, <1>7, <1>8
<1>10. PICK d \in Blocks : /\ Code[d].sec = Code[c].sec
                           /\ Code[c].base = NextHeader(Code[d].base, Code[d].len)
  BY <1>c, <1>9 DEF ChainUnbroken
<1>11. /\ Code[d].base \in Nat /\ Code[d].len \in Nat
       /\ Code[d].base < Code[c].base
  <2>1. Code[d].base \in Nat /\ Code[d].len \in Nat
    BY BlockFacts
  <2>2. Code[c].base >= BlockEnd(Code[d].base, Code[d].len)
    BY <1>10, <2>1, NextHeaderFacts
  <2> QED
    BY <1>c, <2>1, <2>2 DEF BlockEnd, BlockHeaderSize
<1>12. d \in compiled
  BY <1>3, <1>10, <1>11 DEF OrderInv
<1>13. Code[d].base < scan.off
  BY <1>0, <1>3, <1>4, <1>10, <1>11, <1>12, <1>c
<1>14. PICK e \in compiled : Behind(e, scan.sec, scan.off)
  <2>1. scan.off # FirstHeader
    <3>1. Code[d].base >= HeaderPos
      BY BlockFacts
    <3> QED
      BY <1>0, <1>8, <1>11, <1>13, <3>1, FirstHeaderFact
  <2> QED
    BY <2>1 DEF WalkInv
<1>15. /\ e \in Blocks /\ Code[e].sec = Code[d].sec
       /\ scan.off = NextHeader(Code[e].base, Code[e].len)
       /\ Code[e].base \in Nat
  BY <1>0, <1>3, <1>10, <1>14 DEF Behind
<1>16. CASE d = e
  BY <1>5, <1>10, <1>15, <1>16
<1>17. CASE d # e /\ Code[d].base <= Code[e].base
  <2>1. Code[c].base <= Code[e].base
    BY <1>10, <1>15, <1>17, HeadersApart
  <2>2. Code[e].base < scan.off
    <3>1. Code[e].len \in Nat
      BY <1>15, BlockFacts
    <3>2. scan.off >= BlockEnd(Code[e].base, Code[e].len)
      BY <1>15, <3>1, NextHeaderFacts
    <3> QED
      BY <1>0, <1>15, <3>1, <3>2 DEF BlockEnd, BlockHeaderSize
  <2> QED
    BY <1>0, <1>6, <1>15, <1>c, <2>1, <2>2
<1>18. CASE d # e /\ Code[e].base <= Code[d].base
  <2>1. scan.off <= Code[d].base
    BY <1>15, <1>18, HeadersApart
  <2> QED
    BY <1>0, <1>11, <1>13, <2>1
<1> QED
  BY <1>11, <1>15, <1>16, <1>17, <1>18

(* Stepping over a block reaches that block and no other. *)
LEMMA StepOver ==
  ASSUME LinkInv, NEW b \in BlocksAt(scan.sec, scan.off), NEW c \in Blocks,
         Code[c].sec = scan.sec,
         Code[c].base < NextHeader(scan.off, Code[b].len)
  PROVE  Code[c].base < scan.off \/ c = b
<1>1. b \in Blocks /\ Code[b].sec = scan.sec /\ Code[b].base = scan.off
  BY BlocksAtFacts
<1>2. Code[b].base \in Nat /\ Code[c].base \in Nat /\ Code[b].len \in Nat
  BY <1>1, BlockFacts
<1>3. NextHeader(Code[b].base, Code[b].len) \in Nat
  BY <1>2, NextHeaderFacts
<1>4. CASE Code[b].base <= Code[c].base
  BY <1>1, <1>2, <1>3, <1>4, HeadersApart
<1> QED
  BY <1>1, <1>2, <1>4

LEMMA WalkOver ==
  ASSUME LinkInv, NEW b \in BlocksAt(scan.sec, scan.off),
         compiled' = compiled, scan'.sec = scan.sec,
         scan'.off = NextHeader(scan.off, Code[b].len)
  PROVE  /\ WalkInv'
         /\ \A c \in compiled : Reached(c)' => Reached(c) \/ c = b
<1>1. b \in Blocks /\ b \in compiled /\ Code[b].sec = scan.sec
      /\ Code[b].base = scan.off
  BY BlocksAtFacts
<1>2. WalkInv'
  BY <1>1 DEF WalkInv, Behind
<1>3. ASSUME NEW c \in compiled, Reached(c)'
      PROVE  Reached(c) \/ c = b
  <2>1. c \in Blocks
    BY DEF LinkInv, TypeInv
  <2> QED
    BY <1>3, <2>1, StepOver DEF Reached
<1> QED
  BY <1>2, <1>3

(* Nothing is reached where a scan starts. *)
LEMMA StartReachesNothing ==
  ASSUME scan' = ScanStart, NEW b \in Blocks
  PROVE  ~Reached(b)'
<1>1. /\ Code[b].sec \in Nat /\ Code[b].base \in Nat
      /\ Code[b].base >= FirstHeader
  BY BlockFacts, FirstHeaderFact DEF Sector
<1>2. scan'.sec = 0 /\ scan'.off = FirstHeader
  BY DEF ScanStart
<1>3. FirstHeader \in Nat
  BY FirstHeaderFact DEF HeaderPos, BlockAlignment, BlockHeaderSize
<1> QED
  BY <1>1, <1>2, <1>3 DEF Reached
-----------------------------------------------------------------------------
(* The steps. *)
Core == OrderInv /\ WalkInv /\ CountInv /\ ExitsInv /\ TemplatesInv

LEMMA CoreInit == Init => Core
<1> SUFFICES ASSUME Init PROVE Core
  OBVIOUS
<1>1. /\ compiled = {} /\ plan = <<>> /\ scan.off = FirstHeader
      /\ scan.patched = 0
  BY DEF Init, ScanStart
<1>2. <<>> # <<"sweep">> /\ <<>> # <<"branches", "sweep">>
      /\ <<>> # <<"epilogues", "branches", "sweep">>
  OBVIOUS
<1>3. CountInv
  BY <1>1, ProgrammedFinite DEF CountInv
<1> QED
  BY <1>1, <1>2, <1>3 DEF Core, OrderInv, WalkInv, ExitsInv, TemplatesInv

LEMMA OrderStays ==
  ASSUME OrderInv, compiled' = compiled
  PROVE  OrderInv'
BY DEF OrderInv

(* The scans stop at the end of the last sector, not at MaxPatches. *)
LEMMA NeverTooMany ==
  ASSUME LinkInv, FewPatches, CountInv
  PROVE  scan.patched \in Nat /\ scan.patched < MaxPatches
<1>1. scan.patched \in Nat /\ MaxPatches \in Nat
  BY LinkerAssumption DEF LinkInv, TypeInv, Scans
<1>2. /\ Cardinality(Operands) < MaxPatches /\ Cardinality(Operands) \in Nat
  BY OperandsFinite, FS_CardinalityType DEF FewPatches, Operands
<1> QED
  BY <1>1, <1>2, ProgrammedFinite DEF CountInv

(* A pass that is not one of the two scans has just begun, or none. *)
LEMMA StartStep ==
  ASSUME OrderInv', scan' = ScanStart,
         plan' \notin {<<"branches", "sweep">>, <<"sweep">>},
         compiled' \subseteq Blocks
  PROVE  Core'
<1>1. scan'.off = FirstHeader /\ scan'.patched = 0
  BY DEF ScanStart
<1>2. WalkInv'
  BY <1>1 DEF WalkInv
<1>3. IsFiniteSet(Programmed') /\ Cardinality(Programmed') \in Nat
  <2>1. Programmed' \in SUBSET Operands
    BY DEF Programmed, Operands
  <2> QED
    BY <2>1, OperandsFinite, FS_Subset, FS_CardinalityType
<1>4. CountInv'
  BY <1>1, <1>3 DEF CountInv
<1>5. ExitsInv' /\ TemplatesInv'
  BY StartReachesNothing DEF ExitsInv, TemplatesInv
<1> QED
  BY <1>2, <1>4, <1>5 DEF Core

(* A step that does not move a scan. *)
LEMMA StayStep ==
  ASSUME LinkInv, Core, OperandsKept, SlotsKept,
         UNCHANGED <<compiled, native, plan>>,
         scan'.sec = scan.sec, scan'.off = scan.off,
         scan'.patched = scan.patched, scan'.left = scan.left,
         scan'.block = scan.block
  PROVE  Core'
<1>1. OrderInv' /\ WalkInv'
  BY DEF Core, OrderInv, WalkInv, Behind
<1>2. CountInv'
  <2>1. scan.patched \in Nat
    BY DEF LinkInv, TypeInv, Scans
  <2> QED
    BY <2>1, CountStays, ProgrammedFinite DEF Core, CountInv
<1>3. compiled \subseteq Blocks
  BY DEF LinkInv, TypeInv
<1>4. \A b \in compiled : Reached(b)' <=> Reached(b)
  BY DEF Reached
<1>5. ExitsInv'
  BY <1>3, <1>4, ExitStays DEF Core, ExitsInv
<1>6. TemplatesInv'
  BY <1>3, <1>4, TemplateStays DEF Core, TemplatesInv
<1> QED
  BY <1>1, <1>2, <1>5, <1>6 DEF Core

LEMMA SectorCore ==
  ASSUME LinkInv, FewPatches, ChainUnbroken, Core, FullScanSector
  PROVE  Core'
<1>1. /\ plan # <<>> /\ Head(plan) \in {"epilogues", "branches"}
      /\ scan.left = {} /\ scan.sec < Sectors
      /\ BlocksAt(scan.sec, scan.off) = {}
      /\ scan' = [scan EXCEPT !.sec = scan.sec + 1, !.off = FirstHeader]
      /\ UNCHANGED <<operand, tramp, plan, compiled, native>>
  <2>1. scan.sec \in 0..Sectors /\ Sectors \in Nat
    BY LinkerAssumption DEF LinkInv, TypeInv, Scans
  <2> QED
    BY <2>1 DEF FullScanSector, InFullScan, ScanDone, SectorDone, NextSector,
       linkVars, codeVars
<1>2. scan \in Scans /\ compiled \subseteq Blocks /\ scan.sec \in Nat
  BY LinkerAssumption DEF LinkInv, TypeInv, Scans
<1>3. /\ scan'.sec = scan.sec + 1 /\ scan'.off = FirstHeader
      /\ scan'.patched = scan.patched /\ scan'.left = {}
      /\ scan'.block = scan.block
  BY <1>1, <1>2 DEF Scans
<1>4. OperandsKept /\ SlotsKept
  BY <1>1 DEF OperandsKept, SlotsKept
<1>5. ASSUME NEW b \in compiled, Reached(b)'
      PROVE  Reached(b)
  <2>1. /\ Code[b].sec \in Nat /\ Code[b].base \in Nat
        /\ Code[b].base >= FirstHeader
    BY <1>2, BlockFacts, FirstHeaderFact DEF Sector
  <2>2. FirstHeader \in Nat
    BY FirstHeaderFact DEF HeaderPos, BlockAlignment, BlockHeaderSize
  <2>3. Code[b].sec <= scan.sec
    BY <1>2, <1>3, <1>5, <2>1, <2>2 DEF Reached
  <2>4. CASE Code[b].sec = scan.sec
    BY <1>1, <2>4, NoneAhead DEF Core, Reached
  <2> QED
    BY <1>2, <2>1, <2>3, <2>4 DEF Reached
<1>6. OrderInv' /\ WalkInv'
  BY <1>1, <1>3, OrderStays DEF Core, WalkInv
<1>7. CountInv'
  BY <1>1, <1>3 DEF Core, CountInv, Programmed
<1>8. ExitsInv'
  BY <1>1, <1>2, <1>4, <1>5, ExitStays DEF Core, ExitsInv
<1>9. TemplatesInv'
  BY <1>1, <1>2, <1>4, <1>5, TemplateStays DEF Core, TemplatesInv
<1> QED
  BY <1>6, <1>7, <1>8, <1>9 DEF Core

LEMMA EpilogueCore ==
  ASSUME LinkInv, Core, OperandsKept, SlotsKept, NEW b \in Blocks,
         FullEpilogueScan(b)
  PROVE  Core'
<1>1. /\ plan # <<>> /\ Head(plan) = "epilogues"
      /\ b \in BlocksAt(scan.sec, scan.off) /\ LinkEpilogues({b})
      /\ scan' = [scan EXCEPT !.off = NextHeader(scan.off, Code[b].len),
                              !.patched = IF Linkable(b) THEN scan.patched + 1
                                                         ELSE scan.patched]
      /\ UNCHANGED <<tramp, plan, compiled, native>>
  BY DEF FullEpilogueScan, InFullScan, codeVars
<1>2. /\ scan \in Scans /\ compiled \subseteq Blocks /\ scan.patched \in Nat
      /\ operand \in [Site \cup Exits -> Address]
  BY DEF LinkInv, TypeInv, Scans
<1>3. /\ scan'.sec = scan.sec
      /\ scan'.off = NextHeader(scan.off, Code[b].len)
      /\ scan'.patched = IF Linkable(b) THEN scan.patched + 1 ELSE scan.patched
  BY <1>1, <1>2 DEF Scans
<1>4. /\ WalkInv' /\ OrderInv'
      /\ \A c \in compiled : Reached(c)' => Reached(c) \/ c = b
  BY <1>1, <1>3, WalkOver, OrderStays DEF Core
<1>5. Linkable(b) => /\ operand[<<b, EpiloguePos(b)>>] = NoAddr
                     /\ operand'[<<b, EpiloguePos(b)>>] # NoAddr
  <2> SUFFICES ASSUME Linkable(b)
               PROVE  /\ operand[<<b, EpiloguePos(b)>>] = NoAddr
                      /\ operand'[<<b, EpiloguePos(b)>>] # NoAddr
    OBVIOUS
  <2>1. <<b, EpiloguePos(b)>> \in DOMAIN operand
    BY <1>2, ExitFact
  <2>2. operand'[<<b, EpiloguePos(b)>>] = native[Code[b].exit]
    BY <1>1, <2>1 DEF LinkEpilogues
  <2> QED
    BY <2>2 DEF Linkable, Patched
<1>6. CountInv'
  <2>1. CASE Linkable(b)
    <3>1. <<b, EpiloguePos(b)>> \in Operands
      BY ExitFact DEF Operands
    <3>2. Cardinality(Programmed) + 1 <= Cardinality(Programmed')
      BY <1>5, <2>1, <3>1, CountGrows
    <3> QED
      BY <1>2, <1>3, <2>1, <3>2, ProgrammedFinite, CountStays
         DEF Core, CountInv
  <2>2. CASE ~Linkable(b)
    BY <1>2, <1>3, <2>2, ProgrammedFinite, CountStays DEF Core, CountInv
  <2> QED
    BY <2>1, <2>2
<1>7. ~Linkable(b)'
  <2>1. CASE Linkable(b)
    BY <1>5, <2>1 DEF Linkable, Patched
  <2>2. CASE ~Linkable(b)
    BY <1>1, <2>2, ExitStays
  <2> QED
    BY <2>1, <2>2
<1>8. plan = <<"epilogues", "branches", "sweep">>
      /\ plan \notin {<<"branches", "sweep">>, <<"sweep">>}
  BY <1>1 DEF LinkInv, TypeInv, Plans
<1>9. ExitsInv'
  BY <1>1, <1>2, <1>4, <1>7, <1>8, ExitStays DEF Core, ExitsInv
<1>10. TemplatesInv'
  BY <1>1, <1>8 DEF TemplatesInv
<1> QED
  BY <1>4, <1>6, <1>9, <1>10 DEF Core

LEMMA EnterCore ==
  ASSUME LinkInv, Core, NEW b \in Blocks, EnterBlock(b)
  PROVE  Core'
<1>1. /\ plan # <<>> /\ Head(plan) = "branches" /\ scan.left = {}
      /\ b \in BlocksAt(scan.sec, scan.off)
      /\ scan' = [scan EXCEPT
           !.off = NextHeader(scan.off, Code[b].len), !.block = {b},
           !.own = NoAddr, !.left = {x \in Sites(b) : ~Patched(b, x.pos)}]
      /\ UNCHANGED <<operand, tramp, plan, compiled, native>>
  BY DEF EnterBlock, Unpatched, InFullScan, Sites, linkVars, codeVars
<1>2. scan \in Scans /\ compiled \subseteq Blocks
  BY DEF LinkInv, TypeInv
<1>3. /\ scan'.sec = scan.sec
      /\ scan'.off = NextHeader(scan.off, Code[b].len)
      /\ scan'.patched = scan.patched /\ scan'.block = {b}
      /\ scan'.left = {x \in Sites(b) : ~Patched(b, x.pos)}
  BY <1>1, <1>2 DEF Scans
<1>4. /\ WalkInv' /\ OrderInv'
      /\ \A c \in compiled : Reached(c)' => Reached(c) \/ c = b
  BY <1>1, <1>3, WalkOver, OrderStays DEF Core
<1>5. CountInv'
  BY <1>1, <1>3 DEF Core, CountInv, Programmed
<1>6. OperandsKept /\ SlotsKept
  BY <1>1 DEF OperandsKept, SlotsKept
<1>7. plan = <<"branches", "sweep">>
      /\ plan \notin {<<"epilogues", "branches", "sweep">>, <<"sweep">>}
  <2>1. plan = <<"branches", "sweep">>
    BY <1>1, PlanFacts DEF LinkInv, TypeInv
  <2> QED
    BY <2>1
<1>8. ExitsInv'
  BY <1>1, <1>2, <1>6, <1>7, ExitStays DEF Core, ExitsInv
<1>9. ASSUME NEW c \in compiled, Reached(c)', NEW x \in Sites(c)
      PROVE  Settled(c, x)' \/ (c \in scan'.block /\ x \in scan'.left)
  <2>1. CASE Reached(c)
    <3>1. Settled(c, x)
      BY <1>1, <1>7, <2>1 DEF Core, TemplatesInv
    <3> QED
      BY <1>1, <1>2, <1>6, <3>1, TemplateStays
  <2>2. CASE c = b
    <3>1. CASE Patched(b, x.pos)
      <4>1. Settled(c, x)
        BY <2>2, <3>1 DEF Settled
      <4> QED
        BY <1>1, <1>2, <1>6, <4>1, TemplateStays
    <3>2. CASE ~Patched(b, x.pos)
      BY <1>3, <2>2, <3>2
    <3> QED
      BY <3>1, <3>2
  <2> QED
    BY <1>4, <1>9, <2>1, <2>2
<1>10. TemplatesInv'
  BY <1>1, <1>7, <1>9 DEF TemplatesInv
<1> QED
  BY <1>4, <1>5, <1>8, <1>10 DEF Core

(* A step of the branch scan deals with one template of the block it is in. *)
LEMMA LookedAtCore ==
  ASSUME LinkInv, Core, OperandsKept, SlotsKept, LinkInv',
         plan = <<"branches", "sweep">>,
         UNCHANGED <<plan, compiled, native>>,
         NEW b \in scan.block, NEW x \in scan.left, b \in Blocks, x \in Sites(b),
         scan'.sec = scan.sec, scan'.off = scan.off, scan'.block = scan.block,
         scan'.left = scan.left \ {x}, Settled(b, x)', CountInv'
  PROVE  Core'
<1>1. OrderInv' /\ WalkInv'
  BY DEF Core, OrderInv, WalkInv, Behind
<1>2. compiled \subseteq Blocks
  BY DEF LinkInv, TypeInv
<1>3. plan \notin {<<"epilogues", "branches", "sweep">>, <<"sweep">>}
  OBVIOUS
<1>4. ExitsInv'
  BY <1>2, <1>3, ExitStays DEF Core, ExitsInv
<1>5. ASSUME NEW c \in compiled, Reached(c)', NEW y \in Sites(c)
      PROVE  Settled(c, y)' \/ (c \in scan'.block /\ y \in scan'.left)
  <2>1. Settled(c, y) \/ (c \in scan.block /\ y \in scan.left)
    BY <1>5 DEF Core, TemplatesInv, Reached
  <2>2. CASE Settled(c, y)
    BY <1>2, <2>2, TemplateStays
  <2>3. CASE c \in scan.block /\ y \in scan.left /\ y # x
    BY <2>3
  <2>4. CASE c \in scan.block /\ y = x
    <3>1. c = b
      BY <2>4 DEF LinkInv, ScanInv
    <3> QED
      BY <2>4, <3>1
  <2> QED
    BY <2>1, <2>2, <2>3, <2>4
<1>6. TemplatesInv'
  BY <1>3, <1>5 DEF TemplatesInv
<1> QED
  BY <1>1, <1>4, <1>6 DEF Core

LEMMA TemplateCore ==
  ASSUME LinkInv, Core, OperandsKept, SlotsKept, LinkInv',
         NEW b \in Blocks, NEW x \in Code[b].sites, ScanTemplate(b, x)
  PROVE  Core'
<1>1. /\ InBranches /\ b \in scan.block /\ x \in scan.left
      /\ UNCHANGED <<pending, plan, cursor, codeVars, settleVars>>
  BY DEF ScanTemplate, InBranches
<1>2. /\ plan = <<"branches", "sweep">> /\ UNCHANGED <<plan, compiled, native>>
  <2>1. plan \in Plans
    BY DEF LinkInv, TypeInv
  <2> QED
    BY <1>1, <2>1, PlanFacts DEF InBranches, codeVars
<1>3. /\ scan \in Scans /\ x \in Sites(b) /\ ~Patched(b, x.pos)
      /\ scan.patched \in Nat /\ operand \in [Site \cup Exits -> Address]
  <2>1. scan \in Scans /\ operand \in [Site \cup Exits -> Address]
    BY DEF LinkInv, TypeInv
  <2>2. x \in Sites(b) /\ ~Patched(b, x.pos)
    BY <1>1 DEF LinkInv, ScanInv, Sites
  <2> QED
    BY <2>1, <2>2 DEF Scans
<1>4. CASE LeaveTemplate(x) /\ LeftBehind(b, x)
  <2>1. /\ scan' = [scan EXCEPT !.left = scan.left \ {x}]
        /\ UNCHANGED <<operand, tramp>>
    BY <1>4 DEF LeaveTemplate
  <2>2. /\ scan'.sec = scan.sec /\ scan'.off = scan.off
        /\ scan'.block = scan.block /\ scan'.left = scan.left \ {x}
        /\ scan'.patched = scan.patched
    BY <1>3, <2>1 DEF Scans
  <2>3. Settled(b, x)'
    BY <1>2, <1>3, <1>4, TemplateStays DEF Settled
  <2>4. CountInv'
    BY <2>1, <2>2 DEF Core, CountInv, Programmed
  <2> QED
    BY <1>1, <1>2, <1>3, <2>2, <2>3, <2>4, LookedAtCore
<1>5. ASSUME NEW via \in Address, NEW writes \in BOOLEAN, NEW own \in Address,
             GoodPatch(b, x, via, writes, own)
      PROVE  Core'
  <2>1. /\ operand' = [operand EXCEPT ![<<b, x.pos>>] = via]
        /\ via # NoAddr
    BY <1>1, <1>5, PatchStep DEF GoodPatch
  <2>2. scan' = [scan EXCEPT !.left = scan.left \ {x}, !.own = own,
                             !.patched = scan.patched + 1]
    BY <1>5 DEF GoodPatch, PatchTemplate
  <2>3. /\ scan'.sec = scan.sec /\ scan'.off = scan.off
        /\ scan'.block = scan.block /\ scan'.left = scan.left \ {x}
        /\ scan'.patched = scan.patched + 1
    BY <1>3, <2>2 DEF Scans
  <2>4. <<b, x.pos>> \in Site
    BY SiteFacts
  <2>5. operand'[<<b, x.pos>>] = via /\ operand[<<b, x.pos>>] = NoAddr
    BY <1>3, <2>1, <2>4 DEF Patched
  <2>6. Settled(b, x)'
    BY <2>1, <2>5 DEF Settled, Patched
  <2>7. CountInv'
    <3>1. <<b, x.pos>> \in Operands
      BY <2>4 DEF Operands
    <3>2. Cardinality(Programmed) + 1 <= Cardinality(Programmed')
      BY <2>1, <2>5, <3>1, CountGrows
    <3> QED
      BY <1>3, <2>3, <3>2, ProgrammedFinite, CountStays DEF Core, CountInv
  <2> QED
    BY <1>1, <1>2, <1>3, <2>3, <2>6, <2>7, LookedAtCore
<1> QED
  BY <1>4, <1>5, ScanOutcome

(* A scan ends with every block behind it. *)
LEMMA EndCore ==
  ASSUME LinkInv, FewPatches, Core, FullScanEnd
  PROVE  Core'
<1>1. /\ plan # <<>> /\ Head(plan) \in {"epilogues", "branches"}
      /\ ScanDone /\ (scan.left = {} \/ scan.patched >= MaxPatches)
      /\ plan' = Tail(plan) /\ scan' = ScanStart
      /\ UNCHANGED <<operand, tramp, pending, compiled, native>>
  BY DEF FullScanEnd, NextPass, linkVars, codeVars
<1>2. scan.patched \in Nat /\ scan.patched < MaxPatches /\ MaxPatches \in Nat
  BY NeverTooMany, LinkerAssumption DEF Core
<1>3. scan.sec >= Sectors /\ scan.left = {} /\ scan.sec \in Nat
  <2>1. scan.sec \in Nat
    BY LinkerAssumption DEF LinkInv, TypeInv, Scans
  <2> QED
    BY <1>1, <1>2, <2>1 DEF ScanDone
<1>4. compiled \subseteq Blocks
  BY DEF LinkInv, TypeInv
<1>5. \A b \in compiled : Reached(b)
  <2> SUFFICES ASSUME NEW b \in compiled PROVE Reached(b)
    OBVIOUS
  <2>1. Code[b].sec \in Sector
    BY <1>4, BlockFacts
  <2> QED
    BY <1>3, <2>1, LinkerAssumption DEF Sector, Reached
<1>6. OperandsKept /\ SlotsKept
  BY <1>1 DEF OperandsKept, SlotsKept
<1>7. OrderInv'
  BY <1>1, OrderStays DEF Core
<1>8. WalkInv' /\ CountInv'
  <2>1. scan'.off = FirstHeader /\ scan'.patched = 0
    BY <1>1 DEF ScanStart
  <2> QED
    BY <2>1, <1>6, CountStays DEF WalkInv, CountInv
<1>9. CASE Head(plan) = "epilogues"
  <2>1. plan' = <<"branches", "sweep">>
    BY <1>1, <1>9, PlanFacts DEF LinkInv, TypeInv
  <2>2. plan = <<"epilogues", "branches", "sweep">>
    BY <1>1, <1>9 DEF LinkInv, TypeInv, Plans
  <2>3. \A b \in compiled : ~Linkable(b)'
    BY <1>1, <1>4, <1>5, <1>6, <2>2, ExitStays DEF Core, ExitsInv
  <2>4. ExitsInv'
    BY <1>1, <2>1, <2>3 DEF ExitsInv
  <2>5. \A b \in compiled : ~Reached(b)'
    BY <1>1, <1>4, StartReachesNothing
  <2>6. TemplatesInv'
    BY <1>1, <2>1, <2>5 DEF TemplatesInv
  <2> QED
    BY <1>7, <1>8, <2>4, <2>6 DEF Core
<1>10. CASE Head(plan) = "branches"
  <2>1. plan = <<"branches", "sweep">>
    BY <1>1, <1>10, PlanFacts DEF LinkInv, TypeInv
  <2>2. plan' = <<"sweep">>
    BY <1>1, <2>1
  <2>3. \A b \in compiled : ~Linkable(b)'
    BY <1>1, <1>4, <1>6, <2>1, ExitStays DEF Core, ExitsInv
  <2>4. ExitsInv'
    BY <1>1, <2>2, <2>3 DEF ExitsInv
  <2>5. \A b \in compiled : \A x \in Sites(b) : Settled(b, x)
    BY <1>3, <1>5, <2>1 DEF Core, TemplatesInv
  <2>6. \A b \in compiled : \A x \in Sites(b) : Settled(b, x)'
    BY <1>1, <1>4, <1>6, <2>5, TemplateStays
  <2>7. TemplatesInv'
    BY <1>1, <2>2, <2>6 DEF TemplatesInv
  <2> QED
    BY <1>7, <1>8, <2>4, <2>7 DEF Core
<1> QED
  BY <1>1, <1>9, <1>10

(* The passes that are no scan, the frame tick and a compile. *)
LEMMA CompileCore ==
  ASSUME Core, LinkInv', NEW b \in Blocks, CompileBlock(b)
  PROVE  Core'
<1>1. /\ compiled' = compiled \cup {b} /\ scan' = ScanStart
      /\ plan' = <<"sweep", "batch">> \/ plan' = <<>>
      /\ \A c \in Blocks :
           Code[c].sec = Code[b].sec /\ Code[c].base < Code[b].base
             => c \in compiled
  BY DEF CompileBlock, LightSweep
<1>2. OrderInv'
  BY <1>1 DEF Core, OrderInv
<1>3. plan' \notin {<<"branches", "sweep">>, <<"sweep">>}
  BY <1>1
<1>4. compiled' \subseteq Blocks
  BY DEF LinkInv, TypeInv
<1> QED
  BY <1>1, <1>2, <1>3, <1>4, StartStep

LEMMA CallCore ==
  ASSUME Core, LinkInv', FrameTick
  PROVE  Core'
<1>1. /\ compiled' = compiled /\ scan' = ScanStart
      /\ plan' \in {<<>>, LightSweep, FullResolve}
  BY DEF FrameTick, TickSettled, TickUnsettled, codeVars
<1>2. plan' \notin {<<"branches", "sweep">>, <<"sweep">>}
  BY <1>1 DEF LightSweep, FullResolve
<1>3. OrderInv'
  BY <1>1, OrderStays DEF Core
<1>4. compiled' \subseteq Blocks
  BY DEF LinkInv, TypeInv
<1> QED
  BY <1>1, <1>2, <1>3, <1>4, StartStep

LEMMA PassCore ==
  ASSUME LinkInv, Core, LinkInv', SweepEnd \/ BatchEnd
  PROVE  Core'
<1>1. /\ plan # <<>> /\ Head(plan) \in {"sweep", "batch"}
      /\ plan' = Tail(plan) /\ scan' = ScanStart /\ compiled' = compiled
  BY DEF SweepEnd, BatchEnd, NextPass, codeVars
<1>2. plan' \notin {<<"branches", "sweep">>, <<"sweep">>}
  BY <1>1, PlanFacts DEF LinkInv, TypeInv
<1>3. OrderInv'
  BY <1>1, OrderStays DEF Core
<1>4. compiled' \subseteq Blocks
  BY DEF LinkInv, TypeInv
<1> QED
  BY <1>1, <1>2, <1>3, <1>4, StartStep

LEMMA SweepCore ==
  ASSUME LinkInv, Core, OperandsKept, SlotsKept, SweepEntry \/ BatchStep
  PROVE  Core'
<1>1. /\ UNCHANGED <<compiled, native, plan>>
      /\ \/ scan' = scan
         \/ scan' = [scan EXCEPT !.index = scan.index + 1]
         \/ scan' = [scan EXCEPT !.steps = scan.steps - 1]
  BY DEF SweepEntry, SkipEntry, BatchStep, codeVars
<1>2. scan \in Scans
  BY DEF LinkInv, TypeInv
<1>3. /\ scan'.sec = scan.sec /\ scan'.off = scan.off
      /\ scan'.patched = scan.patched /\ scan'.left = scan.left
      /\ scan'.block = scan.block
  BY <1>1, <1>2 DEF Scans
<1> QED
  BY <1>1, <1>3, StayStep

LEMMA CoreNext ==
  FewPatches /\ ChainUnbroken /\ LinkInv /\ Core /\ [Next]_vars => Core'
<1> SUFFICES ASSUME FewPatches, ChainUnbroken, LinkInv, Core, [Next]_vars
             PROVE  Core'
  OBVIOUS
<1>1. LinkInv' /\ OperandsKept /\ SlotsKept
  BY LinkNext, StepKeeps
<1>2. CASE FrameTick
  BY <1>1, <1>2, CallCore
<1>3. CASE SweepEntry \/ BatchStep
  BY <1>1, <1>3, SweepCore
<1>4. CASE SweepEnd \/ BatchEnd
  BY <1>1, <1>4, PassCore
<1>5. CASE FullScanSector
  BY <1>5, SectorCore
<1>6. CASE FullScanEnd
  BY <1>6, EndCore
<1>7. ASSUME NEW b \in Blocks, FullEpilogueScan(b)
      PROVE  Core'
  BY <1>1, <1>7, EpilogueCore
<1>8. ASSUME NEW b \in Blocks, EnterBlock(b)
      PROVE  Core'
  BY <1>8, EnterCore
<1>9. ASSUME NEW b \in Blocks, NEW x \in Code[b].sites, ScanTemplate(b, x)
      PROVE  Core'
  BY <1>1, <1>9, TemplateCore
<1>10. ASSUME NEW b \in Blocks, CompileBlock(b)
       PROVE  Core'
  BY <1>1, <1>10, CompileCore
<1>11. CASE UNCHANGED vars
  <2>1. UNCHANGED <<compiled, native, plan, scan>>
    BY <1>11 DEF vars, codeVars
  <2> QED
    BY <1>1, <2>1, StayStep
<1> QED
  BY <1>2, <1>3, <1>4, <1>5, <1>6, <1>7, <1>8, <1>9, <1>10, <1>11
     DEF Next, LinkStep

LEMMA ResolveInvariant == Spec => []ResolveInv
<1>1. FewPatches' = FewPatches /\ ChainUnbroken' = ChainUnbroken
  BY DEF FewPatches, ChainUnbroken
<1>2. Init => ResolveInv
  BY CoreInit DEF ResolveInv, Core
<1>3. LinkInv /\ ResolveInv /\ [Next]_vars => ResolveInv'
  BY <1>1, CoreNext DEF ResolveInv, Core
<1> QED
  BY <1>2, <1>3, LinkInvariant, PTL DEF Spec

LEMMA ResolvedExhaustive == ResolveInv => FullResolveExhaustive
<1> SUFFICES ASSUME ResolveInv, plan = <<"sweep">>, FewPatches, ChainUnbroken
             PROVE  Exhaustive
  BY DEF FullResolveExhaustive
<1>1. \A b \in compiled : ~Linkable(b)
  BY DEF ResolveInv, ExitsInv
<1>2. \A b \in compiled : \A x \in Sites(b) : Settled(b, x)
  BY DEF ResolveInv, TemplatesInv
<1> QED
  BY <1>1, <1>2 DEF Exhaustive, Settled, LeftBehind, Sites

(* After the two scans of opt2_full_link_resolve no exit of a translated
   block that could be linked is left to the dispatcher, unless it needs a
   trampoline and the pool of its sector is full: for every set of blocks
   without gaps, whatever was compiled and patched before, and with fewer
   operands than a scan may patch.                                         *)
THEOREM ResolveExhaustive == Spec => []FullResolveExhaustive
<1> QED
  BY ResolveInvariant, ResolvedExhaustive, PTL
=============================================================================
