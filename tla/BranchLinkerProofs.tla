------------------------- MODULE BranchLinkerProofs -------------------------
(***************************************************************************)
(* Proofs about BranchLinker for every set of guest blocks, queue size,    *)
(* batch size and sector geometry.                                         *)
(*                                                                         *)
(* LinksFaithful is not inductive: whether a jump lands where it should    *)
(* depends on where native addresses and written trampolines can lie, on   *)
(* what a queue entry stands for, and on what the branch scan remembers of *)
(* the trailing trampoline of the block it is in.  LinkInv says all that.  *)
(***************************************************************************)
EXTENDS BranchLinker, FiniteSetTheorems, SequenceTheorems, TLAPS

HeaderPos == BlockAlignment - BlockHeaderSize
Aligns(n) == n % BlockAlignment = HeaderPos
-----------------------------------------------------------------------------
(* Geometry. *)

LEMMA BlockFacts ==
  ASSUME NEW b \in Blocks
  PROVE  /\ Code[b].sec \in Sector /\ Code[b].base \in Nat
         /\ Aligns(Code[b].base) /\ Code[b].base >= HeaderPos
         /\ Code[b].len \in Nat /\ Code[b].len <= MaxBlock
         /\ EpiloguePos(b) \in Nat /\ EpiloguePos(b) < Code[b].len
         /\ Code[b].entry \in Pc /\ Code[b].exit \in Pc
         /\ BlockEnd(Code[b].base, Code[b].len) \in Nat
         /\ BlockEnd(Code[b].base, Code[b].len) <= SectorSize - PoolSize
<1>1. /\ Code[b].sec \in Sector /\ Code[b].base \in Nat
      /\ Code[b].len > EpilogueSize
      /\ Code[b].entry \in Pc /\ Code[b].exit \in Pc
  BY LinkerAssumption
<1>2. /\ Code[b].base % BlockAlignment = BlockAlignment - BlockHeaderSize
      /\ Code[b].len \in Nat /\ Code[b].len <= MaxBlock
      /\ BlockEnd(Code[b].base, Code[b].len) <= SectorSize - PoolSize
  BY GeometryAssumption
<1>3. Code[b].base >= HeaderPos
  BY <1>1, <1>2 DEF HeaderPos, BlockAlignment, BlockHeaderSize
<1>4. /\ EpiloguePos(b) \in Nat /\ EpiloguePos(b) < Code[b].len
      /\ BlockEnd(Code[b].base, Code[b].len) \in Nat
  BY <1>1, <1>2, LayoutAssumption DEF EpiloguePos, BlockEnd, BlockHeaderSize
<1> QED
  BY <1>1, <1>2, <1>3, <1>4 DEF Aligns, HeaderPos

LEMMA SiteFacts ==
  ASSUME NEW b \in Blocks, NEW x \in Code[b].sites
  PROVE  /\ x.pos \in Nat /\ x.pos < EpiloguePos(b)
         /\ x.target \in Pc /\ x.cond \in BOOLEAN
         /\ x.cond \/ \A p \in Pc : Code[b].offs[p] <= x.pos
         /\ \A y \in Code[b].sites : x.pos = y.pos => x = y
         /\ <<b, x.pos>> \in Site
<1>1. x.target \in Pc /\ x.cond \in BOOLEAN
  BY LinkerAssumption
<1>2. /\ x.pos \in Nat /\ x.pos < EpiloguePos(b)
      /\ x.cond \/ \A p \in Pc : Code[b].offs[p] <= x.pos
      /\ \A y \in Code[b].sites : x.pos = y.pos => x = y
  BY GeometryAssumption DEF EpiloguePos
<1>3. <<b, x.pos>> \in Site
  BY DEF Site
<1> QED
  BY <1>1, <1>2, <1>3

LEMMA ExitFact ==
  ASSUME NEW b \in Blocks
  PROVE  <<b, EpiloguePos(b)>> \in Exits
BY DEF Exits

(* The next header is the first place for one behind the block. *)
LEMMA NextHeaderFacts ==
  ASSUME NEW h \in Nat, NEW n \in Nat
  PROVE  /\ NextHeader(h, n) \in Nat /\ Aligns(NextHeader(h, n))
         /\ NextHeader(h, n) >= BlockEnd(h, n)
         /\ \A k \in Nat : Aligns(k) /\ k >= BlockEnd(h, n)
              => k >= NextHeader(h, n)
BY DEF NextHeader, HeaderStart, CodeStart, BlockEnd, Aligns, HeaderPos,
       BlockAlignment, BlockHeaderSize

LEMMA FirstHeaderFact == FirstHeader = HeaderPos
BY DEF FirstHeader, HeaderStart, CodeStart, HeaderPos, BlockAlignment,
       BlockHeaderSize

LEMMA PoolBase ==
  /\ SectorSize \in Nat /\ PoolSize \in Nat
  /\ SectorSize - PoolSize \in Nat /\ PoolSize >= 16
  /\ SectorSize % 16 = 0 /\ PoolSize % 16 = 0
  /\ (SectorSize - PoolSize) % 16 = 0
BY LayoutAssumption, GeometryAssumption DEF BlockAlignment

LEMMA NextHeaderInSector ==
  ASSUME NEW b \in Blocks
  PROVE  NextHeader(Code[b].base, Code[b].len) + BlockHeaderSize <= SectorSize
<1> DEFINE e == BlockEnd(Code[b].base, Code[b].len)
<1>1. e \in Nat /\ e <= SectorSize - PoolSize
  BY BlockFacts
<1> HIDE DEF e
<1>2. HeaderStart(e) + BlockHeaderSize <= SectorSize
  BY <1>1, PoolBase DEF HeaderStart, CodeStart, BlockAlignment,
     BlockHeaderSize
<1> QED
  BY <1>2 DEF NextHeader, e

(* Blocks of a sector are apart, and so is the header behind each. *)
LEMMA BlocksApart ==
  ASSUME NEW b \in Blocks, NEW c \in Blocks, b # c,
         Code[b].sec = Code[c].sec
  PROVE  \/ NextHeader(Code[b].base, Code[b].len) <= Code[c].base
         \/ NextHeader(Code[c].base, Code[c].len) <= Code[b].base
<1>1. \/ BlockEnd(Code[b].base, Code[b].len) <= Code[c].base
      \/ BlockEnd(Code[c].base, Code[c].len) <= Code[b].base
  BY GeometryAssumption
<1>2. \A d \in {b, c} :
        /\ Code[d].base \in Nat /\ Aligns(Code[d].base) /\ Code[d].len \in Nat
  BY BlockFacts
<1> QED
  BY <1>1, <1>2, NextHeaderFacts

(* The slots the branch scan can write: those of the pool, and the trailing
   slots that end in front of the next header.                              *)
InPool(t) == \E s \in Sector, k \in PoolSlots : t = PoolSlot(s, k)
Trails(b) == TrampolineFits(Code[b].base, Code[b].len)
Writable(t) == InPool(t) \/ \E b \in Blocks : t = TrailingSlot(b) /\ Trails(b)

LEMMA TrampolineAddrFacts ==
  ASSUME NEW h \in Nat, NEW n \in Nat, Aligns(h)
  PROVE  /\ TrampolineAddr(h, n) \in Nat /\ TrampolineAddr(h, n) % 16 = 0
         /\ TrampolineAddr(h, n) >= BlockEnd(h, n)
<1> DEFINE q == (n + 15) \div 16
<1>1. q \in Nat /\ q * 16 >= n
  OBVIOUS
<1>2. h % 16 = 8
  BY DEF Aligns, HeaderPos, BlockAlignment, BlockHeaderSize
<1>3. TrampolineAddr(h, n) = h + 8 + q * 16
  BY DEF TrampolineAddr, BlockAlignment, BlockHeaderSize
<1> HIDE DEF q
<1>4. (h + 8 + q * 16) % 16 = 0
  BY <1>1, <1>2
<1> QED
  BY <1>1, <1>3, <1>4 DEF BlockEnd, BlockHeaderSize

LEMMA TrailingFacts ==
  ASSUME NEW b \in Blocks
  PROVE  /\ TrailingSlot(b)[1] = Code[b].sec /\ TrailingSlot(b)[2] \in Nat
         /\ TrailingSlot(b)[2] >= BlockEnd(Code[b].base, Code[b].len)
         /\ Aligned(TrailingSlot(b)) /\ TrailingSlot(b) \in Slots
<1>1. /\ Code[b].base \in Nat /\ Code[b].len \in Nat
      /\ Aligns(Code[b].base)
  BY BlockFacts
<1> DEFINE a == TrampolineAddr(Code[b].base, Code[b].len)
<1>2. a \in Nat /\ a % 16 = 0 /\ a >= BlockEnd(Code[b].base, Code[b].len)
  BY <1>1, TrampolineAddrFacts
<1>3. TrailingSlot(b) = <<Code[b].sec, a>>
  BY DEF TrailingSlot
<1>4. TrailingSlot(b) \in Slots
  BY DEF Slots
<1> HIDE DEF a
<1> QED
  BY <1>2, <1>3, <1>4 DEF Aligned, BlockAlignment

LEMMA PoolFacts ==
  ASSUME NEW s \in Sector, NEW k \in PoolSlots
  PROVE  /\ PoolSlot(s, k)[1] = s /\ PoolSlot(s, k)[2] \in Nat
         /\ PoolSlot(s, k)[2] >= SectorSize - PoolSize
         /\ PoolSlot(s, k)[2] + 16 <= SectorSize
         /\ Aligned(PoolSlot(s, k)) /\ PoolSlot(s, k) \in Slots
<1>1. k \in Nat /\ k < PoolSize \div 16
  BY PoolBase DEF PoolSlots, BlockAlignment
<1> DEFINE a == SectorSize - PoolSize + k * 16
<1>2. a \in Nat /\ a >= SectorSize - PoolSize /\ a + 16 <= SectorSize
  BY <1>1, PoolBase
<1>3. a % 16 = 0
  BY <1>1, PoolBase
<1>4. PoolSlot(s, k) = <<s, a>>
  BY DEF PoolSlot, BlockAlignment
<1>5. PoolSlot(s, k) \in Slots
  BY DEF Slots
<1> HIDE DEF a
<1> QED
  BY <1>2, <1>3, <1>4, <1>5 DEF Aligned, BlockAlignment

LEMMA WritableFacts ==
  ASSUME NEW t, Writable(t)
  PROVE  /\ t \in Slots /\ t \in Address /\ Aligned(t) /\ t # NoAddr
         /\ t[1] \in Sector /\ t[2] \in Nat
<1>1. CASE InPool(t)
  <2>1. PICK s \in Sector, k \in PoolSlots : t = PoolSlot(s, k)
    BY <1>1 DEF InPool
  <2>2. t = <<s, t[2]>>
    BY <2>1 DEF PoolSlot
  <2>3. t[2] \in Nat /\ t[2] + 16 <= SectorSize
    BY <2>1, PoolFacts
  <2>4. t[2] \in 0..(SectorSize - 1)
    BY <2>3, PoolBase
  <2> QED
    BY <2>1, <2>2, <2>3, <2>4, PoolFacts DEF Address, NoAddr, Sector
<1>2. CASE \E b \in Blocks : t = TrailingSlot(b) /\ Trails(b)
  <2>1. PICK b \in Blocks : t = TrailingSlot(b) /\ Trails(b)
    BY <1>2
  <2>2. t = <<Code[b].sec, t[2]>> /\ t[2] = TrampolineAddr(Code[b].base, Code[b].len)
    BY <2>1 DEF TrailingSlot
  <2>3. t[2] \in Nat /\ t[2] + 3 <= NextHeader(Code[b].base, Code[b].len)
    BY <2>1, <2>2, TrailingFacts DEF Trails, TrampolineFits, TrampolineSize
  <2>4. NextHeader(Code[b].base, Code[b].len) \in Nat
    BY BlockFacts, NextHeaderFacts
  <2>5. t[2] \in 0..(SectorSize - 1)
    BY <2>3, <2>4, NextHeaderInSector, PoolBase DEF BlockHeaderSize
  <2> QED
    BY <2>1, <2>2, <2>3, <2>5, TrailingFacts, BlockFacts
       DEF Address, NoAddr, Sector
<1> QED
  BY <1>1, <1>2 DEF Writable

(* What the branch scan writes lies in no block. *)
LEMMA WritableApart ==
  ASSUME NEW t, Writable(t), NEW c \in Blocks, Code[c].sec = t[1]
  PROVE  \/ t[2] + TrampolineSize <= Code[c].base
         \/ t[2] >= BlockEnd(Code[c].base, Code[c].len)
<1>c. /\ Code[c].base \in Nat /\ Code[c].len \in Nat
      /\ BlockEnd(Code[c].base, Code[c].len) \in Nat
      /\ BlockEnd(Code[c].base, Code[c].len) <= SectorSize - PoolSize
  BY BlockFacts
<1>1. CASE InPool(t)
  <2>1. t[2] \in Nat /\ t[2] >= SectorSize - PoolSize
    BY <1>1, PoolFacts DEF InPool
  <2> QED
    BY <1>c, <2>1, PoolBase
<1>2. CASE \E b \in Blocks : t = TrailingSlot(b) /\ Trails(b)
  <2>1. PICK b \in Blocks : t = TrailingSlot(b) /\ Trails(b)
    BY <1>2
  <2>2. /\ t[2] \in Nat /\ t[1] = Code[b].sec
        /\ t[2] >= BlockEnd(Code[b].base, Code[b].len)
    BY <2>1, TrailingFacts
  <2>3. t[2] + TrampolineSize <= NextHeader(Code[b].base, Code[b].len)
    BY <2>1 DEF TrailingSlot, Trails, TrampolineFits
  <2>4. /\ Code[b].base \in Nat /\ Code[b].len \in Nat
        /\ BlockEnd(Code[b].base, Code[b].len) \in Nat
        /\ NextHeader(Code[b].base, Code[b].len) \in Nat
        /\ Code[b].base <= BlockEnd(Code[b].base, Code[b].len)
        /\ NextHeader(Code[c].base, Code[c].len) \in Nat
        /\ BlockEnd(Code[c].base, Code[c].len)
             <= NextHeader(Code[c].base, Code[c].len)
    <3>1. /\ Code[b].base \in Nat /\ Code[b].len \in Nat
          /\ BlockEnd(Code[b].base, Code[b].len) \in Nat
      BY BlockFacts
    <3>2. Code[b].base <= BlockEnd(Code[b].base, Code[b].len)
      BY <3>1 DEF BlockEnd, BlockHeaderSize
    <3> QED
      BY <1>c, <3>1, <3>2, NextHeaderFacts
  <2>5. CASE b = c
    BY <2>2, <2>5
  <2>6. CASE b # c
    <3>1. CASE NextHeader(Code[b].base, Code[b].len) <= Code[c].base
      BY <1>c, <2>2, <2>3, <2>4, <3>1 DEF TrampolineSize
    <3>2. CASE NextHeader(Code[c].base, Code[c].len) <= Code[b].base
      BY <1>c, <2>2, <2>4, <3>2
    <3> QED
      BY <2>2, <2>6, <3>1, <3>2, BlocksApart
  <2> QED
    BY <2>5, <2>6
<1> QED
  BY <1>1, <1>2 DEF Writable

(* Native addresses. *)
CodePlace(b, a) ==
  \E off \in 0..EpiloguePos(b) : a = CodeAddr(b, off)

LEMMA CodePlaceFacts ==
  ASSUME NEW b \in Blocks, NEW a, CodePlace(b, a)
  PROVE  /\ a = <<Code[b].sec, a[2]>> /\ a[2] \in Nat
         /\ a[2] >= Code[b].base + BlockHeaderSize
         /\ a[2] < BlockEnd(Code[b].base, Code[b].len)
         /\ a \in Address /\ a # NoAddr /\ ~Writable(a)
<1>b. /\ Code[b].sec \in Sector /\ Code[b].base \in Nat
      /\ Code[b].len \in Nat
      /\ EpiloguePos(b) \in Nat /\ EpiloguePos(b) < Code[b].len
      /\ BlockEnd(Code[b].base, Code[b].len) \in Nat
      /\ BlockEnd(Code[b].base, Code[b].len) <= SectorSize - PoolSize
  BY BlockFacts
<1>1. PICK off \in 0..EpiloguePos(b) : a = CodeAddr(b, off)
  BY DEF CodePlace
<1>2. a = <<Code[b].sec, Code[b].base + 8 + off>>
  BY <1>1 DEF CodeAddr, BlockHeaderSize
<1>3. off \in Nat /\ off < Code[b].len
  BY <1>1, <1>b
<1>4. /\ a = <<Code[b].sec, a[2]>> /\ a[1] = Code[b].sec /\ a[2] \in Nat
      /\ a[2] >= Code[b].base + BlockHeaderSize
      /\ a[2] < BlockEnd(Code[b].base, Code[b].len)
  BY <1>2, <1>3, <1>b DEF BlockEnd, BlockHeaderSize
<1>5. a[2] \in 0..(SectorSize - 1)
  BY <1>4, <1>b, PoolBase
<1>6. a \in Address /\ a # NoAddr
  BY <1>4, <1>5, <1>b DEF Address, NoAddr, Sector
<1>7. ~Writable(a)
  <2> SUFFICES ASSUME Writable(a) PROVE FALSE
    OBVIOUS
  <2>1. \/ a[2] + TrampolineSize <= Code[b].base
        \/ a[2] >= BlockEnd(Code[b].base, Code[b].len)
    BY <1>4, WritableApart
  <2> QED
    BY <2>1, <1>4, <1>b DEF TrampolineSize, BlockHeaderSize
<1> QED
  BY <1>4, <1>6, <1>7

(* An address in a block's bytes that is a native address is the block's. *)
LEMMA InBlockExact ==
  ASSUME NEW b \in Blocks, NEW c \in Blocks, NEW a, CodePlace(c, a),
         InBlock_Exact(b, a)
  PROVE  b = c /\ InBlock(b, a)
<1>1. /\ a = <<Code[c].sec, a[2]>> /\ a[2] \in Nat
      /\ a[2] >= Code[c].base + BlockHeaderSize
      /\ a[2] < BlockEnd(Code[c].base, Code[c].len)
  BY CodePlaceFacts
<1>2. /\ a[1] = Code[b].sec /\ a[2] >= Code[b].base
      /\ a[2] < BlockEnd(Code[b].base, Code[b].len)
  BY DEF InBlock_Exact
<1>3. a[1] = Code[c].sec
  BY <1>1
<1>4. \A d \in Blocks :
        /\ Code[d].base \in Nat
        /\ BlockEnd(Code[d].base, Code[d].len) \in Nat
  BY BlockFacts
<1>5. b = c
  <2> SUFFICES ASSUME b # c PROVE FALSE
    OBVIOUS
  <2>1. \/ BlockEnd(Code[b].base, Code[b].len) <= Code[c].base
        \/ BlockEnd(Code[c].base, Code[c].len) <= Code[b].base
    BY <1>2, <1>3, GeometryAssumption
  <2> QED
    BY <1>1, <1>2, <1>4, <2>1 DEF BlockHeaderSize
<1>6. /\ Code[b].sec \in Sector /\ SectorsPerBank \in Nat \ {0}
      /\ Code[b].base \in Nat /\ Code[b].len \in Nat
  BY BlockFacts, LinkerAssumption
<1> DEFINE w == (Code[b].sec % SectorsPerBank) * SectorSize
<1>7. w \in Int
  BY <1>6, LayoutAssumption DEF Sector
<1>8. /\ Window(a) = w + a[2]
      /\ Window(CodeAddr(b, 0)) = w + Code[b].base + 8
  BY <1>2, <1>6, <1>7 DEF Window, CodeAddr, BlockHeaderSize
<1>9. a[2] < Code[b].base + 8 + Code[b].len
  BY <1>2 DEF BlockEnd, BlockHeaderSize
<1> HIDE DEF w
<1> QED
  BY <1>1, <1>5, <1>6, <1>7, <1>8, <1>9 DEF InBlock, BlockHeaderSize

(* The queue sweep takes a jump back in its own block for near. *)
LEMMA OwnBlockNear ==
  ASSUME NEW b \in Blocks, NEW x \in Code[b].sites,
         NEW off \in Nat, off <= x.pos
  PROVE  NearSite(b, x.pos, CodeAddr(b, off))
<1>0. x.pos \in Nat /\ x.pos < EpiloguePos(b)
  BY SiteFacts
<1>1. /\ EpiloguePos(b) < Code[b].len /\ Code[b].len <= MaxBlock
      /\ EpiloguePos(b) \in Nat /\ Code[b].len \in Nat
      /\ Code[b].sec \in Sector /\ Code[b].base \in Nat
  BY BlockFacts
<1>m. MaxBlock \in Nat
  BY LayoutAssumption DEF MaxBlock
<1> DEFINE w == (Code[b].sec % SectorsPerBank) * SectorSize
<1>2. w \in Int
  BY <1>1, LayoutAssumption, LinkerAssumption DEF Sector
<1>3. /\ Window(CodeAddr(b, off)) = w + Code[b].base + 8 + off
      /\ Window(CodeAddr(b, x.pos)) = w + Code[b].base + 8 + x.pos
  BY <1>0, <1>1, <1>2 DEF Window, CodeAddr, BlockHeaderSize
<1> HIDE DEF w
<1> QED
  BY <1>0, <1>1, <1>m, <1>2, <1>3 DEF NearSite

LEMMA OntoAligned ==
  ASSUME NEW a \in Address, a # NoAddr, Aligned(a)
  PROVE  OntoTemplate(a) = a
<1>1. a = <<a[1], a[2]>> /\ a[2] \in Nat
  BY LayoutAssumption DEF Address
<1>2. a[2] % BlockAlignment = 0
  BY DEF Aligned
<1> QED
  BY <1>1, <1>2 DEF OntoTemplate
-----------------------------------------------------------------------------
(* The templates of a block in the order of their position: ranks number
   them from 1.                                                            *)
Sites(b) == Code[b].sites
Rank(b) == [x \in Sites(b) |-> PositionRank(b, x)]

LEMMA RankSurjective ==
  ASSUME NEW b \in Blocks, NEW i \in 1..Cardinality(Sites(b))
  PROVE  \E x \in Sites(b) : PositionRank(b, x) = i
<1> DEFINE n == Cardinality(Sites(b))
           below(x) == {y \in Sites(b) : y.pos <= x.pos}
<1>1. IsFiniteSet(Sites(b)) /\ n \in Nat
  BY GeometryAssumption, FS_CardinalityType DEF Sites
<1>p. /\ \A x \in Sites(b) : x.pos \in Nat
      /\ \A x, y \in Sites(b) : x.pos = y.pos => x = y
  BY SiteFacts DEF Sites
<1>2. ASSUME NEW x \in Sites(b)
      PROVE  /\ IsFiniteSet(below(x)) /\ Cardinality(below(x)) \in 1..n
             /\ PositionRank(b, x) = Cardinality(below(x))
  <2>1. below(x) \in SUBSET Sites(b)
    OBVIOUS
  <2>2. IsFiniteSet(below(x)) /\ Cardinality(below(x)) <= n
    BY <1>1, <2>1, FS_Subset
  <2>3. x \in below(x)
    BY <1>p
  <2>4. Cardinality(below(x)) \in Nat /\ Cardinality(below(x)) # 0
    BY <2>2, <2>3, FS_CardinalityType, FS_EmptySet
  <2> QED
    BY <1>1, <2>2, <2>4 DEF PositionRank, Sites
<1>3. ASSUME NEW x \in Sites(b), NEW y \in Sites(b), x.pos < y.pos
      PROVE  Cardinality(below(x)) # Cardinality(below(y))
  <2>1. below(x) \in SUBSET below(y)
    BY <1>3, <1>p
  <2>2. y \in below(y) /\ y \notin below(x)
    BY <1>3, <1>p
  <2> QED
    BY <1>2, <2>1, <2>2, FS_Subset
<1>4. Rank(b) \in Injection(Sites(b), 1..n)
  <2>1. Rank(b) \in [Sites(b) -> 1..n]
    BY <1>2 DEF Rank
  <2>2. ASSUME NEW x \in Sites(b), NEW y \in Sites(b), x # y
        PROVE  Rank(b)[x] # Rank(b)[y]
    <3>1. x.pos < y.pos \/ y.pos < x.pos
      BY <2>2, <1>p
    <3> QED
      BY <1>2, <1>3, <3>1 DEF Rank
  <2> QED
    BY <2>1, <2>2 DEF Injection, IsInjective
<1>5. IsFiniteSet(1..n) /\ Cardinality(1..n) = n
  BY <1>1, FS_Interval
<1>6. Rank(b) \in Surjection(Sites(b), 1..n)
  BY <1>4, <1>5, FS_Injection
<1>7. \E x \in Sites(b) : Rank(b)[x] = i
  BY <1>6 DEF Surjection
<1> QED
  BY <1>7 DEF Rank

(* What enters the queue stands for a template of the block, and fits. *)
Entry(b, x) == [block |-> b, pos |-> x.pos, target |-> x.target]
Entries == UNION {{Entry(b, x) : x \in Sites(b)} : b \in Blocks}

LEMMA QueuedFacts ==
  ASSUME NEW b \in Blocks, pending \in Seq(Entries), Len(pending) <= QueueSize
  PROVE  /\ Queued(b) \in Seq(Entries)
         /\ Len(pending) + Len(Queued(b)) <= QueueSize
         /\ \A i \in 1..Len(Queued(b)) : Queued(b)[i].block = b
<1> DEFINE n == Cardinality(Code[b].sites)
           m == IF n < MaxDeferred THEN n ELSE MaxDeferred
           pick(i) == CHOOSE y \in Code[b].sites : PositionRank(b, y) = i
           all == [i \in 1..m |->
                     LET x == pick(i)
                     IN [block |-> b, pos |-> x.pos, target |-> x.target]]
           room == QueueSize - Len(pending)
           E == {Entry(b, x) : x \in Sites(b)}
<1>1. n \in Nat /\ m \in Nat /\ m <= n
  BY GeometryAssumption, LinkerAssumption, FS_CardinalityType
<1>2. Len(pending) \in Nat /\ room \in Nat
  BY LinkerAssumption
<1>3. \A i \in 1..m : all[i] \in E
  <2> SUFFICES ASSUME NEW i \in 1..m PROVE all[i] \in E
    OBVIOUS
  <2>1. i \in 1..n
    BY <1>1
  <2>2. \E y \in Code[b].sites : PositionRank(b, y) = i
    BY <2>1, RankSurjective DEF Sites
  <2>3. pick(i) \in Code[b].sites
    BY <2>2
  <2>4. all[i] = Entry(b, pick(i))
    BY DEF Entry
  <2> HIDE DEF all, pick
  <2> QED
    BY <2>3, <2>4 DEF Sites
<1>4. all \in Seq(E) /\ Len(all) = m
  <2>1. all \in [1..m -> E]
    BY <1>3
  <2> HIDE DEF all, m, E
  <2>2. all \in Seq(E)
    BY <1>1, <2>1, SeqDef
  <2> QED
    BY <1>1, <2>1, <2>2
<1>5. Queued(b) = IF Len(all) <= room THEN all ELSE SubSeq(all, 1, room)
  BY DEF Queued
<1>6. /\ E \subseteq Entries
      /\ \A e \in E : e.block = b
  BY DEF Entries, Entry
<1> HIDE DEF n, m, all, room, E
<1>7. CASE Len(all) <= room
  <2>1. Queued(b) = all
    BY <1>5, <1>7
  <2>2. \A i \in 1..Len(all) : all[i] \in E
    BY <1>4, ElementOfSeq
  <2> QED
    BY <1>1, <1>2, <1>4, <1>6, <1>7, <2>1, <2>2, LinkerAssumption DEF room
<1>8. CASE ~(Len(all) <= room)
  <2>1. Queued(b) = SubSeq(all, 1, room)
    BY <1>5, <1>8
  <2>2. room < m
    BY <1>1, <1>2, <1>4, <1>8
  <2>3. \A i \in 1..room : all[i] \in E
    BY <1>1, <1>2, <1>4, <2>2, ElementOfSeq
  <2>4. /\ Queued(b) \in Seq(E)
        /\ Len(Queued(b)) = room
    BY <1>2, <2>1, <2>3, SubSeqProperties
  <2>5. \A i \in 1..room : Queued(b)[i] \in E
    BY <2>4, ElementOfSeq
  <2> QED
    BY <1>2, <1>6, <2>4, <2>5, LinkerAssumption DEF room
<1> QED
  BY <1>7, <1>8
-----------------------------------------------------------------------------
(* The inductive invariant. *)
Plans == {<<>>, <<"batch">>, <<"sweep", "batch">>, <<"sweep">>,
          <<"branches", "sweep">>, <<"epilogues", "branches", "sweep">>,
          <<"sweep", "epilogues", "branches", "sweep">>}
Templates == UNION {Sites(b) : b \in Blocks}
Scans == [sec : 0..Sectors, off : 0..SectorSize, left : SUBSET Templates,
          own : Address, block : SUBSET Blocks, patched : Nat,
          index : 1..(QueueSize + 1), steps : 0..ScanBatch]

TypeInv ==
  /\ compiled \subseteq Blocks
  /\ native \in [Pc -> Address] /\ operand \in [Site \cup Exits -> Address]
  /\ tramp \in [Slots -> Address]
  /\ pending \in Seq(Entries) /\ Len(pending) <= QueueSize
  /\ \A i \in 1..Len(pending) : pending[i].block \in compiled
  /\ plan \in Plans /\ scan \in Scans
  /\ cursor \in [sec : 0..Sectors, off : 0..SectorSize]
  /\ settle_counter \in 0..CounterMax /\ settled \in BOOLEAN

(* A native address is a place in a compiled block. *)
NativeInv ==
  \A p \in Pc : native[p] # NoAddr =>
    \E b \in compiled : /\ Code[b].offs[p] # -1
                        /\ native[p] = CodeAddr(b, Code[b].offs[p])

TrampInv == \A t \in Slots : tramp[t] # NoAddr => Writable(t)

(* What the branch scan has still to look at in the block it entered, and
   what it has written to the block's trailing trampoline.                *)
InBranches == plan # <<>> /\ Head(plan) = "branches"
ScanInv ==
  /\ scan.left # {} => InBranches
  /\ \A b, c \in scan.block : b = c
  /\ \A b \in scan.block :
       /\ b \in compiled
       /\ \A x \in scan.left : x \in Sites(b) /\ ~Patched(b, x.pos)
       /\ scan.own # NoAddr =>
            Trails(b) /\ tramp[TrailingSlot(b)] = scan.own

(* A linked operand is the native address it stands for, or, of a template
   only, a trampoline that leads there.                                    *)
Linked(x, p) ==
  \/ operand[x] = native[p]
  \/ Writable(operand[x]) /\ tramp[operand[x]] = native[p]
LinksInv ==
  \A b \in Blocks :
    /\ Patched(b, EpiloguePos(b)) =>
         /\ operand[<<b, EpiloguePos(b)>>] = native[Code[b].exit]
         /\ ~InBlock(b, native[Code[b].exit])
    /\ \A x \in Sites(b) : Patched(b, x.pos) =>
         /\ native[x.target] # NoAddr /\ Linked(<<b, x.pos>>, x.target)
         /\ x.cond \/ ~InBlock_Exact(b, native[x.target])

LinkInv == TypeInv /\ NativeInv /\ TrampInv /\ ScanInv /\ LinksInv
-----------------------------------------------------------------------------
LEMMA PlanFacts ==
  ASSUME plan \in Plans, plan # <<>>
  PROVE  /\ Tail(plan) \in Plans
         /\ Head(plan) \in {"batch", "sweep", "branches", "epilogues"}
         /\ Head(plan) = "epilogues" => Tail(plan) = <<"branches", "sweep">>
         /\ Head(plan) = "branches" <=> plan = <<"branches", "sweep">>
         /\ Tail(plan) = <<"sweep">> => Head(plan) = "branches"
         /\ Tail(plan) = <<"branches", "sweep">> => Head(plan) = "epilogues"
<1>1. /\ Tail(<<"batch">>) = <<>> /\ Tail(<<"sweep">>) = <<>>
      /\ Tail(<<"sweep", "batch">>) = <<"batch">>
      /\ Tail(<<"branches", "sweep">>) = <<"sweep">>
      /\ Tail(<<"epilogues", "branches", "sweep">>) = <<"branches", "sweep">>
      /\ Tail(<<"sweep", "epilogues", "branches", "sweep">>)
           = <<"epilogues", "branches", "sweep">>
  OBVIOUS
<1>2. /\ <<>> # <<"sweep">> /\ <<>> # <<"branches", "sweep">>
      /\ <<"batch">> # <<"sweep">> /\ <<"batch">> # <<"branches", "sweep">>
      /\ <<"sweep">> # <<"branches", "sweep">>
      /\ <<"epilogues", "branches", "sweep">> # <<"sweep">>
      /\ <<"epilogues", "branches", "sweep">> # <<"branches", "sweep">>
  OBVIOUS
<1>3. CASE plan = <<"batch">>
  BY <1>1, <1>2, <1>3 DEF Plans
<1>7. CASE plan = <<"sweep">>
  BY <1>1, <1>2, <1>7 DEF Plans
<1>8. CASE plan = <<"sweep", "batch">>
  BY <1>1, <1>2, <1>8 DEF Plans
<1>4. CASE plan = <<"branches", "sweep">>
  BY <1>1, <1>2, <1>4 DEF Plans
<1>5. CASE plan = <<"epilogues", "branches", "sweep">>
  BY <1>1, <1>2, <1>5 DEF Plans
<1>6. CASE plan = <<"sweep", "epilogues", "branches", "sweep">>
  BY <1>1, <1>2, <1>6 DEF Plans
<1> QED
  BY <1>3, <1>4, <1>5, <1>6, <1>7, <1>8 DEF Plans

LEMMA PlansOfCalls ==
  <<>> \in Plans /\ LightSweep \in Plans /\ FullResolve \in Plans
BY DEF Plans, LightSweep, FullResolve

LEMMA NoAddrType == NoAddr \in Address
BY DEF Address

LEMMA ScanStartType == ScanStart \in Scans
<1>1. FirstHeader \in 0..SectorSize
  BY FirstHeaderFact, PoolBase DEF HeaderPos, BlockAlignment, BlockHeaderSize
<1>2. 0 \in 0..Sectors /\ ScanBatch \in 0..ScanBatch /\ 1 \in 1..(QueueSize + 1)
  BY LinkerAssumption
<1> QED
  BY <1>1, <1>2, NoAddrType DEF ScanStart, Scans

LEMMA NativeFacts ==
  ASSUME TypeInv, NativeInv, NEW p \in Pc, native[p] # NoAddr
  PROVE  \E b \in compiled : /\ b \in Blocks /\ CodePlace(b, native[p])
                             /\ Code[b].offs[p] \in 0..EpiloguePos(b)
                             /\ native[p] = CodeAddr(b, Code[b].offs[p])
<1>1. PICK b \in compiled : /\ Code[b].offs[p] # -1
                            /\ native[p] = CodeAddr(b, Code[b].offs[p])
  BY DEF NativeInv
<1>2. b \in Blocks
  BY DEF TypeInv
<1>3. Code[b].offs[p] \in -1..Code[b].len
  BY <1>2, LinkerAssumption
<1>4. Code[b].offs[p] <= EpiloguePos(b)
  BY <1>2, GeometryAssumption DEF EpiloguePos
<1>5. Code[b].len \in Nat /\ EpiloguePos(b) \in Nat
  BY <1>2, BlockFacts
<1>6. Code[b].offs[p] \in 0..EpiloguePos(b)
  BY <1>1, <1>3, <1>4, <1>5
<1> QED
  BY <1>1, <1>2, <1>6 DEF CodePlace

LEMMA NativeApart ==
  ASSUME TypeInv, NativeInv, NEW p \in Pc, native[p] # NoAddr
  PROVE  native[p] \in Address /\ ~Writable(native[p])
BY NativeFacts, CodePlaceFacts
-----------------------------------------------------------------------------
(* What linking one thing does to the links. *)

(* Written slots and translated PCs keep what they hold. *)
Keeps ==
  /\ \A p \in Pc : native[p] # NoAddr => native'[p] = native[p]
  /\ \A t \in Slots : tramp[t] # NoAddr => tramp'[t] = tramp[t]

LEMMA LinkedKept ==
  ASSUME TypeInv, NativeInv, Keeps, NEW x \in Site \cup Exits, NEW p \in Pc,
         native[p] # NoAddr, Linked(x, p), operand'[x] = operand[x]
  PROVE  Linked(x, p)'
<1>1. native'[p] = native[p]
  BY DEF Keeps
<1>2. CASE operand[x] = native[p]
  BY <1>1, <1>2 DEF Linked
<1>3. CASE Writable(operand[x]) /\ tramp[operand[x]] = native[p]
  <2>1. operand[x] \in Slots
    BY <1>3, WritableFacts
  <2>2. tramp'[operand[x]] = native[p]
    BY <1>3, <2>1 DEF Keeps
  <2>3. Writable(operand[x])'
    BY <1>3 DEF Writable, InPool
  <2> QED
    BY <1>1, <2>2, <2>3 DEF Linked
<1> QED
  BY <1>2, <1>3 DEF Linked

LEMMA LinksStay ==
  ASSUME TypeInv, NativeInv, LinksInv, Keeps, operand' = operand
  PROVE  LinksInv'
<1>1. \A p \in Pc : native[p] # NoAddr => native'[p] = native[p]
  BY DEF Keeps
<1>2. ASSUME NEW b \in Blocks, Patched(b, EpiloguePos(b))'
      PROVE  /\ operand'[<<b, EpiloguePos(b)>>] = native'[Code[b].exit]
             /\ ~InBlock(b, native'[Code[b].exit])
  <2>1. Patched(b, EpiloguePos(b))
    BY <1>2 DEF Patched
  <2>2. /\ operand[<<b, EpiloguePos(b)>>] = native[Code[b].exit]
        /\ ~InBlock(b, native[Code[b].exit])
    BY <2>1 DEF LinksInv
  <2>3. native[Code[b].exit] # NoAddr
    BY <2>1, <2>2 DEF Patched
  <2>4. native'[Code[b].exit] = native[Code[b].exit]
    BY <1>1, <2>3, BlockFacts
  <2> QED
    BY <2>2, <2>4
<1>3. ASSUME NEW b \in Blocks, NEW x \in Sites(b), Patched(b, x.pos)'
      PROVE  /\ native'[x.target] # NoAddr /\ Linked(<<b, x.pos>>, x.target)'
             /\ x.cond \/ ~InBlock_Exact(b, native'[x.target])
  <2>1. Patched(b, x.pos)
    BY <1>3 DEF Patched
  <2>2. /\ native[x.target] # NoAddr /\ Linked(<<b, x.pos>>, x.target)
        /\ x.cond \/ ~InBlock_Exact(b, native[x.target])
    BY <2>1 DEF LinksInv
  <2>3. x.target \in Pc /\ <<b, x.pos>> \in Site
    BY SiteFacts DEF Sites
  <2>4. native'[x.target] = native[x.target]
    BY <1>1, <2>2, <2>3
  <2>5. Linked(<<b, x.pos>>, x.target)'
    BY <2>2, <2>3, LinkedKept
  <2> QED
    BY <2>2, <2>4, <2>5
<1> QED
  BY <1>2, <1>3 DEF LinksInv

(* A template is programmed with an address that leads to its target. *)
LEMMA LinkTemplate ==
  ASSUME LinkInv, Keeps, native' = native,
         NEW b \in Blocks, NEW x \in Sites(b), native[x.target] # NoAddr,
         x.cond \/ ~InBlock_Exact(b, native[x.target]),
         NEW a \in Address,
         operand' = [operand EXCEPT ![<<b, x.pos>>] = a],
         \/ a = native[x.target]
         \/ Writable(a) /\ tramp'[a] = native[x.target]
  PROVE  LinksInv' /\ operand' \in [Site \cup Exits -> Address]
<1>1. operand \in [Site \cup Exits -> Address]
  BY DEF LinkInv, TypeInv
<1>2. /\ <<b, x.pos>> \in Site /\ x.pos \in Nat /\ x.pos < EpiloguePos(b)
      /\ x.target \in Pc
      /\ \A y \in Sites(b) : x.pos = y.pos => x = y
  BY SiteFacts DEF Sites
<1>3. operand' \in [Site \cup Exits -> Address]
  BY <1>1
<1>4. \A e \in Site \cup Exits :
        operand'[e] = IF e = <<b, x.pos>> THEN a ELSE operand[e]
  BY <1>1, <1>2
<1>5. ASSUME NEW c \in Blocks, Patched(c, EpiloguePos(c))'
      PROVE  /\ operand'[<<c, EpiloguePos(c)>>] = native'[Code[c].exit]
             /\ ~InBlock(c, native'[Code[c].exit])
  <2>1. <<c, EpiloguePos(c)>> # <<b, x.pos>>
    BY <1>2
  <2>2. operand'[<<c, EpiloguePos(c)>>] = operand[<<c, EpiloguePos(c)>>]
    BY <1>4, <2>1, ExitFact
  <2>3. Patched(c, EpiloguePos(c))
    BY <1>5, <2>2 DEF Patched
  <2> QED
    BY <2>2, <2>3 DEF LinkInv, LinksInv
<1>6. ASSUME NEW c \in Blocks, NEW y \in Sites(c), Patched(c, y.pos)'
      PROVE  /\ native'[y.target] # NoAddr /\ Linked(<<c, y.pos>>, y.target)'
             /\ y.cond \/ ~InBlock_Exact(c, native'[y.target])
  <2>1. y.target \in Pc /\ <<c, y.pos>> \in Site
    BY SiteFacts DEF Sites
  <2>2. CASE <<c, y.pos>> = <<b, x.pos>>
    <3>1. c = b /\ y = x
      BY <1>2, <2>2
    <3>2. operand'[<<c, y.pos>>] = a
      BY <1>4, <2>1, <2>2
    <3>3. Writable(a) => Writable(a)'
      BY DEF Writable, InPool
    <3>4. Linked(<<c, y.pos>>, y.target)'
      BY <3>1, <3>2, <3>3 DEF Linked
    <3> QED
      BY <3>1, <3>4
  <2>3. CASE <<c, y.pos>> # <<b, x.pos>>
    <3>1. operand'[<<c, y.pos>>] = operand[<<c, y.pos>>]
      BY <1>4, <2>1, <2>3
    <3>2. Patched(c, y.pos)
      BY <1>6, <3>1 DEF Patched
    <3>3. /\ native[y.target] # NoAddr /\ Linked(<<c, y.pos>>, y.target)
          /\ y.cond \/ ~InBlock_Exact(c, native[y.target])
      BY <3>2 DEF LinkInv, LinksInv
    <3>4. Linked(<<c, y.pos>>, y.target)'
      BY <2>1, <3>1, <3>3, LinkedKept DEF LinkInv
    <3> QED
      BY <3>3, <3>4
  <2> QED
    BY <2>2, <2>3
<1>7. LinksInv'
  BY <1>5, <1>6 DEF LinksInv
<1> QED
  BY <1>3, <1>7

(* The epilogue of a block is linked, if it can be. *)
LEMMA LinkExit ==
  ASSUME LinkInv, native' = native, tramp' = tramp,
         NEW b \in Blocks, LinkEpilogues({b})
  PROVE  LinksInv' /\ operand' \in [Site \cup Exits -> Address]
<1>1. /\ operand \in [Site \cup Exits -> Address]
      /\ native \in [Pc -> Address]
  BY DEF LinkInv, TypeInv
<1>2. /\ <<b, EpiloguePos(b)>> \in Exits /\ Code[b].exit \in Pc
  BY BlockFacts, ExitFact
<1> DEFINE x == <<b, EpiloguePos(b)>>
<1>3. operand' = [e \in Site \cup Exits |->
                    IF e = x /\ Linkable(b) THEN native[Code[b].exit]
                                            ELSE operand[e]]
  <2>1. DOMAIN operand = Site \cup Exits
    BY <1>1
  <2>2. \A e \in Site \cup Exits :
          (\E c \in {b} : e = <<c, EpiloguePos(c)>> /\ Linkable(c))
            <=> e = x /\ Linkable(b)
    OBVIOUS
  <2>3. \A e : e = x => e[1] = b
    OBVIOUS
  <2> HIDE DEF x
  <2> QED
    BY <2>1, <2>2, <2>3 DEF LinkEpilogues
<1>4. operand' \in [Site \cup Exits -> Address]
  <2> HIDE DEF x
  <2> QED
    BY <1>1, <1>2, <1>3
<1>5. \A e \in Site \cup Exits :
        operand'[e] = IF e = x /\ Linkable(b) THEN native[Code[b].exit]
                                              ELSE operand[e]
  BY <1>3
<1> HIDE DEF x
<1>6. Keeps
  BY DEF Keeps
<1>7. ASSUME NEW c \in Blocks, Patched(c, EpiloguePos(c))'
      PROVE  /\ operand'[<<c, EpiloguePos(c)>>] = native'[Code[c].exit]
             /\ ~InBlock(c, native'[Code[c].exit])
  <2>1. <<c, EpiloguePos(c)>> \in Exits
    BY ExitFact
  <2>2. CASE <<c, EpiloguePos(c)>> = x /\ Linkable(b)
    <3>1. c = b
      BY <2>2 DEF x
    <3>2. ~InBlock(b, native[Code[b].exit])
      BY <2>2 DEF Linkable
    <3> QED
      BY <1>5, <2>1, <2>2, <3>1, <3>2
  <2>3. CASE ~(<<c, EpiloguePos(c)>> = x /\ Linkable(b))
    <3>1. operand'[<<c, EpiloguePos(c)>>] = operand[<<c, EpiloguePos(c)>>]
      BY <1>5, <2>1, <2>3
    <3>2. Patched(c, EpiloguePos(c))
      BY <1>7, <3>1 DEF Patched
    <3> QED
      BY <3>1, <3>2 DEF LinkInv, LinksInv
  <2> QED
    BY <2>2, <2>3
<1>8. ASSUME NEW c \in Blocks, NEW y \in Sites(c), Patched(c, y.pos)'
      PROVE  /\ native'[y.target] # NoAddr /\ Linked(<<c, y.pos>>, y.target)'
             /\ y.cond \/ ~InBlock_Exact(c, native'[y.target])
  <2>1. /\ y.target \in Pc /\ <<c, y.pos>> \in Site
        /\ y.pos < EpiloguePos(c) /\ y.pos \in Nat
    BY SiteFacts DEF Sites
  <2>2. <<c, y.pos>> # x
    BY <2>1 DEF x
  <2>3. operand'[<<c, y.pos>>] = operand[<<c, y.pos>>]
    BY <1>5, <2>1, <2>2
  <2>4. Patched(c, y.pos)
    BY <1>8, <2>3 DEF Patched
  <2>5. /\ native[y.target] # NoAddr /\ Linked(<<c, y.pos>>, y.target)
        /\ y.cond \/ ~InBlock_Exact(c, native[y.target])
    BY <2>4 DEF LinkInv, LinksInv
  <2>6. Linked(<<c, y.pos>>, y.target)'
    BY <1>6, <2>1, <2>3, <2>5, LinkedKept DEF LinkInv
  <2> QED
    BY <2>5, <2>6
<1>9. LinksInv'
  BY <1>7, <1>8 DEF LinksInv
<1> QED
  BY <1>4, <1>9
-----------------------------------------------------------------------------
(* The parts of the invariant that most steps leave alone. *)
LEMMA MemoryStays ==
  ASSUME LinkInv, UNCHANGED <<compiled, native, tramp>>
  PROVE  /\ compiled' \subseteq Blocks /\ native' \in [Pc -> Address]
         /\ tramp' \in [Slots -> Address] /\ NativeInv' /\ TrampInv' /\ Keeps
<1>1. NativeInv' /\ TrampInv'
  BY DEF LinkInv, NativeInv, TrampInv, Writable, InPool
<1> QED
  BY <1>1 DEF LinkInv, TypeInv, Keeps

(* A scan that looks at no template. *)
LEMMA ScanIdle ==
  ASSUME LinkInv, UNCHANGED <<compiled, tramp>>,
         scan'.left = {},
         \/ scan'.block = {}
         \/ scan'.block = scan.block /\ scan'.own = scan.own
  PROVE  ScanInv'
BY DEF LinkInv, ScanInv

LEMMA ScanIdleStart ==
  ASSUME scan' = ScanStart
  PROVE  ScanInv' /\ scan'.left = {}
BY DEF ScanStart, ScanInv

(* Outside of the branch scan no template is left to look at. *)
LEMMA NothingLeft ==
  ASSUME LinkInv, plan = <<>> \/ Head(plan) # "branches"
  PROVE  scan.left = {}
BY DEF LinkInv, ScanInv, InBranches

LEMMA LinkInit == Init => LinkInv
<1> SUFFICES ASSUME Init PROVE LinkInv
  OBVIOUS
<1>1. TypeInv
  <2>1. FirstHeader \in 0..SectorSize
    BY FirstHeaderFact, PoolBase DEF HeaderPos, BlockAlignment,
       BlockHeaderSize
  <2>2. cursor \in [sec : 0..Sectors, off : 0..SectorSize]
    BY <2>1, LinkerAssumption DEF Init
  <2>3. /\ compiled \subseteq Blocks /\ native \in [Pc -> Address]
        /\ operand \in [Site \cup Exits -> Address]
        /\ tramp \in [Slots -> Address]
    BY NoAddrType DEF Init
  <2>4. /\ pending \in Seq(Entries) /\ Len(pending) = 0
        /\ plan \in Plans /\ scan \in Scans
    BY PlansOfCalls, ScanStartType DEF Init
  <2>5. Len(pending) <= QueueSize
    BY <2>4, LinkerAssumption
  <2>6. settle_counter \in 0..CounterMax
    BY LinkerAssumption DEF Init
  <2>7. settled \in BOOLEAN
    BY DEF Init
  <2> QED
    BY <2>2, <2>3, <2>4, <2>5, <2>6, <2>7 DEF TypeInv
<1>2. NativeInv /\ TrampInv
  BY DEF Init, NativeInv, TrampInv
<1>3. ScanInv
  BY DEF Init, ScanInv, ScanStart
<1>4. LinksInv
  <2>1. \A b \in Blocks : ~Patched(b, EpiloguePos(b))
    BY ExitFact DEF Init, Patched
  <2>2. \A b \in Blocks : \A x \in Sites(b) : ~Patched(b, x.pos)
    BY SiteFacts DEF Init, Patched, Sites
  <2> QED
    BY <2>1, <2>2 DEF LinksInv
<1> QED
  BY <1>1, <1>2, <1>3, <1>4 DEF LinkInv

LEMMA CompileStep ==
  ASSUME LinkInv, NEW b \in Blocks, CompileBlock(b)
  PROVE  LinkInv'
<1>1. /\ compiled' = compiled \cup {b}
      /\ native' = [p \in Pc |->
                      IF native[p] = NoAddr /\ Code[b].offs[p] # -1
                      THEN CodeAddr(b, Code[b].offs[p]) ELSE native[p]]
      /\ pending' = pending \o Queued(b)
      /\ plan' = LightSweep \/ plan' = <<>>
      /\ scan' = ScanStart
      /\ UNCHANGED <<operand, tramp, cursor, settle_counter, settled>>
  BY DEF CompileBlock, settleVars
<1>2. Keeps
  BY <1>1 DEF Keeps
<1>3. LinksInv'
  BY <1>1, <1>2, LinksStay DEF LinkInv
<1>4. ASSUME NEW p \in Pc, Code[b].offs[p] # -1
      PROVE  CodeAddr(b, Code[b].offs[p]) \in Address
  <2>1. Code[b].offs[p] \in -1..Code[b].len
    BY LinkerAssumption
  <2>2. Code[b].offs[p] <= EpiloguePos(b)
    BY GeometryAssumption DEF EpiloguePos
  <2>3. Code[b].len \in Nat /\ EpiloguePos(b) \in Nat
    BY BlockFacts
  <2>4. Code[b].offs[p] \in 0..EpiloguePos(b)
    BY <1>4, <2>1, <2>2, <2>3
  <2> QED
    BY <2>4, CodePlaceFacts DEF CodePlace
<1>5. native' \in [Pc -> Address]
  BY <1>1, <1>4 DEF LinkInv, TypeInv
<1>6. /\ pending' \in Seq(Entries) /\ Len(pending') <= QueueSize
      /\ \A i \in 1..Len(pending') : pending'[i].block \in compiled'
  <2>1. /\ pending \in Seq(Entries) /\ Len(pending) <= QueueSize
        /\ \A i \in 1..Len(pending) : pending[i].block \in compiled
    BY DEF LinkInv, TypeInv
  <2>2. /\ Queued(b) \in Seq(Entries)
        /\ Len(pending) + Len(Queued(b)) <= QueueSize
        /\ \A i \in 1..Len(Queued(b)) : Queued(b)[i].block = b
    BY <2>1, QueuedFacts
  <2> DEFINE q == Queued(b)
  <2> HIDE DEF q
  <2>3. q \in Seq(Entries) /\ pending' = pending \o q
    BY <1>1, <2>2 DEF q
  <2>4. /\ pending' \in Seq(Entries)
        /\ Len(pending') = Len(pending) + Len(q)
        /\ \A i \in 1..(Len(pending) + Len(q)) :
             pending'[i] = IF i <= Len(pending) THEN pending[i]
                                                ELSE q[i - Len(pending)]
    BY <2>1, <2>3, ConcatProperties
  <2>5. \A i \in 1..Len(pending') : pending'[i].block \in compiled'
    <3> SUFFICES ASSUME NEW i \in 1..Len(pending')
                 PROVE  pending'[i].block \in compiled'
      OBVIOUS
    <3>1. CASE i <= Len(pending)
      BY <1>1, <2>1, <2>4, <3>1
    <3>2. CASE ~(i <= Len(pending))
      <4>1. i - Len(pending) \in 1..Len(q)
        BY <2>1, <2>3, <2>4, <3>2
      <4>2. q[i - Len(pending)].block = b
        BY <2>2, <4>1 DEF q
      <4> QED
        BY <1>1, <2>4, <3>2, <4>2
    <3> QED
      BY <3>1, <3>2
  <2> QED
    BY <2>2, <2>4, <2>5 DEF q
<1>7. TypeInv'
  <2>1. plan' \in Plans /\ scan' \in Scans /\ compiled' \subseteq Blocks
    BY <1>1, PlansOfCalls, ScanStartType DEF LinkInv, TypeInv
  <2>2. /\ operand' \in [Site \cup Exits -> Address]
        /\ tramp' \in [Slots -> Address]
        /\ cursor' \in [sec : 0..Sectors, off : 0..SectorSize]
        /\ settle_counter' \in 0..CounterMax /\ settled' \in BOOLEAN
    BY <1>1 DEF LinkInv, TypeInv
  <2> QED
    BY <1>5, <1>6, <2>1, <2>2 DEF TypeInv
<1>8. NativeInv'
  BY <1>1 DEF LinkInv, NativeInv
<1>9. TrampInv'
  BY <1>1 DEF LinkInv, TrampInv, Writable, InPool
<1> QED
  BY <1>1, <1>3, <1>7, <1>8, <1>9, ScanIdleStart DEF LinkInv

(* The steps that move on without touching an operand. *)
LEMMA MoveStep ==
  ASSUME LinkInv, UNCHANGED <<compiled, native, linkVars>>,
         plan' \in Plans, scan' \in Scans, ScanInv',
         cursor' \in [sec : 0..Sectors, off : 0..SectorSize],
         settle_counter' \in 0..CounterMax, settled' \in BOOLEAN
  PROVE  LinkInv'
<1>1. UNCHANGED <<compiled, native, operand, tramp, pending>>
  BY DEF linkVars
<1>2. /\ compiled' \subseteq Blocks /\ native' \in [Pc -> Address]
      /\ tramp' \in [Slots -> Address] /\ NativeInv' /\ TrampInv' /\ Keeps
  BY <1>1, MemoryStays
<1>3. LinksInv'
  BY <1>1, <1>2, LinksStay DEF LinkInv
<1>4. /\ operand' \in [Site \cup Exits -> Address]
      /\ pending' \in Seq(Entries) /\ Len(pending') <= QueueSize
      /\ \A i \in 1..Len(pending') : pending'[i].block \in compiled'
  BY <1>1 DEF LinkInv, TypeInv
<1>5. TypeInv'
  BY <1>2, <1>4 DEF TypeInv
<1> QED
  BY <1>2, <1>3, <1>5 DEF LinkInv

LEMMA NextPassStep ==
  ASSUME LinkInv, plan # <<>>, NextPass,
         UNCHANGED <<linkVars, cursor, codeVars, settleVars>>
  PROVE  LinkInv'
<1>1. plan' \in Plans /\ scan' \in Scans /\ ScanInv'
  BY PlanFacts, ScanStartType, ScanIdleStart DEF NextPass, LinkInv, TypeInv
<1>2. /\ cursor' \in [sec : 0..Sectors, off : 0..SectorSize]
      /\ settle_counter' \in 0..CounterMax /\ settled' \in BOOLEAN
      /\ UNCHANGED <<compiled, native, linkVars>>
  BY DEF LinkInv, TypeInv, codeVars, settleVars
<1> QED
  BY <1>1, <1>2, MoveStep

LEMMA TickStep ==
  ASSUME LinkInv, FrameTick
  PROVE  LinkInv'
<1>1. /\ CounterMax \in Nat /\ SettleFrames \in 0..CounterMax
      /\ settle_counter \in 0..CounterMax
  BY LinkerAssumption DEF LinkInv, TypeInv
<1>2. settle_counter' \in 0..CounterMax /\ settled' \in BOOLEAN
  <2>1. CASE TickSettled
    BY <1>1, <2>1 DEF TickSettled
  <2>2. CASE TickUnsettled
    BY <1>1, <2>2 DEF TickUnsettled
  <2> QED
    BY <2>1, <2>2 DEF FrameTick
<1>3. /\ plan' = <<>> \/ plan' = LightSweep \/ plan' = FullResolve
      /\ scan' = ScanStart
      /\ UNCHANGED <<linkVars, codeVars, cursor>>
  BY DEF FrameTick, TickSettled, TickUnsettled
<1>4. /\ plan' \in Plans /\ scan' \in Scans /\ ScanInv'
      /\ cursor' \in [sec : 0..Sectors, off : 0..SectorSize]
      /\ UNCHANGED <<compiled, native, linkVars>>
  BY <1>3, PlansOfCalls, ScanStartType, ScanIdleStart
     DEF LinkInv, TypeInv, codeVars
<1> QED
  BY <1>2, <1>4, MoveStep
-----------------------------------------------------------------------------
(* The queue sweep. *)
LEMMA SkipStep ==
  ASSUME LinkInv, SweepEntry, SkipEntry, UNCHANGED <<operand, pending>>
  PROVE  LinkInv'
<1>1. scan \in Scans /\ scan.index \in 1..(QueueSize + 1)
  BY DEF LinkInv, TypeInv, Scans
<1>2. scan.index <= Len(pending) /\ Len(pending) <= QueueSize
      /\ Len(pending) \in Nat /\ QueueSize \in Nat
  BY LinkerAssumption DEF SweepEntry, LinkInv, TypeInv
<1>3. scan.index + 1 \in 1..(QueueSize + 1)
  BY <1>1, <1>2
<1>4. scan' = [scan EXCEPT !.index = scan.index + 1]
  BY DEF SkipEntry
<1>5. scan' \in Scans
  BY <1>1, <1>3, <1>4 DEF Scans
<1>6. /\ scan'.left = scan.left /\ scan'.block = scan.block
      /\ scan'.own = scan.own
  BY <1>1, <1>4 DEF Scans
<1>7. /\ UNCHANGED <<compiled, native, linkVars>>
      /\ UNCHANGED <<plan, cursor, settle_counter, settled>>
      /\ plan # <<>> /\ Head(plan) = "sweep"
  BY DEF SweepEntry, linkVars, codeVars, settleVars
<1>8. ScanInv'
  BY <1>6, <1>7, NothingLeft, ScanIdle DEF linkVars
<1> QED
  BY <1>5, <1>7, <1>8, MoveStep DEF LinkInv, TypeInv

(* The entry of a template in the queue. *)
LEMMA EntryFacts ==
  ASSUME LinkInv, NEW i \in 1..Len(pending)
  PROVE  \E b \in Blocks : \E x \in Sites(b) : pending[i] = Entry(b, x)
<1>1. pending \in Seq(Entries)
  BY DEF LinkInv, TypeInv
<1>2. pending[i] \in Entries
  BY <1>1, ElementOfSeq
<1> QED
  BY <1>2 DEF Entries

(* An unconditional jump into its own block is never far from its site. *)
LEMMA SweepLeavesLoops ==
  ASSUME LinkInv, NEW b \in Blocks, NEW x \in Sites(b),
         native[x.target] # NoAddr, ~NearSite(b, x.pos, native[x.target])
  PROVE  x.cond \/ ~InBlock_Exact(b, native[x.target])
<1> SUFFICES ASSUME ~x.cond, InBlock_Exact(b, native[x.target]) PROVE FALSE
  OBVIOUS
<1>1. /\ x.target \in Pc /\ \A p \in Pc : Code[b].offs[p] <= x.pos
      /\ x \in Code[b].sites
  BY SiteFacts DEF Sites
<1>2. PICK c \in compiled : /\ c \in Blocks /\ CodePlace(c, native[x.target])
                            /\ Code[c].offs[x.target] \in 0..EpiloguePos(c)
                            /\ native[x.target]
                                 = CodeAddr(c, Code[c].offs[x.target])
  BY <1>1, NativeFacts DEF LinkInv
<1>3. b = c
  BY <1>2, InBlockExact
<1>4. NearSite(b, x.pos, native[x.target])
  <2>1. Code[b].offs[x.target] \in Nat /\ Code[b].offs[x.target] <= x.pos
    BY <1>1, <1>2, <1>3
  <2> QED
    BY <1>1, <1>2, <1>3, <2>1, OwnBlockNear
<1> QED
  BY <1>4

LEMMA RemoveFacts ==
  ASSUME LinkInv, NEW i \in 1..Len(pending), RemoveEntry(i),
         compiled' = compiled
  PROVE  /\ pending' \in Seq(Entries) /\ Len(pending') <= QueueSize
         /\ \A j \in 1..Len(pending') : pending'[j].block \in compiled'
<1>1. /\ pending \in Seq(Entries) /\ Len(pending) <= QueueSize
      /\ \A j \in 1..Len(pending) : pending[j].block \in compiled
      /\ Len(pending) \in Nat /\ QueueSize \in Nat
  BY LinkerAssumption DEF LinkInv, TypeInv
<1> DEFINE n == Len(pending)
           q == [pending EXCEPT ![i] = pending[n]]
<1>2. n \in 1..n
  BY <1>1
<1>3. pending[n] \in Entries
  BY <1>1, <1>2, ElementOfSeq
<1>4. /\ q \in Seq(Entries) /\ Len(q) = n
      /\ \A j \in 1..n : q[j] = IF j = i THEN pending[n] ELSE pending[j]
  BY <1>1, <1>3, ExceptSeq
<1>5. pending' = SubSeq(q, 1, n - 1)
  BY DEF RemoveEntry
<1> HIDE DEF q
<1>6. \A j \in 1..(n - 1) : q[j] \in Entries
  BY <1>1, <1>4, ElementOfSeq
<1>7. /\ pending' \in Seq(Entries) /\ Len(pending') = n - 1
      /\ \A j \in 1..(n - 1) : pending'[j] = q[j]
  <2> DEFINE k == n - 1
  <2>1. k \in Nat /\ 1 \in Int /\ k \in Int
    BY <1>1, <1>2
  <2>2. \A j \in 1..k : q[j] \in Entries
    BY <1>6
  <2>3. pending' = SubSeq(q, 1, k)
    BY <1>5
  <2> HIDE DEF k
  <2>4. /\ pending' \in Seq(Entries)
        /\ Len(pending') = IF 1 <= k THEN k - 1 + 1 ELSE 0
        /\ \A j \in 1..(k - 1 + 1) : pending'[j] = q[1 + j - 1]
    BY <2>1, <2>2, <2>3, SubSeqProperties
  <2>5. Len(pending') = k /\ \A j \in 1..k : pending'[j] = q[j]
    BY <2>1, <2>4
  <2> QED
    BY <2>4, <2>5 DEF k
<1>8. \A j \in 1..Len(pending') : pending'[j].block \in compiled'
  BY <1>1, <1>2, <1>4, <1>7
<1> QED
  BY <1>1, <1>7, <1>8

LEMMA SweepStep ==
  ASSUME LinkInv, SweepEntry
  PROVE  LinkInv'
<1>1. /\ plan # <<>> /\ Head(plan) = "sweep" /\ scan.index <= Len(pending)
      /\ UNCHANGED <<tramp, plan, cursor, compiled, native, settle_counter,
                     settled>>
  BY DEF SweepEntry, codeVars, settleVars
<1>2. scan.index \in 1..Len(pending)
  BY <1>1 DEF LinkInv, TypeInv, Scans
<1>p. PICK b \in Blocks : \E x \in Sites(b) : pending[scan.index] = Entry(b, x)
  BY <1>2, EntryFacts
<1>3. PICK x \in Sites(b) : pending[scan.index] = Entry(b, x)
  BY <1>p
<1>4. CASE SweepSkips(pending[scan.index])
  BY <1>4, SkipStep DEF SweepEntry
<1>5. CASE ~SweepSkips(pending[scan.index])
  <2>1. /\ RemoveEntry(scan.index) /\ UNCHANGED scan
        /\ operand' = IF Patched(b, x.pos) THEN operand
                      ELSE [operand EXCEPT ![<<b, x.pos>>] =
                              OntoTemplate(native[x.target])]
    BY <1>3, <1>5 DEF SweepEntry, Entry
  <2>2. /\ native[x.target] # NoAddr
        /\ ~NearSite(b, x.pos, native[x.target])
        /\ Patched(b, x.pos) \/ Aligned(native[x.target])
    BY <1>3, <1>5 DEF SweepSkips, Entry
  <2>3. /\ compiled' \subseteq Blocks /\ native' \in [Pc -> Address]
        /\ tramp' \in [Slots -> Address] /\ NativeInv' /\ TrampInv' /\ Keeps
    BY <1>1, MemoryStays
  <2>4. /\ pending' \in Seq(Entries) /\ Len(pending') <= QueueSize
        /\ \A j \in 1..Len(pending') : pending'[j].block \in compiled'
    BY <1>1, <1>2, <2>1, RemoveFacts
  <2>5. ScanInv'
    BY <1>1, <2>1, NothingLeft, ScanIdle
  <2>6. LinksInv' /\ operand' \in [Site \cup Exits -> Address]
    <3>1. CASE Patched(b, x.pos)
      <4>1. operand' = operand
        BY <2>1, <3>1
      <4> QED
        BY <2>3, <4>1, LinksStay DEF LinkInv, TypeInv
    <3>2. CASE ~Patched(b, x.pos)
      <4>1. x.target \in Pc
        BY SiteFacts DEF Sites
      <4>2. native[x.target] \in Address
        BY <2>2, <4>1, NativeApart DEF LinkInv
      <4>3. OntoTemplate(native[x.target]) = native[x.target]
        BY <2>2, <3>2, <4>2, OntoAligned
      <4>4. operand' = [operand EXCEPT ![<<b, x.pos>>] = native[x.target]]
        BY <2>1, <3>2, <4>3
      <4>5. x.cond \/ ~InBlock_Exact(b, native[x.target])
        BY <2>2, SweepLeavesLoops
      <4>6. Keeps /\ native' = native
        BY <1>1, <2>3
      <4>7. PICK a \in Address : a = native[x.target]
        BY <4>2
      <4>8. operand' = [operand EXCEPT ![<<b, x.pos>>] = a]
        BY <4>4, <4>7
      <4> QED
        BY <1>p, <1>3, <2>2, <4>5, <4>6, <4>7, <4>8, LinkTemplate
    <3> QED
      BY <3>1, <3>2
  <2>7. TypeInv'
    BY <1>1, <2>1, <2>3, <2>4, <2>6 DEF TypeInv, LinkInv
  <2> QED
    BY <2>3, <2>5, <2>6, <2>7 DEF LinkInv
<1> QED
  BY <1>4, <1>5
-----------------------------------------------------------------------------
(* The two scans of the epilogues. *)
LEMMA ExitStep ==
  ASSUME LinkInv, NEW b \in Blocks, LinkEpilogues({b}),
         plan # <<>>, Head(plan) # "branches",
         scan' \in Scans, scan'.left = scan.left, scan'.block = scan.block,
         scan'.own = scan.own,
         cursor' \in [sec : 0..Sectors, off : 0..SectorSize],
         UNCHANGED <<tramp, pending, plan, codeVars, settleVars>>
  PROVE  LinkInv'
<1>1. UNCHANGED <<compiled, native, tramp, pending, plan, settle_counter,
                  settled>>
  BY DEF codeVars, settleVars
<1>2. /\ compiled' \subseteq Blocks /\ native' \in [Pc -> Address]
      /\ tramp' \in [Slots -> Address] /\ NativeInv' /\ TrampInv' /\ Keeps
  BY <1>1, MemoryStays
<1>3. LinksInv' /\ operand' \in [Site \cup Exits -> Address]
  BY <1>1, LinkExit
<1>4. ScanInv'
  BY <1>1, NothingLeft, ScanIdle
<1>5. TypeInv'
  BY <1>1, <1>2, <1>3 DEF TypeInv, LinkInv
<1> QED
  BY <1>2, <1>3, <1>4, <1>5 DEF LinkInv

LEMMA NextHeaderType ==
  ASSUME NEW b \in Blocks
  PROVE  NextHeader(Code[b].base, Code[b].len) \in 0..SectorSize
<1>1. NextHeader(Code[b].base, Code[b].len) \in Nat
  BY BlockFacts, NextHeaderFacts
<1> QED
  BY <1>1, NextHeaderInSector, PoolBase DEF BlockHeaderSize

LEMMA BlocksAtFacts ==
  ASSUME LinkInv, NEW s, NEW off, NEW b \in BlocksAt(s, off)
  PROVE  b \in Blocks /\ b \in compiled /\ Code[b].sec = s /\ Code[b].base = off
BY DEF LinkInv, TypeInv, BlocksAt

LEMMA BatchLinkStep ==
  ASSUME LinkInv, BatchStep
  PROVE  LinkInv'
<1> DEFINE wrapped == cursor.sec >= Sectors
           s   == IF wrapped THEN 0 ELSE cursor.sec
           off == IF wrapped THEN FirstHeader ELSE cursor.off
<1>1. /\ plan # <<>> /\ Head(plan) = "batch" /\ scan.steps > 0
      /\ scan' = [scan EXCEPT !.steps = scan.steps - 1]
      /\ UNCHANGED <<tramp, pending, plan, codeVars, settleVars>>
  BY DEF BatchStep
<1>2. \/ /\ cursor' = [sec |-> s + 1, off |-> FirstHeader]
         /\ UNCHANGED operand
      \/ /\ cursor' = [sec |-> s + 1, off |-> AfterBadHeader]
         /\ UNCHANGED operand
      \/ \E b \in BlocksAt(s, off) :
           /\ cursor' = [sec |-> s, off |-> NextHeader(off, Code[b].len)]
           /\ LinkEpilogues({b})
  BY DEF BatchStep
<1>3. scan \in Scans /\ cursor \in [sec : 0..Sectors, off : 0..SectorSize]
  BY DEF LinkInv, TypeInv
<1>4. s \in 0..Sectors /\ s + 1 \in 0..Sectors
  BY <1>3, LinkerAssumption
<1>p. scan.steps \in 0..ScanBatch /\ ScanBatch \in Nat
  BY <1>3, LinkerAssumption DEF Scans
<1>q. scan.steps - 1 \in 0..ScanBatch
  BY <1>1, <1>p
<1>5. scan' \in Scans
  BY <1>1, <1>3, <1>q DEF Scans
<1>6. scan'.left = scan.left /\ scan'.block = scan.block /\ scan'.own = scan.own
  BY <1>1, <1>3 DEF Scans
<1> HIDE DEF s, off
<1>7. CASE /\ cursor' \in [sec : 0..Sectors, off : 0..SectorSize]
           /\ UNCHANGED operand
  <2>1. ScanInv'
    BY <1>1, <1>6, NothingLeft, ScanIdle DEF codeVars
  <2>2. plan' \in Plans /\ settle_counter' \in 0..CounterMax
        /\ settled' \in BOOLEAN /\ UNCHANGED <<compiled, native, linkVars>>
    BY <1>1, <1>7 DEF LinkInv, TypeInv, codeVars, settleVars, linkVars
  <2> QED
    BY <1>5, <1>7, <2>1, <2>2, MoveStep
<1>8. FirstHeader \in 0..SectorSize /\ AfterBadHeader \in 0..SectorSize
  BY FirstHeaderFact, PoolBase DEF HeaderPos, BlockAlignment,
     BlockHeaderSize, AfterBadHeader
<1>9. ASSUME NEW b \in BlocksAt(s, off),
             cursor' = [sec |-> s, off |-> NextHeader(off, Code[b].len)],
             LinkEpilogues({b})
      PROVE  LinkInv'
  <2>1. b \in Blocks /\ Code[b].base = off
    BY <1>9, BlocksAtFacts
  <2>2. cursor' \in [sec : 0..Sectors, off : 0..SectorSize]
    BY <1>4, <1>9, <2>1, NextHeaderType
  <2>3. /\ plan # <<>> /\ Head(plan) # "branches" /\ LinkEpilogues({b})
        /\ UNCHANGED <<tramp, pending, plan, codeVars, settleVars>>
    BY <1>1, <1>9
  <2> QED
    BY <1>5, <1>6, <2>1, <2>2, <2>3, ExitStep
<1>10. ASSUME NEW o \in 0..SectorSize, UNCHANGED operand,
              cursor' = [sec |-> s + 1, off |-> o]
       PROVE  LinkInv'
  BY <1>4, <1>7, <1>10
<1> QED
  BY <1>2, <1>8, <1>9, <1>10

LEMMA FullEpilogueStep ==
  ASSUME LinkInv, NEW b \in Blocks, FullEpilogueScan(b)
  PROVE  LinkInv'
<1>1. /\ plan # <<>> /\ Head(plan) = "epilogues"
      /\ b \in BlocksAt(scan.sec, scan.off) /\ LinkEpilogues({b})
      /\ UNCHANGED <<tramp, pending, plan, cursor, codeVars, settleVars>>
  BY DEF FullEpilogueScan, InFullScan
<1>2. scan' = [scan EXCEPT !.off = NextHeader(scan.off, Code[b].len),
                           !.patched = IF Linkable(b) THEN scan.patched + 1
                                                      ELSE scan.patched]
  BY DEF FullEpilogueScan
<1>3. scan \in Scans /\ NextHeader(scan.off, Code[b].len) \in 0..SectorSize
  BY <1>1, BlocksAtFacts, NextHeaderType DEF LinkInv, TypeInv
<1>p. scan.patched \in Nat
  BY <1>3 DEF Scans
<1> DEFINE n == IF Linkable(b) THEN scan.patched + 1 ELSE scan.patched
<1>q. n \in Nat
  BY <1>p
<1>r. scan' = [scan EXCEPT !.off = NextHeader(scan.off, Code[b].len),
                           !.patched = n]
  BY <1>2
<1> HIDE DEF n
<1>4. scan' \in Scans
  BY <1>3, <1>q, <1>r DEF Scans
<1>5. scan'.left = scan.left /\ scan'.block = scan.block /\ scan'.own = scan.own
  BY <1>2, <1>3 DEF Scans
<1>6. cursor' \in [sec : 0..Sectors, off : 0..SectorSize]
  BY <1>1 DEF LinkInv, TypeInv
<1> QED
  BY <1>1, <1>4, <1>5, <1>6, ExitStep
-----------------------------------------------------------------------------
(* The scan of the templates. *)
LEMMA SectorStep ==
  ASSUME LinkInv, FullScanSector
  PROVE  LinkInv'
<1>0. scan \in Scans /\ scan.sec \in 0..Sectors /\ Sectors \in Nat
  BY LinkerAssumption DEF LinkInv, TypeInv, Scans
<1>1. /\ scan.left = {} /\ scan.sec < Sectors /\ scan \in Scans
      /\ scan' = [scan EXCEPT !.sec = scan.sec + 1, !.off = FirstHeader]
      /\ UNCHANGED <<linkVars, plan, cursor, codeVars, settleVars>>
  BY <1>0 DEF FullScanSector, InFullScan, ScanDone, NextSector
<1>2. scan.sec + 1 \in 0..Sectors /\ FirstHeader \in 0..SectorSize
  <2>1. FirstHeader \in 0..SectorSize
    BY ScanStartType DEF ScanStart, Scans
  <2>2. scan.sec \in 0..Sectors /\ Sectors \in Nat
    BY <1>1, LinkerAssumption DEF Scans
  <2> QED
    BY <1>1, <2>1, <2>2
<1>3. /\ scan' \in Scans /\ scan'.left = {} /\ scan'.block = scan.block
      /\ scan'.own = scan.own
  BY <1>1, <1>2 DEF Scans
<1>4. /\ plan' \in Plans /\ settle_counter' \in 0..CounterMax
      /\ settled' \in BOOLEAN /\ UNCHANGED <<compiled, native, linkVars, tramp>>
      /\ cursor' \in [sec : 0..Sectors, off : 0..SectorSize]
  BY <1>1 DEF LinkInv, TypeInv, codeVars, settleVars, linkVars
<1> QED
  BY <1>3, <1>4, ScanIdle, MoveStep

LEMMA EnterStep ==
  ASSUME LinkInv, NEW b \in Blocks, EnterBlock(b)
  PROVE  LinkInv'
<1>1. /\ plan # <<>> /\ Head(plan) = "branches" /\ scan \in Scans
      /\ b \in BlocksAt(scan.sec, scan.off)
      /\ scan' = [scan EXCEPT
           !.off = NextHeader(scan.off, Code[b].len), !.block = {b},
           !.own = NoAddr, !.left = {x \in Sites(b) : ~Patched(b, x.pos)}]
      /\ UNCHANGED <<linkVars, plan, cursor, codeVars, settleVars>>
  BY DEF EnterBlock, Unpatched, InFullScan, LinkInv, TypeInv, Sites
<1>2. b \in compiled /\ Code[b].base = scan.off
  BY <1>1, BlocksAtFacts
<1>3. NextHeader(scan.off, Code[b].len) \in 0..SectorSize
  BY <1>2, NextHeaderType
<1>4. {x \in Sites(b) : ~Patched(b, x.pos)} \in SUBSET Templates
  BY DEF Templates
<1>5. /\ scan'.left = {x \in Sites(b) : ~Patched(b, x.pos)}
      /\ scan'.block = {b} /\ scan'.own = NoAddr
  BY <1>1 DEF Scans
<1>6. scan' \in Scans
  BY <1>1, <1>3, <1>4, NoAddrType DEF Scans
<1>7. /\ plan' \in Plans /\ settle_counter' \in 0..CounterMax
      /\ settled' \in BOOLEAN
      /\ UNCHANGED <<compiled, native, linkVars, operand>>
      /\ cursor' \in [sec : 0..Sectors, off : 0..SectorSize]
  BY <1>1 DEF LinkInv, TypeInv, codeVars, settleVars, linkVars
<1>8. ScanInv'
  BY <1>1, <1>2, <1>5, <1>7 DEF ScanInv, InBranches, Patched
<1> QED
  BY <1>6, <1>7, <1>8, MoveStep

LEMMA LeaveStep ==
  ASSUME LinkInv, NEW x, LeaveTemplate(x),
         UNCHANGED <<pending, plan, cursor, codeVars, settleVars>>
  PROVE  LinkInv'
<1>1. /\ scan \in Scans
      /\ scan' = [scan EXCEPT !.left = scan.left \ {x}]
      /\ UNCHANGED <<operand, tramp>>
  BY DEF LeaveTemplate, LinkInv, TypeInv
<1>2. scan.left \ {x} \in SUBSET Templates
  BY <1>1 DEF Scans
<1>3. /\ scan' \in Scans /\ scan'.left = scan.left \ {x}
      /\ scan'.block = scan.block /\ scan'.own = scan.own
  BY <1>1, <1>2 DEF Scans
<1>4. /\ plan' \in Plans /\ settle_counter' \in 0..CounterMax
      /\ settled' \in BOOLEAN
      /\ UNCHANGED <<compiled, native, linkVars, plan>>
      /\ cursor' \in [sec : 0..Sectors, off : 0..SectorSize]
  BY <1>1 DEF LinkInv, TypeInv, codeVars, settleVars, linkVars
<1>5. ScanInv'
  BY <1>1, <1>3, <1>4 DEF LinkInv, ScanInv, InBranches, Patched
<1> QED
  BY <1>3, <1>4, <1>5, MoveStep

(* A patch of the branch scan: the operand takes an address that leads to
   the target, over a slot that was free or led there already.             *)
GoodPatch(b, x, via, writes, own) ==
  /\ BranchLinkable(b, x) /\ PatchTemplate(b, x, via, writes, own)
  /\ Aligned(via) /\ via # NoAddr
  /\ \/ via = native[x.target] /\ ~writes
     \/ Writable(via) /\ ~writes /\ tramp[via] = native[x.target]
     \/ Writable(via) /\ writes /\ tramp[via] \in {NoAddr, native[x.target]}
  /\ own # NoAddr => Trails(b) /\ tramp'[TrailingSlot(b)] = own

LEMMA PatchStep ==
  ASSUME LinkInv, InBranches, NEW b \in scan.block, NEW x \in scan.left,
         NEW via \in Address, NEW writes \in BOOLEAN, NEW own \in Address,
         GoodPatch(b, x, via, writes, own),
         UNCHANGED <<pending, plan, cursor, codeVars, settleVars>>
  PROVE  /\ LinkInv' /\ Keeps
         /\ operand' = [operand EXCEPT ![<<b, x.pos>>] = via]
<1>a. /\ BranchLinkable(b, x) /\ PatchTemplate(b, x, via, writes, own)
      /\ Aligned(via) /\ via # NoAddr
      /\ \/ via = native[x.target] /\ ~writes
         \/ Writable(via) /\ ~writes /\ tramp[via] = native[x.target]
         \/ Writable(via) /\ writes /\ tramp[via] \in {NoAddr, native[x.target]}
      /\ own # NoAddr => Trails(b) /\ tramp'[TrailingSlot(b)] = own
  BY DEF GoodPatch
<1>1. /\ scan \in Scans /\ b \in compiled /\ b \in Blocks /\ x \in Sites(b)
      /\ native \in [Pc -> Address] /\ tramp \in [Slots -> Address]
      /\ operand \in [Site \cup Exits -> Address]
  BY DEF LinkInv, TypeInv, ScanInv
<1>2. x.target \in Pc
  BY <1>1, SiteFacts DEF Sites
<1>3. PICK na \in Address : na = native[x.target]
  BY <1>1, <1>2
<1>4. na # NoAddr /\ (x.cond \/ ~InBlock(b, na))
  BY <1>a, <1>3 DEF BranchLinkable
<1>5. /\ operand' = [operand EXCEPT ![<<b, x.pos>>] = via]
      /\ tramp' = IF writes THEN [tramp EXCEPT ![via] = na] ELSE tramp
      /\ scan' = [scan EXCEPT !.left = scan.left \ {x}, !.own = own,
                              !.patched = scan.patched + 1]
  BY <1>a, <1>3, OntoAligned DEF PatchTemplate
<1>6. /\ UNCHANGED <<compiled, native, pending, plan, cursor, settle_counter,
                     settled>>
  BY DEF codeVars, settleVars
<1>7. writes => via \in Slots /\ tramp'[via] = na
  BY <1>a, <1>1, <1>5, WritableFacts
<1>8. /\ tramp' \in [Slots -> Address]
      /\ \A t \in Slots : tramp[t] # NoAddr => tramp'[t] = tramp[t]
      /\ \A t \in Slots : tramp'[t] # tramp[t] => t = via /\ Writable(via)
  <2>1. CASE writes
    <3>1. tramp' = [tramp EXCEPT ![via] = na] /\ via \in Slots
      BY <1>5, <1>7, <2>1
    <3>2. tramp[via] \in {NoAddr, na}
      BY <1>a, <1>3, <2>1
    <3>3. Writable(via)
      BY <1>a, <2>1
    <3> QED
      BY <1>1, <3>1, <3>2, <3>3
  <2>2. CASE ~writes
    BY <1>1, <1>5, <2>2
  <2> QED
    BY <2>1, <2>2
<1>9. Keeps
  BY <1>6, <1>8 DEF Keeps
<1>10. NativeInv' /\ TrampInv'
  <2>1. \A t : Writable(t)' <=> Writable(t)
    BY DEF Writable, InPool
  <2>2. TrampInv'
    BY <1>8, <2>1 DEF LinkInv, TrampInv
  <2>3. NativeInv'
    BY <1>6 DEF LinkInv, NativeInv
  <2> QED
    BY <2>2, <2>3
<1>11. x.cond \/ ~InBlock_Exact(b, native[x.target])
  <2> SUFFICES ASSUME InBlock_Exact(b, native[x.target])
               PROVE  InBlock(b, na)
    BY <1>4
  <2>1. \E c \in Blocks : CodePlace(c, native[x.target])
    BY <1>2, <1>3, <1>4, NativeFacts DEF LinkInv
  <2> QED
    BY <1>1, <1>3, <2>1, InBlockExact
<1>12. via = native[x.target] \/ (Writable(via) /\ tramp'[via] = native[x.target])
  <2>1. CASE writes
    BY <1>a, <1>3, <1>7, <2>1
  <2>2. CASE ~writes
    BY <1>a, <1>5, <2>2
  <2> QED
    BY <2>1, <2>2
<1>13. LinksInv' /\ operand' \in [Site \cup Exits -> Address]
  BY <1>1, <1>3, <1>4, <1>5, <1>6, <1>9, <1>11, <1>12, LinkTemplate
<1>14. /\ scan'.left = scan.left \ {x} /\ scan'.block = scan.block
       /\ scan'.own = own /\ scan' \in Scans
  <2>1. scan.left \ {x} \in SUBSET Templates /\ scan.patched + 1 \in Nat
    BY <1>1 DEF Scans
  <2> QED
    BY <1>1, <1>5, <2>1 DEF Scans
<1>15. ScanInv'
  <2>1. ASSUME NEW y \in scan'.left
        PROVE  y \in Sites(b) /\ ~Patched(b, y.pos)'
    <3>1. y \in scan.left /\ y # x /\ y \in Sites(b) /\ ~Patched(b, y.pos)
      BY <1>14 DEF LinkInv, ScanInv
    <3>2. y.pos # x.pos
      BY <1>1, <3>1, SiteFacts DEF Sites
    <3>3. <<b, y.pos>> \in Site
      BY <1>1, <3>1, SiteFacts DEF Sites
    <3>4. operand'[<<b, y.pos>>] = operand[<<b, y.pos>>]
      BY <1>1, <1>5, <3>2, <3>3
    <3> QED
      BY <3>1, <3>4 DEF Patched
  <2>2. \A c \in scan'.block : c = b
    BY <1>14 DEF LinkInv, ScanInv
  <2>3. InBranches'
    BY <1>6 DEF InBranches
  <2>4. scan'.own # NoAddr => Trails(b) /\ tramp'[TrailingSlot(b)] = scan'.own
    BY <1>a, <1>14
  <2>5. b \in compiled'
    BY <1>1, <1>6
  <2>6. Trails(b)' <=> Trails(b)
    BY DEF Trails
  <2> QED
    BY <2>1, <2>2, <2>3, <2>4, <2>5, <2>6 DEF ScanInv
<1>16. TypeInv'
  BY <1>6, <1>8, <1>13, <1>14 DEF LinkInv, TypeInv
<1> QED
  BY <1>5, <1>9, <1>10, <1>13, <1>15, <1>16 DEF LinkInv

(* The templates that may stay unpatched. *)
LeftBehind(b, x) ==
  BranchLinkable(b, x) =>
    /\ ~Aligned(native[x.target])
    /\ PoolChoice(Code[b].sec, native[x.target]) = {}

LEMMA ScanOutcome ==
  ASSUME LinkInv, NEW b \in Blocks, NEW x \in Code[b].sites,
         ScanTemplate(b, x)
  PROVE  \/ LeaveTemplate(x) /\ LeftBehind(b, x)
         \/ \E via \in Address, writes \in BOOLEAN, own \in Address :
              GoodPatch(b, x, via, writes, own)
<1> DEFINE na == native[x.target]
           pool == PoolChoice(Code[b].sec, na)
<1>1. /\ InBranches /\ b \in scan.block /\ x \in scan.left
      /\ UNCHANGED <<pending, plan, cursor, codeVars, settleVars>>
  BY DEF ScanTemplate, InBranches
<1>2. \/ LeaveTemplate(x) /\ LeftBehind(b, x)
      \/ /\ BranchLinkable(b, x) /\ Aligned(na)
         /\ PatchTemplate(b, x, na, FALSE, scan.own)
      \/ /\ BranchLinkable(b, x)
         /\ OwnSlotFree(b) \/ scan.own = na
         /\ PatchTemplate(b, x, TrailingSlot(b), OwnSlotFree(b), na)
      \/ /\ BranchLinkable(b, x)
         /\ \E k \in pool :
              PatchTemplate(b, x, PoolSlot(Code[b].sec, k), TRUE, scan.own)
  BY DEF ScanTemplate, LeftBehind
<1>3. /\ x.target \in Pc /\ Code[b].sec \in Sector /\ scan.own \in Address
      /\ tramp \in [Slots -> Address]
  BY SiteFacts, BlockFacts DEF LinkInv, TypeInv, Scans
<1>4. /\ scan.own # NoAddr =>
           Trails(b) /\ tramp[TrailingSlot(b)] = scan.own
  BY <1>1 DEF LinkInv, ScanInv
<1>5. BranchLinkable(b, x) => na # NoAddr /\ na \in Address
  BY <1>3, NativeApart DEF BranchLinkable, LinkInv
<1> HIDE DEF na, pool
<1>7. CASE /\ BranchLinkable(b, x) /\ Aligned(na)
           /\ PatchTemplate(b, x, na, FALSE, scan.own)
  <2>1. PICK a \in Address : a = na
    BY <1>5, <1>7
  <2>2. PICK own \in Address : own = scan.own
    BY <1>3
  <2>3. tramp' = tramp
    BY <1>7 DEF PatchTemplate
  <2>4. own # NoAddr => Trails(b) /\ tramp'[TrailingSlot(b)] = own
    BY <1>4, <2>2, <2>3
  <2> QED
    BY <1>5, <1>7, <2>1, <2>2, <2>4 DEF GoodPatch, na
<1>8. CASE /\ BranchLinkable(b, x)
           /\ OwnSlotFree(b) \/ scan.own = na
           /\ PatchTemplate(b, x, TrailingSlot(b), OwnSlotFree(b), na)
  <2>1. PICK own \in Address : own = na
    BY <1>5, <1>8
  <2>2. PICK writes \in BOOLEAN : writes <=> OwnSlotFree(b)
    OBVIOUS
  <2>3. PatchTemplate(b, x, TrailingSlot(b), writes, own)
    <3>1. CASE OwnSlotFree(b)
      BY <1>8, <2>1, <2>2, <3>1 DEF PatchTemplate
    <3>2. CASE ~OwnSlotFree(b)
      BY <1>8, <2>1, <2>2, <3>2 DEF PatchTemplate
    <3> QED
      BY <3>1, <3>2
  <2>4. Trails(b)
    BY <1>4, <1>5, <1>8 DEF OwnSlotFree, Trails
  <2>5. Writable(TrailingSlot(b))
    BY <2>4 DEF Writable
  <2>6. PICK via \in Address : via = TrailingSlot(b)
    BY <2>5, WritableFacts
  <2>7. /\ Aligned(via) /\ via # NoAddr /\ via \in Slots /\ Writable(via)
    BY <2>5, <2>6, WritableFacts
  <2>8. IF writes THEN tramp[via] = NoAddr ELSE tramp[via] = na
    BY <1>4, <1>5, <1>8, <2>2, <2>6 DEF OwnSlotFree
  <2>9. tramp'[via] = own
    <3>1. tramp' = IF writes THEN [tramp EXCEPT ![via] = na] ELSE tramp
      BY <2>3, <2>6 DEF PatchTemplate, na
    <3> QED
      BY <1>3, <2>1, <2>7, <2>8, <3>1
  <2> QED
    BY <1>8, <2>1, <2>2, <2>3, <2>4, <2>6, <2>7, <2>8, <2>9
       DEF GoodPatch, na
<1>9. ASSUME NEW k \in pool, BranchLinkable(b, x),
             PatchTemplate(b, x, PoolSlot(Code[b].sec, k), TRUE, scan.own)
      PROVE  \E via \in Address, writes \in BOOLEAN, own \in Address :
               GoodPatch(b, x, via, writes, own)
  <2>1. k \in PoolSlots /\ tramp[PoolSlot(Code[b].sec, k)] \in {NoAddr, na}
    BY DEF pool, PoolChoice
  <2>2. Writable(PoolSlot(Code[b].sec, k))
    BY <1>3, <2>1 DEF Writable, InPool
  <2>3. PICK via \in Address : via = PoolSlot(Code[b].sec, k)
    BY <2>2, WritableFacts
  <2>4. Aligned(via) /\ via # NoAddr /\ via \in Slots /\ Writable(via)
    BY <2>2, <2>3, WritableFacts
  <2>5. PICK own \in Address : own = scan.own
    BY <1>3
  <2>6. tramp' = [tramp EXCEPT ![via] = na]
    BY <1>9, <2>3 DEF PatchTemplate, na
  <2>7. own # NoAddr => Trails(b) /\ tramp'[TrailingSlot(b)] = own
    <3>1. TrailingSlot(b) \in Slots
      BY TrailingFacts
    <3> QED
      BY <1>3, <1>4, <2>1, <2>3, <2>4, <2>5, <2>6, <3>1
  <2> QED
    BY <1>9, <2>1, <2>3, <2>4, <2>5, <2>7 DEF GoodPatch, na
<1> QED
  BY <1>2, <1>7, <1>8, <1>9
LEMMA ScanTemplateStep ==
  ASSUME LinkInv, NEW b \in Blocks, NEW x \in Code[b].sites,
         ScanTemplate(b, x)
  PROVE  LinkInv'
<1>1. /\ InBranches /\ b \in scan.block /\ x \in scan.left
      /\ UNCHANGED <<pending, plan, cursor, codeVars, settleVars>>
  BY DEF ScanTemplate, InBranches
<1>2. CASE LeaveTemplate(x)
  BY <1>1, <1>2, LeaveStep
<1>3. ASSUME NEW via \in Address, NEW writes \in BOOLEAN, NEW own \in Address,
             GoodPatch(b, x, via, writes, own)
      PROVE  LinkInv'
  BY <1>1, <1>3, PatchStep
<1> QED
  BY <1>2, <1>3, ScanOutcome
-----------------------------------------------------------------------------
LEMMA LinkNext == LinkInv /\ [Next]_vars => LinkInv'
<1> SUFFICES ASSUME LinkInv, [Next]_vars PROVE LinkInv'
  OBVIOUS
<1>1. CASE FrameTick
  BY <1>1, TickStep
<1>2. CASE SweepEntry
  BY <1>2, SweepStep
<1>3. CASE SweepEnd
  BY <1>3, NextPassStep DEF SweepEnd
<1>4. CASE BatchStep
  BY <1>4, BatchLinkStep
<1>5. CASE BatchEnd
  BY <1>5, NextPassStep DEF BatchEnd
<1>6. CASE FullScanSector
  BY <1>6, SectorStep
<1>7. CASE FullScanEnd
  BY <1>7, NextPassStep DEF FullScanEnd
<1>8. ASSUME NEW b \in Blocks, FullEpilogueScan(b)
      PROVE  LinkInv'
  BY <1>8, FullEpilogueStep
<1>9. ASSUME NEW b \in Blocks, EnterBlock(b)
      PROVE  LinkInv'
  BY <1>9, EnterStep
<1>10. ASSUME NEW b \in Blocks, NEW x \in Code[b].sites, ScanTemplate(b, x)
       PROVE  LinkInv'
  BY <1>10, ScanTemplateStep
<1>11. ASSUME NEW b \in Blocks, CompileBlock(b)
       PROVE  LinkInv'
  BY <1>11, CompileStep
<1>12. CASE UNCHANGED vars
  <2>1. /\ UNCHANGED <<compiled, native, linkVars, plan, scan, cursor,
                       settle_counter, settled, operand, tramp>>
    BY <1>12 DEF vars, linkVars, codeVars, settleVars
  <2>2. ScanInv'
    BY <2>1 DEF LinkInv, ScanInv, InBranches, Patched
  <2> QED
    BY <2>1, <2>2, MoveStep DEF LinkInv, TypeInv
<1> QED
  BY <1>1, <1>2, <1>3, <1>4, <1>5, <1>6, <1>7, <1>8, <1>9, <1>10, <1>11,
     <1>12 DEF Next, LinkStep

LEMMA LinkInvariant == Spec => []LinkInv
<1> QED
  BY LinkInit, LinkNext, PTL DEF Spec

LEMMA LinkType == LinkInv => TypeOK
<1> SUFFICES ASSUME LinkInv PROVE TypeOK
  OBVIOUS
<1>1. /\ compiled \subseteq Blocks
      /\ native \in [Pc -> Address] /\ operand \in [Site \cup Exits -> Address]
      /\ tramp \in [Slots -> Address]
      /\ pending \in Seq(Entries) /\ Len(pending) <= QueueSize
      /\ \A i \in 1..Len(pending) : pending[i].block \in compiled
      /\ plan \in Plans
      /\ settle_counter \in 0..CounterMax
  BY DEF LinkInv, TypeInv
<1>b. settled \in BOOLEAN
  BY DEF LinkInv, TypeInv
<1>2. scan.index \in 1..(QueueSize + 1) /\ scan.steps \in 0..ScanBatch
  BY DEF LinkInv, TypeInv, Scans
<1>3. cursor.sec \in 0..Sectors /\ cursor.off \in 0..SectorSize
  BY DEF LinkInv, TypeInv
<1>4. \A i \in 1..Len(pending) : pending[i].target \in Pc
  <2> SUFFICES ASSUME NEW i \in 1..Len(pending) PROVE pending[i].target \in Pc
    OBVIOUS
  <2>1. PICK b \in Blocks : \E x \in Sites(b) : pending[i] = Entry(b, x)
    BY EntryFacts
  <2>2. PICK x \in Sites(b) : pending[i] = Entry(b, x)
    BY <2>1
  <2>3. x.target \in Pc
    BY SiteFacts DEF Sites
  <2> QED
    BY <2>2, <2>3 DEF Entry
<1>5. plan \in {<<>>, LightSweep, Tail(LightSweep), FullResolve,
                Tail(FullResolve), Tail(Tail(FullResolve)),
                Tail(Tail(Tail(FullResolve)))}
  <2>1. /\ Tail(LightSweep) = <<"batch">>
        /\ Tail(FullResolve) = <<"epilogues", "branches", "sweep">>
    BY DEF LightSweep, FullResolve
  <2>2. /\ Tail(<<"epilogues", "branches", "sweep">>) = <<"branches", "sweep">>
        /\ Tail(<<"branches", "sweep">>) = <<"sweep">>
    OBVIOUS
  <2>3. plan \in {<<>>, <<"batch">>, LightSweep, <<"sweep">>,
                 <<"branches", "sweep">>, <<"epilogues", "branches", "sweep">>,
                 FullResolve}
    BY <1>1 DEF Plans, LightSweep, FullResolve
  <2> QED
    BY <2>1, <2>2, <2>3
<1> QED
  BY <1>1, <1>b, <1>2, <1>3, <1>4, <1>5 DEF TypeOK

LEMMA LinkFaithful == LinkInv => LinksFaithful
<1> SUFFICES ASSUME LinkInv, NEW b \in Blocks, NEW t \in Targets(b),
                    operand[t[1]] # NoAddr
             PROVE  Lands(operand[t[1]]) = native[t[2]]
  BY DEF LinksFaithful
<1>1. ASSUME NEW p \in Pc, native[p] # NoAddr
      PROVE  Lands(native[p]) = native[p]
  <2>1. ~Writable(native[p])
    BY <1>1, NativeApart DEF LinkInv
  <2> QED
    BY <2>1 DEF Lands, LinkInv, TrampInv
<1>2. CASE t = <<<<b, EpiloguePos(b)>>, Code[b].exit>>
  <2>1. operand[<<b, EpiloguePos(b)>>] = native[Code[b].exit]
    BY <1>2 DEF LinkInv, LinksInv, Patched
  <2> QED
    BY <1>1, <1>2, <2>1, BlockFacts
<1>3. ASSUME NEW x \in Sites(b), t = <<<<b, x.pos>>, x.target>>
      PROVE  Lands(operand[t[1]]) = native[t[2]]
  <2>1. native[x.target] # NoAddr /\ Linked(<<b, x.pos>>, x.target)
    BY <1>3 DEF LinkInv, LinksInv, Patched
  <2>2. x.target \in Pc
    BY SiteFacts DEF Sites
  <2>3. CASE operand[<<b, x.pos>>] = native[x.target]
    BY <1>1, <1>3, <2>1, <2>2, <2>3
  <2>4. CASE /\ Writable(operand[<<b, x.pos>>])
             /\ tramp[operand[<<b, x.pos>>]] = native[x.target]
    BY <1>3, <2>1, <2>4, WritableFacts DEF Lands
  <2> QED
    BY <2>1, <2>3, <2>4 DEF Linked
<1> QED
  BY <1>2, <1>3 DEF Targets, Sites

LEMMA LinkApart == LinkInv => TrampolinesApart
<1> SUFFICES ASSUME LinkInv, NEW t \in Slots, tramp[t] # NoAddr,
                    NEW c \in compiled, Code[c].sec = t[1]
             PROVE  \/ t[2] + TrampolineSize <= Code[c].base
                    \/ t[2] >= BlockEnd(Code[c].base, Code[c].len)
  BY DEF TrampolinesApart
<1>1. Writable(t) /\ c \in Blocks
  BY DEF LinkInv, TypeInv, TrampInv
<1> QED
  BY <1>1, WritableApart

LEMMA LinkNoLoop == LinkInv => NoSelfLoop
<1> SUFFICES ASSUME LinkInv, NEW b \in compiled PROVE
       /\ Patched(b, EpiloguePos(b)) =>
            ~InBlock_Exact(b, operand[<<b, EpiloguePos(b)>>])
       /\ \A x \in Sites(b) : ~x.cond /\ Patched(b, x.pos) =>
            ~InBlock_Exact(b, Lands(operand[<<b, x.pos>>]))
  BY DEF NoSelfLoop, Patched, Sites
<1>1. b \in Blocks
  BY DEF LinkInv, TypeInv
<1>2. ASSUME Patched(b, EpiloguePos(b)),
             InBlock_Exact(b, operand[<<b, EpiloguePos(b)>>])
      PROVE  FALSE
  <2>1. /\ operand[<<b, EpiloguePos(b)>>] = native[Code[b].exit]
        /\ ~InBlock(b, native[Code[b].exit])
        /\ native[Code[b].exit] # NoAddr
    BY <1>1, <1>2 DEF LinkInv, LinksInv, Patched
  <2>2. \E c \in Blocks : CodePlace(c, native[Code[b].exit])
    BY <1>1, <2>1, BlockFacts, NativeFacts DEF LinkInv
  <2> QED
    BY <1>1, <1>2, <2>1, <2>2, InBlockExact
<1>3. ASSUME NEW x \in Sites(b), ~x.cond, Patched(b, x.pos)
      PROVE  ~InBlock_Exact(b, Lands(operand[<<b, x.pos>>]))
  <2>1. ~InBlock_Exact(b, native[x.target])
    BY <1>1, <1>3 DEF LinkInv, LinksInv
  <2>2. <<<<b, x.pos>>, x.target>> \in Targets(b)
    BY DEF Targets, Sites
  <2>3. Lands(operand[<<b, x.pos>>]) = native[x.target]
    BY <1>1, <1>3, <2>2, LinkFaithful DEF LinksFaithful, Patched
  <2> QED
    BY <2>1, <2>3
<1> QED
  BY <1>2, <1>3

(* Which operands and slots a step can change. *)
OperandsKept ==
  \A e \in Site \cup Exits : operand[e] # NoAddr => operand'[e] = operand[e]
SlotsKept == \A t \in Slots : tramp[t] # NoAddr => tramp'[t] = tramp[t]

LEMMA ExitKeeps ==
  ASSUME LinkInv, NEW b \in Blocks, LinkEpilogues({b})
  PROVE  OperandsKept
<1>1. operand \in [Site \cup Exits -> Address]
  BY DEF LinkInv, TypeInv
<1>2. ASSUME NEW e \in Site \cup Exits, operand[e] # NoAddr
      PROVE  operand'[e] = operand[e]
  <2>1. \A c \in {b} : ~(e = <<c, EpiloguePos(c)>> /\ Linkable(c))
    BY <1>2 DEF Linkable, Patched
  <2> QED
    BY <1>1, <2>1 DEF LinkEpilogues
<1> QED
  BY <1>2 DEF OperandsKept

LEMMA TemplateKeeps ==
  ASSUME LinkInv, NEW b \in Blocks, NEW x \in Sites(b), ~Patched(b, x.pos),
         NEW a, operand' = [operand EXCEPT ![<<b, x.pos>>] = a]
  PROVE  OperandsKept
BY DEF OperandsKept, Patched, LinkInv, TypeInv

LEMMA StepKeeps ==
  ASSUME LinkInv, [Next]_vars
  PROVE  OperandsKept /\ SlotsKept
<1>1. CASE UNCHANGED <<operand, tramp>>
  BY <1>1 DEF OperandsKept, SlotsKept
<1>2. CASE SweepEntry
  <2>1. scan.index \in 1..Len(pending) /\ tramp' = tramp
    BY <1>2 DEF SweepEntry, LinkInv, TypeInv, Scans
  <2>p. PICK b \in Blocks : \E x \in Sites(b) : pending[scan.index] = Entry(b, x)
    BY <2>1, EntryFacts
  <2>2. PICK x \in Sites(b) : pending[scan.index] = Entry(b, x)
    BY <2>p
  <2>3. \/ operand' = operand
        \/ /\ ~Patched(b, x.pos)
           /\ operand' = [operand EXCEPT ![<<b, x.pos>>] =
                            OntoTemplate(native[x.target])]
    BY <1>2, <2>2 DEF SweepEntry, Entry
  <2>4. OperandsKept
    BY <2>p, <2>2, <2>3, TemplateKeeps DEF OperandsKept
  <2> QED
    BY <2>1, <2>4 DEF SlotsKept
<1>3. CASE BatchStep
  <2>1. \/ UNCHANGED operand
        \/ \E s, off : \E b \in BlocksAt(s, off) : LinkEpilogues({b})
    BY <1>3 DEF BatchStep
  <2>2. OperandsKept
    BY <2>1, BlocksAtFacts, ExitKeeps DEF OperandsKept
  <2> QED
    BY <1>3, <2>2 DEF BatchStep, SlotsKept
<1>4. ASSUME NEW b \in Blocks, FullEpilogueScan(b)
      PROVE  OperandsKept /\ SlotsKept
  BY <1>4, ExitKeeps DEF FullEpilogueScan, SlotsKept
<1>5. ASSUME NEW b \in Blocks, NEW x \in Code[b].sites, ScanTemplate(b, x)
      PROVE  OperandsKept /\ SlotsKept
  <2>1. /\ InBranches /\ b \in scan.block /\ x \in scan.left
        /\ UNCHANGED <<pending, plan, cursor, codeVars, settleVars>>
    BY <1>5 DEF ScanTemplate, InBranches
  <2>2. CASE LeaveTemplate(x)
    BY <2>2 DEF LeaveTemplate, OperandsKept, SlotsKept
  <2>3. ASSUME NEW via \in Address, NEW writes \in BOOLEAN,
               NEW own \in Address, GoodPatch(b, x, via, writes, own)
        PROVE  OperandsKept /\ SlotsKept
    <3>1. /\ Keeps /\ operand' = [operand EXCEPT ![<<b, x.pos>>] = via]
      BY <2>1, <2>3, PatchStep
    <3>2. ~Patched(b, x.pos)
      BY <2>1 DEF LinkInv, ScanInv
    <3>3. OperandsKept
      BY <3>1, <3>2, TemplateKeeps DEF Sites
    <3> QED
      BY <3>1, <3>3 DEF Keeps, SlotsKept
  <2> QED
    BY <1>5, <2>2, <2>3, ScanOutcome
<1>6. CASE FrameTick \/ SweepEnd \/ BatchEnd \/ FullScanSector \/ FullScanEnd
  BY <1>1, <1>6 DEF FrameTick, TickSettled, TickUnsettled, SweepEnd, BatchEnd,
     FullScanSector, FullScanEnd, linkVars
<1>7. ASSUME NEW b \in Blocks, EnterBlock(b) \/ CompileBlock(b)
      PROVE  OperandsKept /\ SlotsKept
  BY <1>1, <1>7 DEF EnterBlock, CompileBlock, linkVars
<1> QED
  BY <1>1, <1>2, <1>3, <1>4, <1>5, <1>6, <1>7
     DEF Next, LinkStep, vars, linkVars

(* The linker's variables keep their types: no queue overflow, no cursor or
   native address outside the sectors.                                      *)
THEOREM TypeCorrect == Spec => []TypeOK
<1> QED
  BY LinkInvariant, LinkType, PTL

(* A linked exit leads, through at most one trampoline, exactly to the
   native address of its guest PC, for every set of blocks and geometry and
   in whatever order blocks are compiled and passes run.                   *)
THEOREM ExitsFaithful == Spec => []LinksFaithful
<1> QED
  BY LinkInvariant, LinkFaithful, PTL

(* No trampoline is written into a block, present or future. *)
THEOREM TrampolinesDisjoint == Spec => []TrampolinesApart
<1> QED
  BY LinkInvariant, LinkApart, PTL

(* Flash is programmed once: no operand and no trampoline that holds an
   address is ever given another one.                                       *)
THEOREM OnceProgrammed == Spec => ProgrammedOnce
<1>1. LinkInv /\ [Next]_vars
        => [/\ \A x \in DOMAIN operand :
                 operand[x] # NoAddr => operand'[x] = operand[x]
            /\ \A t \in Slots :
                 tramp[t] # NoAddr => tramp'[t] = tramp[t]]_vars
  <2> SUFFICES ASSUME LinkInv, [Next]_vars
               PROVE  /\ \A x \in DOMAIN operand :
                           operand[x] # NoAddr => operand'[x] = operand[x]
                      /\ \A t \in Slots :
                           tramp[t] # NoAddr => tramp'[t] = tramp[t]
    OBVIOUS
  <2>1. DOMAIN operand = Site \cup Exits
    BY DEF LinkInv, TypeInv
  <2> QED
    BY <2>1, StepKeeps DEF OperandsKept, SlotsKept
<1> QED
  BY <1>1, LinkInvariant, PTL DEF Spec, ProgrammedOnce

(* No unconditional exit is linked back into its own block. *)
THEOREM LoopsDispatched == Spec => []NoSelfLoop
<1> QED
  BY LinkInvariant, LinkNoLoop, PTL
=============================================================================
