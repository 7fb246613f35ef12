---------------------------- MODULE VmuFatProofs ----------------------------
(* Proofs about VmuFat: walks along the FAT end whatever happens, the      *)
(* directory stays compact up to the removals that LeavesHole describes,   *)
(* and the chains of the FAT are what files and inodes in memory say until *)
(* something has gone wrong.                                               *)
EXTENDS VmuFat, TLAPS, FiniteSetTheorems, SequenceTheorems

-----------------------------------------------------------------------------
(* Walks.                                                                  *)

\* The FAT maps every block to a number.
FatOK == fat \in [Blocks -> Int]

FatInv == FatOK /\ WalksEnd

LEMMA Markers == UNALLOCATED \in Int \ Blocks /\ FILE_END \in Int \ Blocks /\ Blocks \subseteq Int
  BY DEF UNALLOCATED, FILE_END, Blocks

\* What is found free is a block.
LEMMA FreeIsBlock ==
  /\ \A ft : FreeFor(ft) \subseteq Blocks
  /\ \A i : NextBlock(i) \subseteq Blocks
<1>1. Forward \subseteq Blocks /\ Backward \subseteq Blocks
  BY DEF Forward, Backward, Free
<1>2. \A ft : FreeFor(ft) \subseteq Blocks
  BY <1>1 DEF FreeFor
<1>3. ASSUME NEW i PROVE NextBlock(i) \subseteq Blocks
  BY <1>1, <1>2 DEF NextBlock
<1> QED
  BY <1>2, <1>3

\* A block that is made to point nowhere closes no circle.
LEMMA CutKeepsWalks ==
  ASSUME FatInv, NEW B \in SUBSET Blocks, NEW v \in Int \ Blocks,
         fat' = [b \in Blocks |-> IF b \in B THEN v ELSE fat[b]]
  PROVE  FatInv'
<1>1. FatOK'
  BY DEF FatInv, FatOK
<1>2. ASSUME NEW S \in SUBSET Blocks, \A b \in S : fat'[b] \in S
      PROVE  S = {}
  <2>1. \A b \in S : b \notin B /\ fat'[b] = fat[b]
    BY <1>2
  <2> QED
    BY <1>2, <2>1 DEF FatInv, WalksEnd
<1> QED
  BY <1>1, <1>2 DEF FatInv, WalksEnd, Blocks

\* Nor does a block that is made to point at one that points nowhere.
LEMMA LinkKeepsWalks ==
  ASSUME FatInv, NEW fin, NEW nxt \in Blocks, fat' = Linked(fin, nxt)
  PROVE  FatInv'
<1>1. FatOK'
  BY Markers DEF FatInv, FatOK, Linked
<1>2. ASSUME NEW S \in SUBSET Blocks, \A b \in S : fat'[b] \in S
      PROVE  S = {}
  <2>1. nxt \notin S
    BY <1>2, Markers DEF FatInv, FatOK, Linked
  <2>2. fin \notin S
    BY <1>2, <2>1 DEF FatInv, FatOK, Linked
  <2>3. \A b \in S : fat'[b] = fat[b]
    BY <2>1, <2>2 DEF FatInv, FatOK, Linked
  <2> QED
    BY <1>2, <2>3 DEF FatInv, WalksEnd
<1> QED
  BY <1>1, <1>2 DEF FatInv, WalksEnd, Blocks

LEMMA FatInvInit == Init => FatInv
<1> SUFFICES ASSUME Init PROVE FatInv
  OBVIOUS
<1>1. FatOK
  BY Markers DEF Init, FatOK
<1>2. \A b \in Blocks : fat[b] \notin Blocks
  BY Markers DEF Init
<1> QED
  BY <1>1, <1>2 DEF FatInv, WalksEnd

LEMMA FatInvNext == FatInv /\ [Next]_vars => FatInv'
<1> SUFFICES ASSUME FatInv, [Next]_vars PROVE FatInv'
  OBVIOUS
<1>0. ASSUME UNCHANGED fat PROVE FatInv'
  BY <1>0 DEF FatInv, FatOK, WalksEnd, Blocks
<1>1. ASSUME NEW n \in Names, Lookup(n) PROVE FatInv'
  BY <1>0, <1>1 DEF Lookup
<1>2. ASSUME NEW n \in Names, NEW ft \in FileTypes, CreateAllocate(n, ft) PROVE FatInv'
  <2>1. PICK b \in FreeFor(ft) : fat' = [fat EXCEPT ![b] = FILE_END]
    BY <1>2 DEF CreateAllocate
  <2>2. b \in Blocks
    BY FreeIsBlock
  <2>3. fat' = [c \in Blocks |-> IF c \in {b} THEN FILE_END ELSE fat[c]]
    BY <2>1 DEF FatInv, FatOK
  <2> QED
    BY <2>2, <2>3, Markers, CutKeepsWalks
<1>3. ASSUME CreateEnter PROVE FatInv'
  BY <1>0, <1>3 DEF CreateEnter
<1>4. ASSUME CreateFull PROVE FatInv'
  <2>1. PICK c \in creating : fat' = [fat EXCEPT ![c.block] = UNALLOCATED]
    BY <1>4 DEF CreateFull
  <2>2. fat' = [b \in Blocks |-> IF b \in {c.block} \intersect Blocks THEN UNALLOCATED ELSE fat[b]]
    BY <2>1 DEF FatInv, FatOK
  <2> QED
    BY <2>2, Markers, CutKeepsWalks
<1>5. ASSUME NEW k \in DOMAIN icache, Extend(k) PROVE FatInv'
  BY <1>5, FreeIsBlock, LinkKeepsWalks DEF Extend
<1>6. ASSUME NEW n \in Names, NEW held \in BOOLEAN, Unlink(n, held) PROVE FatInv'
  <2>1. PICK k \in DOMAIN icache : fat' = CleanFat(First(icache[k]))
    BY <1>6 DEF Unlink
  <2> DEFINE C == ToSet(Chain(fat, First(icache[k])))
  <2>2. fat' = [c \in Blocks |-> IF c \in C \intersect Blocks THEN UNALLOCATED ELSE fat[c]]
    BY <2>1 DEF CleanFat
  <2> HIDE DEF C
  <2> QED
    BY <2>2, Markers, CutKeepsWalks
<1>7. ASSUME NEW k \in DOMAIN icache, Close(k) PROVE FatInv'
  BY <1>0, <1>7 DEF Close
<1>8. ASSUME NEW k \in DOMAIN icache, Evict(k) PROVE FatInv'
  BY <1>0, <1>8 DEF Evict
<1>9. CASE UNCHANGED vars
  BY <1>0, <1>9 DEF vars
<1> QED
  BY <1>1, <1>2, <1>3, <1>4, <1>5, <1>6, <1>7, <1>8, <1>9 DEF Next

\* No walk along the FAT goes round in a circle, for volumes and directories
\* of every size, also after files were written that had been unlinked.
THEOREM WalksEndHolds == Spec => []WalksEnd
<1>1. FatInv => WalksEnd
  BY DEF FatInv
<1> QED
  BY FatInvInit, FatInvNext, <1>1, PTL DEF Spec

-----------------------------------------------------------------------------
(* The directory.                                                          *)

DirOK ==
  /\ dir \in [Slots -> Records]
  /\ creating \in SUBSET [name : Names, block : Blocks, ft : FileTypes]

DirInv == DirOK /\ DirectoryCompact

\* The records are numbered without gaps.
LEMMA SlotsRange ==
  /\ Slots \subseteq Int
  /\ \A s, t \in Slots : \A c \in Int : s <= c /\ c <= t => c \in Slots
<1> DEFINE N == PerBlock * DirLen
<1>1. N \in Int
  BY VmuFatAssumption
<1>2. Slots = 0..(N - 1)
  BY DEF Slots
<1> HIDE DEF N
<1> QED
  BY <1>1, <1>2

LEMMA EmptyRecord == Empty \in Records /\ Empty.name = NoName /\ Slots \subseteq Int
  BY VmuFatAssumption DEF Empty, Records, Blocks, Slots

Cleared(s) == [dir EXCEPT ![s] = Empty]
Moved(s, t) == [Cleared(s) EXCEPT ![s] = Cleared(s)[t], ![t] = Empty]

\* Compact only clears, or clears and moves the record before the first empty
\* one after it.
LEMMA CompactIs ==
  ASSUME NEW s \in Slots
  PROVE  \/ /\ Compact(s) = Cleared(s)
            /\ \A e \in NextFree(Cleared(s), s) : Preceding(e) = {}
         \/ \E e \in NextFree(Cleared(s), s) : \E t \in Preceding(e) :
              Compact(s) = Moved(s, t)
<1> DEFINE final == UNION {Preceding(e) : e \in NextFree(Cleared(s), s)}
<1>1. CASE final = {}
  <2>1. Compact(s) = Cleared(s)
    BY <1>1 DEF Compact, Cleared
  <2>2. \A e \in NextFree(Cleared(s), s) : Preceding(e) = {}
    BY <1>1
  <2> QED
    BY <2>1, <2>2
<1>2. CASE final # {}
  <2> DEFINE t == CHOOSE u \in final : TRUE
  <2>1. t \in final
    BY <1>2
  <2>2. Compact(s) = Moved(s, t)
    BY <1>2 DEF Compact, Cleared, Moved
  <2>3. PICK e \in NextFree(Cleared(s), s) : t \in Preceding(e)
    BY <2>1
  <2> QED
    BY <2>2, <2>3
<1> QED
  BY <1>1, <1>2

LEMMA PrecedingIn == ASSUME NEW s \in Slots, NEW e \in NextFree(Cleared(s), s)
                     PROVE  Preceding(e) \subseteq Slots
<1>1. e \in Slots /\ e > s /\ e - 1 \in Slots
  BY SlotsRange DEF NextFree
<1> QED
  BY <1>1 DEF Preceding

LEMMA CompactOK ==
  ASSUME DirOK, NEW s \in Slots
  PROVE  Compact(s) \in [Slots -> Records]
<1>1. Cleared(s) \in [Slots -> Records]
  BY EmptyRecord DEF DirOK, Cleared
<1>2. ASSUME NEW t \in Slots PROVE Moved(s, t) \in [Slots -> Records]
  BY <1>1, EmptyRecord DEF Moved
<1> QED
  BY <1>1, <1>2, CompactIs, PrecedingIn

\* The removals that LeavesHole does not name keep the directory compact.
LEMMA CompactKeeps ==
  ASSUME DirOK, IsCompact(dir), NEW s \in Slots, ~IsFree(dir, s), ~LeavesHole(s)
  PROVE  IsCompact(Compact(s))
<1> DEFINE d == Cleared(s)
<1>1. /\ d \in [Slots -> Records] /\ IsFree(d, s)
      /\ \A t \in Slots \ {s} : d[t] = dir[t]
  BY EmptyRecord DEF DirOK, Cleared, IsFree
<1>2. \A t \in Slots : t < s => ~IsFree(d, t)
  BY <1>1, EmptyRecord DEF IsCompact, IsFree
<1> HIDE DEF d
<1>3. CASE NextFree(d, s) = {}
  <2>1. s + 1 \notin Slots
    BY <1>3 DEF LeavesHole, d, Cleared
  <2>2. \A t \in Slots : ~(s < t)
    BY <2>1, SlotsRange
  <2>3. Compact(s) = d
    BY <1>3, CompactIs DEF d
  <2> QED
    BY <1>1, <1>2, <2>2, <2>3, EmptyRecord DEF IsCompact
<1>4. ASSUME NEW e \in NextFree(d, s) PROVE IsCompact(Compact(s))
  <2>1. /\ e \in Slots /\ s < e /\ IsFree(d, e)
        /\ \A t \in Slots : s < t /\ t < e => ~IsFree(d, t)
    BY <1>4 DEF NextFree
  <2>2. \A t \in Slots : e <= t => IsFree(d, t)
    BY <1>1, <2>1, EmptyRecord DEF IsCompact, IsFree
  <2>3. ASSUME NEW f \in NextFree(d, s) PROVE f = e
    <3>1. /\ f \in Slots /\ s < f /\ IsFree(d, f)
          /\ \A t \in Slots : s < t /\ t < f => ~IsFree(d, t)
      BY <2>3 DEF NextFree
    <3>2. ~(f < e) /\ ~(e < f)
      BY <2>1, <3>1
    <3>3. e \in Int /\ f \in Int
      BY <2>1, <3>1, SlotsRange
    <3> QED
      BY <3>2, <3>3
  <2>4. CASE e % PerBlock # 0
    <3>1. Preceding(e) = {e - 1}
      BY <2>4 DEF Preceding
    <3>2. Compact(s) = Moved(s, e - 1)
      BY <2>3, <3>1, CompactIs DEF d
    <3>3. e - 1 \in Slots /\ s <= e - 1
      BY <2>1, SlotsRange
    <3>4. \A t \in Slots : IsFree(Compact(s), t) <=> e - 1 <= t
      <4>1. CASE s = e - 1
        BY <1>1, <1>2, <2>1, <2>2, <3>2, <3>3, <4>1, EmptyRecord DEF Moved, IsFree, d
      <4>2. CASE s < e - 1
        <5>1. ~IsFree(d, e - 1)
          BY <2>1, <3>3, <4>2, EmptyRecord
        <5>2. s # e - 1
          BY <4>2, <3>3, SlotsRange
        <5>3. /\ Moved(s, e - 1)[s] = d[e - 1] /\ Moved(s, e - 1)[e - 1] = Empty
              /\ \A t \in Slots \ {s, e - 1} : Moved(s, e - 1)[t] = d[t]
          BY <1>1, <3>3, <5>2 DEF Moved, d
        <5> QED
          BY <1>1, <1>2, <2>1, <2>2, <3>2, <3>3, <4>2, <5>1, <5>2, <5>3, EmptyRecord DEF IsFree
      <4>3. s = e - 1 \/ s < e - 1
        BY <2>1, <3>3, SlotsRange
      <4> QED
        BY <4>1, <4>2, <4>3
    <3>5. \A t, u \in Slots : t < u /\ e - 1 <= t => e - 1 <= u
      BY <2>1, SlotsRange
    <3> QED
      BY <3>4, <3>5 DEF IsCompact
  <2>5. CASE e % PerBlock = 0
    <3>1. e = s + 1
      BY <1>4, <2>5 DEF LeavesHole, d, Cleared
    <3>2. \A t \in Slots : IsFree(d, t) <=> s <= t
      BY <1>1, <1>2, <2>2, <3>1, EmptyRecord
    <3>3. ASSUME NEW t \in Preceding(e) PROVE t \in Slots /\ e <= t
      <4>1. t \in Slots /\ t = e + 2 * PerBlock - 1
        BY <2>5 DEF Preceding
      <4>2. PerBlock \in Nat /\ PerBlock > 0 /\ e \in Int
        BY VmuFatAssumption, <2>1, EmptyRecord
      <4> QED
        BY <4>1, <4>2
    <3>4. ASSUME NEW t \in Slots, e <= t
          PROVE  \A u \in Slots : IsFree(Moved(s, t), u) <=> IsFree(d, u)
      <4>1. /\ Moved(s, t)[s] = d[t] /\ Moved(s, t)[t] = Empty
            /\ \A u \in Slots \ {s, t} : Moved(s, t)[u] = d[u]
        BY <1>1, <2>1, <3>4, EmptyRecord DEF Moved, d
      <4>2. IsFree(d, t) /\ IsFree(d, s)
        BY <1>1, <2>2, <3>4
      <4> QED
        BY <4>1, <4>2, EmptyRecord DEF IsFree
    <3>5. \A u \in Slots : IsFree(Compact(s), u) <=> IsFree(d, u)
      BY <2>3, <3>3, <3>4, CompactIs DEF d
    <3> QED
      BY <3>2, <3>5, EmptyRecord DEF IsCompact
  <2> QED
    BY <2>4, <2>5
<1> QED
  BY <1>3, <1>4

LEMMA DirInvInit == Init => DirInv
<1> SUFFICES ASSUME Init PROVE DirInv
  OBVIOUS
<1>1. DirOK
  BY EmptyRecord DEF Init, DirOK
<1>2. \A s \in Slots : IsFree(dir, s)
  BY EmptyRecord DEF Init, IsFree
<1> QED
  BY <1>1, <1>2 DEF DirInv, DirectoryCompact, IsCompact

\* A step that leaves the records' names alone leaves the directory compact.
LEMMA SameNames ==
  ASSUME DirInv, DirOK', harm \subseteq harm', NEW d,
         d = dir', \A s \in Slots : IsFree(d, s) <=> IsFree(dir, s)
  PROVE  DirInv'
<1>1. Healthy' => Healthy
  BY DEF Healthy
<1>2. Healthy' => IsCompact(d)
  BY <1>1 DEF DirInv, DirectoryCompact, IsCompact
<1> QED
  BY <1>2 DEF DirInv, DirectoryCompact

LEMMA GrownRecord ==
  ASSUME NEW r \in Records
  PROVE  /\ [r EXCEPT !.size = r.size + 1] \in Records
         /\ [r EXCEPT !.size = r.size + 1].name = r.name
<1>1. /\ r = [name |-> r.name, first |-> r.first, size |-> r.size]
      /\ r.name \in Names \union {NoName} /\ r.first \in Blocks /\ r.size + 1 \in Nat
  BY DEF Records
<1>2. [r EXCEPT !.size = r.size + 1] = [name |-> r.name, first |-> r.first, size |-> r.size + 1]
  BY <1>1
<1> QED
  BY <1>1, <1>2 DEF Records

LEMMA DirInvNext == DirInv /\ [Next]_vars => DirInv'
<1> SUFFICES ASSUME DirInv, [Next]_vars PROVE DirInv'
  OBVIOUS
<1> USE DEF DirInv
<1>0. ASSUME UNCHANGED dir, harm \subseteq harm',
             creating' \in SUBSET [name : Names, block : Blocks, ft : FileTypes]
      PROVE  DirInv'
  <2>1. DirOK'
    BY <1>0 DEF DirOK, Slots, Records, Blocks, FileTypes
  <2> QED
    BY <1>0, <2>1, SameNames
<1>1. ASSUME NEW n \in Names, Lookup(n) PROVE DirInv'
  <2>1. UNCHANGED <<dir, creating>> /\ harm \subseteq harm'
    BY <1>1 DEF Lookup
  <2> QED
    BY <2>1, <1>0 DEF DirOK
<1>2. ASSUME NEW n \in Names, NEW ft \in FileTypes, CreateAllocate(n, ft) PROVE DirInv'
  <2>1. PICK b \in FreeFor(ft) : creating' = {[name |-> n, block |-> b, ft |-> ft]}
    BY <1>2 DEF CreateAllocate
  <2>2. b \in Blocks
    BY FreeIsBlock
  <2>3. UNCHANGED <<dir, harm>>
    BY <1>2 DEF CreateAllocate
  <2> QED
    BY <2>1, <2>2, <2>3, <1>0
<1>3. ASSUME CreateEnter PROVE DirInv'
  <2>1. PICK c \in creating, s \in FirstFree(dir) :
          dir' = [dir EXCEPT ![s] = [name |-> c.name, first |-> c.block, size |-> 1]]
    BY <1>3 DEF CreateEnter
  <2>2. c \in [name : Names, block : Blocks, ft : FileTypes]
    BY DEF DirOK
  <2> DEFINE r == [name |-> c.name, first |-> c.block, size |-> 1]
  <2>3. r \in Records /\ r.name # NoName
    BY <2>2, VmuFatAssumption DEF Records
  <2> HIDE DEF r
  <2>4. s \in Slots /\ \A t \in Slots : t < s => ~IsFree(dir, t)
    BY DEF FirstFree, Before
  <2>5. creating' = {} /\ UNCHANGED harm
    BY <1>3 DEF CreateEnter
  <2>6. dir' = [dir EXCEPT ![s] = r]
    BY <2>1 DEF r
  <2>7. dir' \in [Slots -> Records]
    BY <2>3, <2>4, <2>6 DEF DirOK
  <2>8. DirOK'
    BY <2>5, <2>7 DEF DirOK, Slots, Records, Blocks, FileTypes
  <2>9. \A t \in Slots : dir'[t] = IF t = s THEN r ELSE dir[t]
    BY <2>6 DEF DirOK
  <2>10. IsCompact(dir) => IsCompact(dir)'
    BY <2>3, <2>4, <2>9 DEF IsCompact, IsFree, Slots
  <2> QED
    BY <2>5, <2>8, <2>10 DEF DirectoryCompact, Healthy
<1>4. ASSUME CreateFull PROVE DirInv'
  BY <1>0, <1>4 DEF CreateFull
<1>5. ASSUME NEW k \in DOMAIN icache, Extend(k) PROVE DirInv'
  <2> DEFINE b == First(icache[k])
  <2>1. dir' = Grown(b) /\ UNCHANGED creating /\ harm \subseteq harm'
    BY <1>5 DEF Extend
  <2> HIDE DEF b
  <2>2. \A s \in Slots : \/ dir'[s] = dir[s]
                        \/ dir'[s] = [dir[s] EXCEPT !.size = dir[s].size + 1]
    BY <2>1 DEF Grown
  <2>3. ASSUME NEW s \in Slots PROVE dir'[s] \in Records /\ dir'[s].name = dir[s].name
    <3>1. dir[s] \in Records
      BY DEF DirOK
    <3>2. CASE dir'[s] = dir[s]
      BY <3>1, <3>2
    <3>3. CASE dir'[s] = [dir[s] EXCEPT !.size = dir[s].size + 1]
      <4>1. /\ [dir[s] EXCEPT !.size = dir[s].size + 1] \in Records
            /\ [dir[s] EXCEPT !.size = dir[s].size + 1].name = dir[s].name
        BY <3>1, GrownRecord
      <4> QED
        BY <3>3, <4>1, Zenon
    <3> QED
      BY <2>2, <3>2, <3>3
  <2>4. dir' = [s \in Slots |-> dir'[s]]
    BY <2>1 DEF Grown
  <2>5. dir' \in [Slots -> Records]
    BY <2>3, <2>4
  <2>6. DirOK'
    BY <2>1, <2>5 DEF DirOK, Slots, Records, Blocks, FileTypes
  <2>7. ASSUME NEW d, d = dir' PROVE \A s \in Slots : IsFree(d, s) <=> IsFree(dir, s)
    BY <2>3, <2>7 DEF IsFree
  <2> QED
    BY <2>1, <2>6, <2>7, SameNames
<1>6. ASSUME NEW n \in Names, NEW held \in BOOLEAN, Unlink(n, held) PROVE DirInv'
  <2>1. PICK k \in DOMAIN icache :
          LET b == First(icache[k])
              found == IF Ends(fat, b) THEN FoundFirst(dir, b) ELSE {}
          IN  /\ dir' = IF found = {} THEN dir ELSE Compact(CHOOSE s \in found : TRUE)
              /\ harm' = IF \E s \in found : LeavesHole(s) THEN harm \union {"hole"} ELSE harm
    BY <1>6 DEF Unlink
  <2> DEFINE b == First(icache[k])
             found == IF Ends(fat, b) THEN FoundFirst(dir, b) ELSE {}
             s == CHOOSE t \in found : TRUE
  <2>2. creating' = creating
    BY <1>6 DEF Unlink
  <2>3. harm \subseteq harm'
    BY <2>1
  <2>4. CASE found = {}
    BY <2>1, <2>2, <2>3, <2>4, <1>0 DEF DirOK
  <2>5. CASE found # {}
    <3>1. s \in found /\ dir' = Compact(s)
      BY <2>1, <2>5
    <3>2. s \in Slots /\ ~IsFree(dir, s)
      BY <3>1 DEF FoundFirst
    <3>3. Healthy' => Healthy /\ ~LeavesHole(s)
      BY <2>1, <2>3, <3>1 DEF Healthy
    <3> HIDE DEF s, found
    <3>4. dir' \in [Slots -> Records]
      BY <3>1, <3>2, CompactOK
    <3>5. DirOK'
      BY <2>2, <3>4 DEF DirOK, Slots, Records, Blocks, FileTypes
    <3>6. Healthy' => IsCompact(Compact(s))
      BY <3>2, <3>3, CompactKeeps DEF DirectoryCompact
    <3>7. Healthy' => IsCompact(dir)'
      BY <3>1, <3>6 DEF IsCompact
    <3> QED
      BY <3>5, <3>7 DEF DirectoryCompact
  <2> QED
    BY <2>4, <2>5
<1>7. ASSUME NEW k \in DOMAIN icache, Close(k) PROVE DirInv'
  BY <1>0, <1>7 DEF Close, DirOK
<1>8. ASSUME NEW k \in DOMAIN icache, Evict(k) PROVE DirInv'
  BY <1>0, <1>8 DEF Evict, DirOK
<1>9. CASE UNCHANGED vars
  BY <1>0, <1>9 DEF vars, DirOK
<1> QED
  BY <1>1, <1>2, <1>3, <1>4, <1>5, <1>6, <1>7, <1>8, <1>9 DEF Next

\* For directories of every size: as long as nothing has gone wrong the records
\* in use come first, so LeavesHole names all removals that hide other files.
THEOREM DirectoryCompactHolds == Spec => []DirectoryCompact
<1>1. DirInv => DirectoryCompact
  BY DEF DirInv
<1> QED
  BY DirInvInit, DirInvNext, <1>1, PTL DEF Spec

-----------------------------------------------------------------------------
(* Chains.                                                                 *)

\* A set of naturals has a least element, wherever an induction is needed.
LEMMA LeastElement ==
  ASSUME NEW T \in SUBSET Nat, T # {}
  PROVE  \E m \in T : \A k \in T : m <= k
<1>1. PICK m \in T : \A k \in T : ~(<<k, m>> \in OpToRel(<, Nat))
  BY NatLessThanWellFounded, WFMin
<1>2. \A k \in T : ~(k < m)
  BY <1>1 DEF OpToRel
<1>3. \A k \in T : k \in Int
  OBVIOUS
<1> QED
  BY <1>2, <1>3

\* A FAT without circles, as WalksEnd says of the FAT.
FatType == [Blocks -> Int]
NoCircle(f) == \A S \in SUBSET Blocks : (\A b \in S : f[b] \in S) => S = {}

LEMMA FatIsSound == FatInv => fat \in FatType /\ NoCircle(fat)
  BY DEF FatInv, FatOK, WalksEnd, FatType, NoCircle

\* The walk from b: from every block to the one its entry names, to the end.
IsChain(f, b, c) ==
  /\ c \in Seq(Blocks) /\ Len(c) >= 1
  /\ c[1] = b
  /\ \A i \in 1..(Len(c) - 1) : f[c[i]] = c[i + 1]
  /\ f[c[Len(c)]] \notin Blocks

LEMMA SystemNat == System \in Nat /\ Blocks = 0..System
  BY VmuFatAssumption DEF System, Blocks

\* Where there are no circles every walk has an end.
LEMMA ChainExists ==
  ASSUME NEW f \in FatType, NoCircle(f), NEW b \in Blocks
  PROVE  \E c : IsChain(f, b, c)
<1> DEFINE S == {x \in Blocks : ~\E c : IsChain(f, x, c)}
<1>1. ASSUME NEW x \in S PROVE f[x] \in S
  <2>1. x \in Blocks
    OBVIOUS
  <2>2. f[x] \in Blocks
    <3> SUFFICES ASSUME f[x] \notin Blocks PROVE FALSE
      OBVIOUS
    <3>1. IsChain(f, x, <<x>>)
      BY <2>1 DEF IsChain
    <3> QED
      BY <3>1
  <2>3. ASSUME NEW c, IsChain(f, f[x], c) PROVE FALSE
    <3> DEFINE d == <<x>> \o c
    <3>1. /\ c \in Seq(Blocks) /\ Len(c) \in Nat /\ Len(c) >= 1 /\ c[1] = f[x]
          /\ \A i \in 1..(Len(c) - 1) : f[c[i]] = c[i + 1]
          /\ f[c[Len(c)]] \notin Blocks
      BY <2>3 DEF IsChain
    <3>2. /\ d \in Seq(Blocks) /\ Len(d) = Len(c) + 1 /\ d[1] = x
          /\ \A i \in 1..Len(c) : d[i + 1] = c[i]
      BY <3>1, <2>1
    <3> HIDE DEF d
    <3>3. \A i \in 1..(Len(d) - 1) : f[d[i]] = d[i + 1]
      <4> TAKE i \in 1..(Len(d) - 1)
      <4>1. CASE i = 1
        BY <4>1, <3>1, <3>2
      <4>2. CASE i # 1
        <5>1. i - 1 \in 1..(Len(c) - 1) /\ i \in 1..Len(c) /\ i - 1 \in 1..Len(c)
          BY <4>2, <3>1, <3>2
        <5>2. d[(i - 1) + 1] = c[i - 1] /\ d[i + 1] = c[i] /\ f[c[i - 1]] = c[(i - 1) + 1]
          BY <5>1, <3>1, <3>2
        <5>3. (i - 1) + 1 = i
          OBVIOUS
        <5> QED
          BY <5>2, <5>3
      <4> QED
        BY <4>1, <4>2
    <3>4. d[Len(d)] = c[Len(c)]
      BY <3>1, <3>2
    <3>5. IsChain(f, x, d)
      BY <3>1, <3>2, <3>3, <3>4 DEF IsChain
    <3> QED
      BY <3>5
  <2> QED
    BY <2>2, <2>3
<1> HIDE DEF S
<1>2. S = {}
  <2>1. S \in SUBSET Blocks
    BY DEF S
  <2> QED
    BY <1>1, <2>1 DEF NoCircle
<1> QED
  BY <1>2 DEF S

\* Two walks from one block are the same.
LEMMA ChainUnique ==
  ASSUME NEW f, NEW b, NEW c, NEW d, IsChain(f, b, c), IsChain(f, b, d)
  PROVE  c = d
<1>1. ASSUME NEW u, NEW v, IsChain(f, b, u), IsChain(f, b, v)
      PROVE  Len(u) <= Len(v) /\ \A i \in 1..Len(u) : u[i] = v[i]
  <2> DEFINE T == {i \in Nat : i \in 1..Len(u) /\ ~(i <= Len(v) /\ u[i] = v[i])}
  <2>1. /\ u \in Seq(Blocks) /\ Len(u) \in Nat /\ v \in Seq(Blocks) /\ Len(v) \in Nat
        /\ Len(u) >= 1 /\ Len(v) >= 1 /\ u[1] = b /\ v[1] = b
        /\ \A i \in 1..(Len(u) - 1) : f[u[i]] = u[i + 1]
        /\ \A i \in 1..(Len(v) - 1) : f[v[i]] = v[i + 1]
        /\ f[v[Len(v)]] \notin Blocks
    BY <1>1 DEF IsChain
  <2>2. ASSUME T # {} PROVE FALSE
    <3>1. PICK i \in T : \A k \in T : i <= k
      BY <2>2, LeastElement
    <3>2. i \in 1..Len(u) /\ ~(i <= Len(v) /\ u[i] = v[i])
      OBVIOUS
    <3>3. i # 1
      BY <3>2, <2>1
    <3>4. i - 1 \in Nat /\ i - 1 \in 1..Len(u) /\ ~(i <= i - 1)
      BY <3>2, <3>3, <2>1
    <3>5. i - 1 \notin T
      BY <3>1, <3>4
    <3>6. i - 1 <= Len(v) /\ u[i - 1] = v[i - 1]
      BY <3>4, <3>5
    <3>7. (i - 1) + 1 = i /\ i - 1 \in 1..(Len(u) - 1)
      BY <3>2, <3>3, <2>1
    <3>8. f[u[i - 1]] = u[i] /\ u[i] \in Blocks
      BY <3>2, <3>7, <2>1
    <3>9. i - 1 # Len(v)
      BY <3>6, <3>8, <2>1
    <3>10. i - 1 \in 1..(Len(v) - 1)
      BY <3>4, <3>6, <3>9, <2>1
    <3>11. f[v[i - 1]] = v[i]
      BY <3>7, <3>10, <2>1
    <3> QED
      BY <3>2, <3>6, <3>8, <3>10, <3>11, <2>1
  <2>3. \A i \in 1..Len(u) : i <= Len(v) /\ u[i] = v[i]
    <3>1. \A i \in 1..Len(u) : i \in Nat
      BY <2>1
    <3> QED
      BY <2>2, <3>1
  <2>4. Len(u) \in 1..Len(u)
    BY <2>1
  <2> QED
    BY <2>3, <2>4
<1>2. Len(c) <= Len(d) /\ Len(d) <= Len(c) /\ \A i \in 1..Len(c) : c[i] = d[i]
  BY <1>1
<1>3. c \in Seq(Blocks) /\ d \in Seq(Blocks) /\ Len(c) \in Nat /\ Len(d) \in Nat
  BY DEF IsChain
<1> QED
  BY <1>2, <1>3, SeqEqual

\* A walk meets no block twice, and so no more than there are.
LEMMA ChainOnce ==
  ASSUME NEW f, NoCircle(f), NEW b, NEW c, IsChain(f, b, c)
  PROVE  /\ \A i, j \in 1..Len(c) : c[i] = c[j] => i = j
         /\ Len(c) <= System + 1
<1>1. /\ c \in Seq(Blocks) /\ Len(c) \in Nat /\ Len(c) >= 1
      /\ \A i \in 1..(Len(c) - 1) : f[c[i]] = c[i + 1]
      /\ f[c[Len(c)]] \notin Blocks
      /\ c \in [1..Len(c) -> Blocks]
  BY DEF IsChain
<1>2. ASSUME NEW i \in 1..Len(c), NEW j \in 1..Len(c), i < j, c[i] = c[j] PROVE FALSE
  <2> DEFINE S == {c[k] : k \in i..(j - 1)}
  <2>1. ASSUME NEW k \in i..(j - 1) PROVE f[c[k]] \in S
    <3>1. k \in 1..(Len(c) - 1) /\ f[c[k]] = c[k + 1]
      BY <1>1, <1>2
    <3>2. CASE k + 1 = j
      <4>1. i \in i..(j - 1)
        BY <1>1, <1>2
      <4> QED
        BY <3>1, <3>2, <1>2, <4>1
    <3>3. CASE k + 1 # j
      <4>1. k + 1 \in i..(j - 1)
        BY <1>1, <1>2, <3>3
      <4> QED
        BY <3>1, <4>1
    <3> QED
      BY <3>2, <3>3
  <2>2. S \in SUBSET Blocks
    <3>1. \A k \in i..(j - 1) : k \in 1..Len(c)
      BY <1>1, <1>2
    <3> QED
      BY <3>1, <1>1
  <2>3. i \in i..(j - 1)
    BY <1>1, <1>2
  <2>4. c[i] \in S
    BY <2>3
  <2> HIDE DEF S
  <2>5. \A x \in S : f[x] \in S
    BY <2>1 DEF S
  <2> QED
    BY <2>2, <2>4, <2>5 DEF NoCircle
<1>3. \A i, j \in 1..Len(c) : c[i] = c[j] => i = j
  BY <1>1, <1>2
<1>4. Len(c) <= System + 1
  <2> SUFFICES ASSUME Len(c) > System + 1 PROVE FALSE
    BY <1>1, SystemNat
  <2>1. /\ IsFiniteSet(Blocks) /\ Cardinality(Blocks) = System + 1
        /\ IsFiniteSet(1..Len(c)) /\ Cardinality(1..Len(c)) = Len(c)
    <3>1. 0 \in Int /\ 1 \in Int /\ System \in Int /\ Len(c) \in Int
      BY <1>1, SystemNat
    <3>2. IsFiniteSet(0..System) /\ Cardinality(0..System) = IF 0 > System THEN 0 ELSE System - 0 + 1
      BY <3>1, FS_Interval, Zenon
    <3>3. IsFiniteSet(1..Len(c)) /\ Cardinality(1..Len(c)) = IF 1 > Len(c) THEN 0 ELSE Len(c) - 1 + 1
      BY <3>1, FS_Interval, Zenon
    <3>4. ~(0 > System) /\ System - 0 + 1 = System + 1 /\ ~(1 > Len(c)) /\ Len(c) - 1 + 1 = Len(c)
      BY <1>1, SystemNat
    <3>5. Blocks = 0..System
      BY SystemNat
    <3> QED
      BY <3>2, <3>3, <3>4, <3>5, Zenon
  <2>2. \E i, j \in 1..Len(c) : i # j /\ c[i] = c[j]
    <3>1. Cardinality(Blocks) < Cardinality(1..Len(c))
      BY <1>1, <2>1, SystemNat
    <3>2. \A g \in [1..Len(c) -> Blocks] : \E i, j \in 1..Len(c) : i # j /\ g[i] = g[j]
      BY <2>1, <3>1, FS_PigeonHole, Zenon
    <3> QED
      BY <1>1, <3>2
  <2> QED
    BY <2>2, <1>3
<1> QED
  BY <1>3, <1>4

Upto(k, n) == IF k + 1 <= n THEN k + 1 ELSE n
WalkStep(f, b, w) ==
  [k \in 0..System |->
     IF k = 0 THEN <<b>>
     ELSE IF f[Last(w[k - 1])] \in Blocks THEN Append(w[k - 1], f[Last(w[k - 1])])
                                         ELSE w[k - 1]]

\* Chain follows the walk to its end.
LEMMA ChainIsWalk ==
  ASSUME NEW f, NoCircle(f), NEW b, NEW c, IsChain(f, b, c)
  PROVE  Chain(f, b) = c
<1> DEFINE v == [k \in 0..System |-> SubSeq(c, 1, Upto(k, Len(c)))]
           w == CHOOSE w : w = WalkStep(f, b, w)
<1>1. /\ c \in Seq(Blocks) /\ Len(c) \in Nat /\ Len(c) >= 1 /\ c[1] = b
      /\ \A i \in 1..(Len(c) - 1) : f[c[i]] = c[i + 1]
      /\ f[c[Len(c)]] \notin Blocks
      /\ \A i \in 1..Len(c) : c[i] \in Blocks
  BY DEF IsChain
<1>2. Len(c) <= System + 1
  BY ChainOnce
<1>3. ASSUME NEW n \in 1..Len(c)
      PROVE  /\ SubSeq(c, 1, n) \in Seq(Blocks) /\ Len(SubSeq(c, 1, n)) = n
             /\ \A i \in 1..n : SubSeq(c, 1, n)[i] = c[i]
             /\ Last(SubSeq(c, 1, n)) = c[n]
  <2>1. \A i \in 1..n : c[i] \in Blocks
    BY <1>1
  <2>2. /\ SubSeq(c, 1, n) \in Seq(Blocks) /\ Len(SubSeq(c, 1, n)) = n
        /\ \A i \in 1..n : SubSeq(c, 1, n)[i] = c[i]
    BY <1>1, <2>1, SubSeqProperties
  <2> QED
    BY <2>2 DEF Last
\* One round of the walk.
<1>4. ASSUME NEW n \in 1..Len(c), NEW p, p = SubSeq(c, 1, n)
      PROVE  (IF f[Last(p)] \in Blocks THEN Append(p, f[Last(p)]) ELSE p)
               = SubSeq(c, 1, Upto(n, Len(c)))
  <2>1. p \in Seq(Blocks) /\ Len(p) = n /\ Last(p) = c[n] /\ \A i \in 1..n : p[i] = c[i]
    BY <1>3, <1>4
  <2>2. CASE n = Len(c)
    BY <1>1, <1>4, <2>1, <2>2 DEF Upto
  <2>3. CASE n # Len(c)
    <3>1. n + 1 \in 1..Len(c) /\ Upto(n, Len(c)) = n + 1 /\ n \in 1..(Len(c) - 1)
      BY <1>1, <2>3 DEF Upto
    <3>2. f[Last(p)] = c[n + 1] /\ c[n + 1] \in Blocks
      BY <1>1, <2>1, <3>1
    <3> DEFINE q == SubSeq(c, 1, n + 1)
               r == Append(p, c[n + 1])
    <3>3. q \in Seq(Blocks) /\ Len(q) = n + 1 /\ \A i \in 1..(n + 1) : q[i] = c[i]
      BY <1>3, <3>1
    <3>4. /\ r \in Seq(Blocks) /\ Len(r) = n + 1 /\ r[n + 1] = c[n + 1]
          /\ \A i \in 1..n : r[i] = p[i]
      BY <2>1, <3>2
    <3>5. \A i \in 1..(n + 1) : r[i] = q[i]
      <4> HIDE DEF q, r
      <4> QED BY <3>3, <3>4, <2>1
    <3>6. r = q
      <4> HIDE DEF q, r
      <4> QED BY <3>3, <3>4, <3>5, SeqEqual
    <3> QED
      BY <3>1, <3>2, <3>6
  <2> QED
    BY <2>2, <2>3
<1>5. v = WalkStep(f, b, v)
  <2> SUFFICES ASSUME NEW k \in 0..System PROVE v[k] = WalkStep(f, b, v)[k]
    BY DEF WalkStep
  <2>1. CASE k = 0
    <3>1. v[0] = SubSeq(c, 1, 1)
      BY <1>1, <2>1 DEF Upto
    <3>2. SubSeq(c, 1, 1) = <<b>>
      <4> DEFINE q == SubSeq(c, 1, 1)
      <4>1. 1 \in 1..Len(c)
        BY <1>1
      <4>2. q \in Seq(Blocks) /\ Len(q) = 1 /\ q[1] = c[1]
        BY <1>3, <4>1
      <4>3. b \in Blocks
        BY <1>1, <4>1
      <4>4. <<b>> \in Seq(Blocks) /\ Len(<<b>>) = 1 /\ <<b>>[1] = b
        BY <4>3
      <4> HIDE DEF q
      <4>5. q = <<b>>
        BY <1>1, <4>2, <4>4, SeqEqual
      <4> QED
        BY <4>5 DEF q
    <3> QED
      BY <2>1, <3>1, <3>2 DEF WalkStep
  <2>2. CASE k # 0
    <3> DEFINE n == Upto(k - 1, Len(c))
    <3>1. k - 1 \in 0..System /\ n \in 1..Len(c) /\ Upto(n, Len(c)) = Upto(k, Len(c))
      BY <1>1, <2>2, SystemNat DEF Upto
    <3>2. v[k - 1] = SubSeq(c, 1, n) /\ v[k] = SubSeq(c, 1, Upto(n, Len(c)))
      BY <3>1
    <3> HIDE DEF n, v
    <3> QED
      BY <1>4, <2>2, <3>1, <3>2 DEF WalkStep
  <2> QED
    BY <2>1, <2>2
<1>6. w = WalkStep(f, b, w) /\ Chain(f, b) = w[System]
  <2>1. w = WalkStep(f, b, w)
    BY <1>5
  <2> QED
    BY <2>1 DEF Chain, WalkStep
<1> HIDE DEF w
<1>7. \A k \in 0..System : w[k] = v[k]
  <2> DEFINE T == {k \in 0..System : w[k] # v[k]}
  <2>1. ASSUME T # {} PROVE FALSE
    <3>0. T \in SUBSET Nat
      BY SystemNat
    <3>1. PICK k \in T : \A j \in T : k <= j
      <4> HIDE DEF T
      <4> QED BY <2>1, <3>0, LeastElement
    <3>2. k \in 0..System /\ w[k] # v[k]
      OBVIOUS
    <3> HIDE DEF v
    <3>3. k # 0
      <4>1. w[0] = WalkStep(f, b, w)[0] /\ v[0] = WalkStep(f, b, v)[0] /\ 0 \in 0..System
        BY <1>5, <1>6, SystemNat
      <4>2. w[0] = v[0]
        BY <4>1 DEF WalkStep
      <4> QED
        BY <3>2, <4>2
    <3>4. k - 1 \in 0..System /\ ~(k <= k - 1)
      BY <3>2, <3>3, SystemNat
    <3>5. w[k - 1] = v[k - 1]
      BY <3>1, <3>4
    <3>6. w[k] = WalkStep(f, b, w)[k] /\ v[k] = WalkStep(f, b, v)[k]
      BY <1>5, <1>6
    <3>7. WalkStep(f, b, w)[k] = WalkStep(f, b, v)[k]
      BY <3>2, <3>3, <3>5 DEF WalkStep
    <3> QED
      BY <3>2, <3>6, <3>7
  <2> QED
    BY <2>1
<1>8. System \in 0..System /\ v[System] = SubSeq(c, 1, Len(c))
  BY <1>1, <1>2, SystemNat DEF Upto
<1> QED
  BY <1>1, <1>6, <1>7, <1>8, SubSeqFull

\* What Chain is, in one lemma.
LEMMA ChainIs ==
  ASSUME NEW f \in FatType, NoCircle(f), NEW b \in Blocks
  PROVE  /\ IsChain(f, b, Chain(f, b))
         /\ \A c : IsChain(f, b, c) => c = Chain(f, b)
<1>1. PICK c : IsChain(f, b, c)
  BY ChainExists
<1>2. Chain(f, b) = c
  BY <1>1, ChainIsWalk
<1> QED
  BY <1>1, <1>2, ChainIsWalk

\* A FAT without circles.
Sound(f) == f \in FatType /\ NoCircle(f)

\* What is written to a FAT: an entry, and the two of Linked.
Put(f, b, v) == [f EXCEPT ![b] = v]
Joined(f, fin, nxt) == [[f EXCEPT ![fin] = nxt] EXCEPT ![nxt] = FILE_END]

\* The blocks of a chain.
LEMMA ChainParts ==
  ASSUME NEW f, Sound(f), NEW b \in Blocks
  PROVE  /\ Chain(f, b) \in Seq(Blocks) /\ Len(Chain(f, b)) \in Nat /\ Len(Chain(f, b)) >= 1
         /\ ToSet(Chain(f, b)) \subseteq Blocks
         /\ b \in ToSet(Chain(f, b)) /\ Last(Chain(f, b)) \in ToSet(Chain(f, b))
         /\ \A x \in ToSet(Chain(f, b)) :
              x = Last(Chain(f, b)) \/ f[x] \in ToSet(Chain(f, b))
<1> DEFINE c == Chain(f, b)
<1>1. IsChain(f, b, c)
  BY ChainIs DEF Sound
<1> HIDE DEF c
<1>2. /\ c \in Seq(Blocks) /\ Len(c) \in Nat /\ Len(c) >= 1 /\ c[1] = b
      /\ \A i \in 1..(Len(c) - 1) : f[c[i]] = c[i + 1]
  BY <1>1 DEF IsChain
<1>3. ToSet(c) = {c[i] : i \in 1..Len(c)}
  BY <1>2 DEF ToSet
<1>4. \A i \in 1..Len(c) : c[i] \in ToSet(c) /\ c[i] \in Blocks
  BY <1>2, <1>3
<1>5. Last(c) = c[Len(c)] /\ 1 \in 1..Len(c) /\ Len(c) \in 1..Len(c)
  BY <1>2 DEF Last
<1>6. ASSUME NEW x \in ToSet(c) PROVE x = Last(c) \/ f[x] \in ToSet(c)
  <2>1. PICK i \in 1..Len(c) : x = c[i]
    BY <1>3
  <2>2. CASE i = Len(c)
    BY <1>5, <2>1, <2>2
  <2>3. CASE i # Len(c)
    <3>1. i \in 1..(Len(c) - 1) /\ i + 1 \in 1..Len(c)
      BY <1>2, <2>3
    <3> QED
      BY <1>2, <1>4, <2>1, <3>1
  <2> QED
    BY <2>2, <2>3
<1>7. ToSet(c) \subseteq Blocks
  BY <1>3, <1>4
<1> QED
  BY <1>2, <1>4, <1>5, <1>6, <1>7 DEF c

\* No block of a chain that runs to its end mark is free.
LEMMA ChainTaken ==
  ASSUME NEW f, Sound(f), NEW b \in Blocks, Ends(f, b), NEW x \in ToSet(Chain(f, b))
  PROVE  f[x] # UNALLOCATED
<1>1. x = Last(Chain(f, b)) \/ f[x] \in Blocks
  BY ChainParts
<1>2. f[Last(Chain(f, b))] = FILE_END
  BY DEF Ends
<1> QED
  BY <1>1, <1>2, Markers DEF UNALLOCATED, FILE_END

\* Where two FATs agree on the blocks of a chain it is the same in both.
LEMMA ChainAgrees ==
  ASSUME NEW f, Sound(f), NEW g, Sound(g), NEW b \in Blocks,
         \A x \in ToSet(Chain(f, b)) : g[x] = f[x]
  PROVE  Chain(g, b) = Chain(f, b) /\ (Ends(g, b) <=> Ends(f, b))
<1> DEFINE c == Chain(f, b)
<1>1. IsChain(f, b, c)
  BY ChainIs DEF Sound
<1>2. \A x \in ToSet(c) : g[x] = f[x]
  OBVIOUS
<1>3. Last(c) \in ToSet(c)
  BY ChainParts
<1> HIDE DEF c
<1>4. c \in Seq(Blocks) /\ Len(c) \in Nat /\ Len(c) >= 1
  BY <1>1 DEF IsChain
<1>5. \A i \in 1..Len(c) : c[i] \in ToSet(c)
  BY <1>4 DEF ToSet
<1>6. Len(c) \in 1..Len(c) /\ \A i \in 1..(Len(c) - 1) : i \in 1..Len(c)
  BY <1>4
<1>7. IsChain(g, b, c)
  BY <1>1, <1>2, <1>5, <1>6 DEF IsChain
<1>8. Chain(g, b) = c
  BY <1>7, ChainIs DEF Sound
<1> QED
  BY <1>2, <1>3, <1>8 DEF Ends, c

\* A block that points nowhere is a chain.
LEMMA ChainSingle ==
  ASSUME NEW f, Sound(f), NEW b \in Blocks, f[b] \notin Blocks
  PROVE  Chain(f, b) = <<b>>
<1>1. <<b>> \in Seq(Blocks) /\ Len(<<b>>) = 1 /\ <<b>>[1] = b
  OBVIOUS
<1>2. IsChain(f, b, <<b>>)
  BY <1>1 DEF IsChain
<1> QED
  BY <1>2, ChainIs DEF Sound

\* A block linked to the last of a chain is added to it.
LEMMA ChainGrows ==
  ASSUME NEW f, Sound(f), NEW g, Sound(g), NEW b \in Blocks,
         NEW nxt \in Blocks \ ToSet(Chain(f, b)),
         g = Joined(f, Last(Chain(f, b)), nxt)
  PROVE  Chain(g, b) = Append(Chain(f, b), nxt) /\ Ends(g, b)
<1> DEFINE c == Chain(f, b)
           d == Append(c, nxt)
<1>1. IsChain(f, b, c)
  BY ChainIs DEF Sound
<1>2. \A i, j \in 1..Len(c) : c[i] = c[j] => i = j
  BY <1>1, ChainOnce DEF Sound
<1>3. Last(c) \in ToSet(c) /\ ToSet(c) \subseteq Blocks
  BY ChainParts
<1>4. nxt \in Blocks /\ nxt \notin ToSet(c) /\ f \in [Blocks -> Int]
  BY DEF Sound, FatType
<1>5. /\ g[Last(c)] = nxt /\ g[nxt] = FILE_END
      /\ \A x \in Blocks : x # Last(c) /\ x # nxt => g[x] = f[x]
  <2>1. g = [[f EXCEPT ![Last(c)] = nxt] EXCEPT ![nxt] = FILE_END]
    BY DEF Joined
  <2> HIDE DEF c
  <2> QED
    BY <1>3, <1>4, <2>1
<1> HIDE DEF c, d
<1>6. /\ c \in Seq(Blocks) /\ Len(c) \in Nat /\ Len(c) >= 1 /\ c[1] = b
      /\ \A i \in 1..(Len(c) - 1) : f[c[i]] = c[i + 1]
  BY <1>1 DEF IsChain
<1>7. \A i \in 1..Len(c) : c[i] \in ToSet(c)
  BY <1>6 DEF ToSet
<1>8. /\ d \in Seq(Blocks) /\ Len(d) = Len(c) + 1 /\ d[Len(c) + 1] = nxt
      /\ \A i \in 1..Len(c) : d[i] = c[i]
  BY <1>4, <1>6 DEF d
<1>9. Last(c) = c[Len(c)] /\ Last(d) = nxt
  BY <1>6, <1>8 DEF Last
<1>10. ASSUME NEW i \in 1..(Len(d) - 1) PROVE g[d[i]] = d[i + 1]
  <2>1. i \in 1..Len(c) /\ d[i] = c[i]
    BY <1>6, <1>8
  <2>2. CASE i = Len(c)
    BY <1>5, <1>8, <1>9, <2>1, <2>2
  <2>3. CASE i # Len(c)
    <3>1. i \in 1..(Len(c) - 1) /\ i + 1 \in 1..Len(c) /\ Len(c) \in 1..Len(c)
      BY <1>6, <2>1, <2>3
    <3>2. c[i] # Last(c) /\ c[i] # nxt /\ c[i] \in Blocks
      BY <1>2, <1>3, <1>4, <1>7, <1>9, <2>1, <2>3, <3>1
    <3> QED
      BY <1>5, <1>6, <1>8, <2>1, <3>1, <3>2
  <2> QED
    BY <2>2, <2>3
<1>11. IsChain(g, b, d)
  <2>1. d[1] = b /\ Len(d) >= 1 /\ d[Len(d)] = nxt
    BY <1>6, <1>8
  <2> QED
    BY <1>5, <1>8, <1>10, <2>1, Markers DEF IsChain
<1>12. Chain(g, b) = d
  BY <1>11, ChainIs DEF Sound
<1> QED
  BY <1>5, <1>9, <1>12 DEF Ends, c, d

-----------------------------------------------------------------------------
(* The volume: a FAT that holds the files of a set of records, and blocks  *)
(* that belong to a creation, and nothing else.                            *)

BlocksAt(f, r) == ToSet(Chain(f, r.first))

Whole(f, r) ==
  /\ Ends(f, r.first) /\ r.size = Len(Chain(f, r.first))
  /\ System \notin BlocksAt(f, r)

Volume(f, R, H) ==
  /\ f[System] = FILE_END
  /\ \A r \in R : Whole(f, r)
  /\ \A r, q \in R : r # q => BlocksAt(f, r) \intersect BlocksAt(f, q) = {}
  /\ \A h \in H : /\ f[h] = FILE_END /\ h # System
                  /\ \A r \in R : h \notin BlocksAt(f, r)
  /\ \A b \in Blocks :
       f[b] # UNALLOCATED => b = System \/ b \in H \/ \E r \in R : b \in BlocksAt(f, r)

SameChains(f, g, R) == \A r \in R : Chain(g, r.first) = Chain(f, r.first)
Kept(f, g, R) ==
  \A r \in R : Whole(f, r) /\ \A x \in BlocksAt(f, r) : g[x] = f[x]
SameFiles(f, g, R) ==
  /\ SameChains(f, g, R)
  /\ \A r \in R : Whole(g, r) /\ BlocksAt(g, r) = BlocksAt(f, r)

\* Files whose blocks keep their entries stay whole.
LEMMA VolumeAgrees ==
  ASSUME NEW f, Sound(f), NEW g, Sound(g), NEW R \in SUBSET Records,
         Kept(f, g, R)
  PROVE  SameFiles(f, g, R)
<1>1. ASSUME NEW r \in R
      PROVE  Chain(g, r.first) = Chain(f, r.first) /\ (Ends(g, r.first) <=> Ends(f, r.first))
  <2>1. r.first \in Blocks
    BY DEF Records
  <2>2. \A x \in ToSet(Chain(f, r.first)) : g[x] = f[x]
    BY DEF Kept, BlocksAt
  <2> QED
    BY <2>1, <2>2, ChainAgrees
<1> QED
  BY <1>1 DEF SameFiles, Kept, SameChains, Whole, BlocksAt

\* No file has a free block.
LEMMA VolumeTaken ==
  ASSUME NEW f, Sound(f), NEW R \in SUBSET Records, NEW H, Volume(f, R, H),
         NEW r \in R
  PROVE  r.first \in Blocks /\ \A x \in BlocksAt(f, r) : x \in Blocks /\ f[x] # UNALLOCATED
<1>1. r.first \in Blocks /\ Ends(f, r.first)
  BY DEF Records, Volume, Whole
<1> QED
  BY <1>1, ChainTaken, ChainParts DEF BlocksAt

\* A creation takes a free block.
LEMMA VolumeTake ==
  ASSUME NEW f, Sound(f), NEW g, Sound(g), NEW R \in SUBSET Records,
         Volume(f, R, {}), NEW b \in Blocks, f[b] = UNALLOCATED,
         g = Put(f, b, FILE_END)
  PROVE  Volume(g, R, {b}) /\ SameChains(f, g, R)
<1>1. /\ g[b] = FILE_END
      /\ \A x \in Blocks \ {b} : g[x] = f[x]
  BY DEF Sound, FatType, Put
<1>2. b # System /\ System \in Blocks
  BY SystemNat DEF Volume, UNALLOCATED, FILE_END
<1>3. \A r \in R : b \notin BlocksAt(f, r) /\ BlocksAt(f, r) \subseteq Blocks
  BY VolumeTaken
<1>4. SameFiles(f, g, R)
  <2>1. \A r \in R : Whole(f, r)
    BY DEF Volume
  <2>2. \A r \in R : \A x \in BlocksAt(f, r) : g[x] = f[x]
    BY <1>1, <1>3
  <2>3. Kept(f, g, R)
    BY <2>1, <2>2 DEF Kept
  <2> QED
    BY <2>3, VolumeAgrees
<1>5. \A x \in Blocks : g[x] # UNALLOCATED => x = b \/ f[x] # UNALLOCATED
  BY <1>1
<1> QED
  BY <1>1, <1>2, <1>3, <1>4, <1>5 DEF Volume, SameFiles

\* A creation that found the directory full gives it back.
LEMMA VolumeRelease ==
  ASSUME NEW f, Sound(f), NEW g, Sound(g), NEW R \in SUBSET Records,
         NEW b \in Blocks, Volume(f, R, {b}), g = Put(f, b, UNALLOCATED)
  PROVE  Volume(g, R, {}) /\ SameChains(f, g, R)
<1>1. /\ g[b] = UNALLOCATED
      /\ \A x \in Blocks \ {b} : g[x] = f[x]
  BY DEF Sound, FatType, Put
<1>2. b # System /\ System \in Blocks
  BY SystemNat DEF Volume
<1>3. \A r \in R : b \notin BlocksAt(f, r) /\ BlocksAt(f, r) \subseteq Blocks
  <2>1. \A r \in R : BlocksAt(f, r) \subseteq Blocks
    BY VolumeTaken
  <2> QED
    BY <2>1 DEF Volume
<1>4. SameFiles(f, g, R)
  <2>1. \A r \in R : Whole(f, r)
    BY DEF Volume
  <2>2. \A r \in R : \A x \in BlocksAt(f, r) : g[x] = f[x]
    BY <1>1, <1>3
  <2>3. Kept(f, g, R)
    BY <2>1, <2>2 DEF Kept
  <2> QED
    BY <2>3, VolumeAgrees
<1>5. \A x \in Blocks : g[x] # UNALLOCATED => x # b /\ f[x] # UNALLOCATED
  BY <1>1
<1> QED
  BY <1>1, <1>2, <1>4, <1>5 DEF Volume, SameFiles

\* A creation that found a record for its block makes it a file.
LEMMA VolumeEnter ==
  ASSUME NEW f, Sound(f), NEW R \in SUBSET Records, NEW b \in Blocks,
         Volume(f, R, {b}), NEW r \in Records, r.first = b, r.size = 1
  PROVE  Volume(f, R \union {r}, {}) /\ Chain(f, b) = <<b>> /\ Ends(f, b)
<1>1. f[b] = FILE_END /\ b # System
  BY DEF Volume
<1>2. Chain(f, b) = <<b>>
  BY <1>1, ChainSingle, Markers
<1>3. Last(<<b>>) = b /\ Len(<<b>>) = 1 /\ ToSet(<<b>>) = {b}
  BY DEF Last, ToSet
<1>4. Ends(f, b) /\ BlocksAt(f, r) = {b} /\ Whole(f, r)
  BY <1>1, <1>2, <1>3 DEF Ends, BlocksAt, Whole
<1> QED
  BY <1>1, <1>2, <1>4 DEF Volume

\* A file is given a free block.
LEMMA VolumeGrow ==
  ASSUME NEW f, Sound(f), NEW g, Sound(g), NEW R \in SUBSET Records, NEW H \in SUBSET Blocks,
         Volume(f, R, H), NEW r \in R, NEW nxt \in Blocks, f[nxt] = UNALLOCATED,
         g = Joined(f, Last(Chain(f, r.first)), nxt),
         NEW p \in Records, p.first = r.first, p.size = r.size + 1
  PROVE  Volume(g, (R \ {r}) \union {p}, H) /\ SameChains(f, g, R \ {r}) /\ Ends(g, r.first)
<1> DEFINE c == Chain(f, r.first)
           fin == Last(c)
<1>1. nxt \notin ToSet(c) /\ r.first \in Blocks /\ ToSet(c) \subseteq Blocks
  BY VolumeTaken DEF BlocksAt
<1>2. Chain(g, r.first) = Append(c, nxt) /\ Ends(g, r.first)
  <2>1. nxt \in Blocks \ ToSet(Chain(f, r.first))
    BY <1>1
  <2> HIDE DEF c, fin
  <2>2. Chain(g, r.first) = Append(Chain(f, r.first), nxt) /\ Ends(g, r.first)
    BY <1>1, <2>1, ChainGrows
  <2> QED
    BY <2>2 DEF c
<1>3. c \in Seq(Blocks) /\ fin \in ToSet(c)
  BY <1>1, ChainParts
<1>4. f[fin] = FILE_END /\ r.size = Len(c) /\ System \notin ToSet(c)
  BY DEF Volume, Whole, Ends, BlocksAt
<1>5. /\ g[fin] = nxt /\ g[nxt] = FILE_END
      /\ \A x \in Blocks : x # fin /\ x # nxt => g[x] = f[x]
  <2>1. g = [[f EXCEPT ![fin] = nxt] EXCEPT ![nxt] = FILE_END] /\ f \in [Blocks -> Int]
    BY DEF Sound, FatType, Joined
  <2> HIDE DEF fin
  <2> QED
    BY <1>1, <1>3, <2>1
<1> HIDE DEF c, fin
<1>6. ToSet(Append(c, nxt)) = ToSet(c) \union {nxt} /\ Len(Append(c, nxt)) = Len(c) + 1
  <2>1. ToSet(Append(c, nxt)) = ToSet(c) \union {nxt}
    <3> DEFINE d == Append(c, nxt)
    <3>1. /\ Len(c) \in Nat /\ Len(d) = Len(c) + 1 /\ d[Len(c) + 1] = nxt
          /\ \A i \in 1..Len(c) : d[i] = c[i]
      BY <1>3
    <3>2. ToSet(d) = {d[i] : i \in 1..Len(d)} /\ ToSet(c) = {c[i] : i \in 1..Len(c)}
      BY <1>3 DEF ToSet
    <3> HIDE DEF d
    <3>3. \A x \in ToSet(d) : x \in ToSet(c) \union {nxt}
      BY <3>1, <3>2
    <3>4. \A i \in 1..Len(c) : i \in 1..Len(d)
      BY <3>1
    <3>5. \A x \in ToSet(c) : x \in ToSet(d)
      BY <3>1, <3>2, <3>4
    <3>6. Len(c) + 1 \in 1..Len(d)
      BY <3>1
    <3>7. nxt \in ToSet(d)
      BY <3>1, <3>2, <3>6
    <3> QED
      BY <3>3, <3>5, <3>7 DEF d
  <2> QED
    BY <1>3, <2>1
<1>7. BlocksAt(f, r) = ToSet(c) /\ BlocksAt(g, p) = ToSet(c) \union {nxt}
  BY <1>2, <1>6 DEF BlocksAt, c
<1>8. nxt # System /\ System \in Blocks
  BY SystemNat DEF Volume, UNALLOCATED, FILE_END
<1>9. Whole(g, p)
  BY <1>2, <1>4, <1>6, <1>7, <1>8 DEF Whole
<1>10. \A q \in R \ {r} : /\ nxt \notin BlocksAt(f, q) /\ fin \notin BlocksAt(f, q)
                          /\ BlocksAt(f, q) \subseteq Blocks
  <2>1. \A q \in R : nxt \notin BlocksAt(f, q) /\ BlocksAt(f, q) \subseteq Blocks
    BY VolumeTaken
  <2>2. \A q \in R \ {r} : BlocksAt(f, r) \intersect BlocksAt(f, q) = {}
    BY DEF Volume
  <2> QED
    BY <1>3, <1>7, <2>1, <2>2
<1>11. SameFiles(f, g, R \ {r})
  <2>1. \A q \in R \ {r} : Whole(f, q)
    BY DEF Volume
  <2>2. \A q \in R \ {r} : \A x \in BlocksAt(f, q) : g[x] = f[x]
    BY <1>5, <1>10
  <2>3. Kept(f, g, R \ {r}) /\ R \ {r} \in SUBSET Records
    BY <2>1, <2>2 DEF Kept
  <2> QED
    BY <2>3, VolumeAgrees
<1>12. \A h \in H : h # nxt /\ h # fin /\ h \notin ToSet(c) /\ f[h] = FILE_END /\ h # System
  BY <1>3, <1>7 DEF Volume, UNALLOCATED, FILE_END
<1>13. \A h \in H : g[h] = FILE_END
  <2>1. f \in [Blocks -> Int] /\ g = [[f EXCEPT ![fin] = nxt] EXCEPT ![nxt] = FILE_END]
    BY DEF Sound, FatType, Joined, fin, c
  <2> QED
    BY <1>12, <2>1, <1>3
<1>14. g[System] = FILE_END
  <2>1. System # fin /\ f[System] = FILE_END
    BY <1>3, <1>4 DEF Volume
  <2> QED
    BY <1>5, <1>8, <2>1
<1>15. \A q \in R \ {r} : BlocksAt(g, q) \intersect BlocksAt(g, p) = {}
  <2>1. \A q \in R \ {r} : BlocksAt(f, r) \intersect BlocksAt(f, q) = {}
    BY DEF Volume
  <2> QED
    BY <1>7, <1>10, <1>11, <2>1 DEF SameFiles
<1>16. \A h \in H : \A q \in (R \ {r}) \union {p} : h \notin BlocksAt(g, q)
  BY <1>7, <1>11, <1>12 DEF Volume, SameFiles
<1>17. ASSUME NEW x \in Blocks, g[x] # UNALLOCATED
       PROVE  x = System \/ x \in H \/ \E q \in (R \ {r}) \union {p} : x \in BlocksAt(g, q)
  <2>1. CASE x = nxt \/ x \in ToSet(c)
    BY <1>7, <2>1
  <2>2. CASE x # nxt /\ x \notin ToSet(c)
    <3>1. f[x] # UNALLOCATED
      BY <1>3, <1>5, <1>17, <2>2
    <3>2. x = System \/ x \in H \/ \E q \in R : x \in BlocksAt(f, q)
      BY <3>1 DEF Volume
    <3> QED
      BY <1>7, <1>11, <2>2, <3>2 DEF SameFiles
  <2> QED
    BY <2>1, <2>2
<1>18. \A q, u \in R \ {r} : q # u => BlocksAt(g, q) \intersect BlocksAt(g, u) = {}
  BY <1>11 DEF Volume, SameFiles
<1>19. Volume(g, (R \ {r}) \union {p}, H)
  <2> DEFINE Q == (R \ {r}) \union {p}
  <2>1. \A q \in Q : Whole(g, q)
    BY <1>9, <1>11 DEF SameFiles
  <2>2. \A q, u \in Q : q # u => BlocksAt(g, q) \intersect BlocksAt(g, u) = {}
    BY <1>15, <1>18
  <2> HIDE DEF Q
  <2> QED
    BY <1>12, <1>13, <1>14, <1>16, <1>17, <2>1, <2>2 DEF Volume, Q
<1> QED
  BY <1>2, <1>11, <1>19 DEF SameFiles

\* A file is removed.
LEMMA VolumeErase ==
  ASSUME NEW f, Sound(f), NEW g, Sound(g), NEW R \in SUBSET Records,
         Volume(f, R, {}), NEW r \in R,
         \A x \in Blocks : g[x] = IF x \in BlocksAt(f, r) THEN UNALLOCATED ELSE f[x]
  PROVE  Volume(g, R \ {r}, {}) /\ SameChains(f, g, R \ {r})
<1>1. \A q \in R \ {r} : /\ BlocksAt(f, r) \intersect BlocksAt(f, q) = {}
                         /\ BlocksAt(f, q) \subseteq Blocks
  <2>1. \A q \in R : BlocksAt(f, q) \subseteq Blocks
    BY VolumeTaken
  <2> QED
    BY <2>1 DEF Volume
<1>2. SameFiles(f, g, R \ {r})
  <2>1. \A q \in R \ {r} : Whole(f, q)
    BY DEF Volume
  <2>2. \A q \in R \ {r} : \A x \in BlocksAt(f, q) : g[x] = f[x]
    BY <1>1
  <2>3. Kept(f, g, R \ {r}) /\ R \ {r} \in SUBSET Records
    BY <2>1, <2>2 DEF Kept
  <2> QED
    BY <2>3, VolumeAgrees
<1>3. g[System] = FILE_END
  <2>1. System \notin BlocksAt(f, r) /\ f[System] = FILE_END /\ System \in Blocks
    BY SystemNat DEF Volume, Whole
  <2> QED
    BY <2>1
<1>4. \A x \in Blocks : g[x] # UNALLOCATED => x \notin BlocksAt(f, r) /\ f[x] # UNALLOCATED
  OBVIOUS
<1>5. \A x \in Blocks : g[x] # UNALLOCATED =>
        x = System \/ \E q \in R \ {r} : x \in BlocksAt(g, q)
  BY <1>2, <1>4 DEF Volume, SameFiles
<1>6. \A q, u \in R \ {r} : q # u => BlocksAt(g, q) \intersect BlocksAt(g, u) = {}
  BY <1>2 DEF Volume, SameFiles
<1> QED
  BY <1>2, <1>3, <1>5, <1>6 DEF Volume, SameFiles

-----------------------------------------------------------------------------
(* The directory as the set of its records in use.                         *)

Used(d) == {d[s] : s \in {t \in Slots : ~IsFree(d, t)}}
NamesOnce(d) == \A s, t \in Slots : ~IsFree(d, s) /\ d[s].name = d[t].name => s = t

LEMMA UsedRecords ==
  ASSUME NEW d \in [Slots -> Records]
  PROVE  Used(d) \in SUBSET Records /\ \A r \in Used(d) : r.name \in Names
<1>1. \A s \in Slots : ~IsFree(d, s) => d[s] \in Records /\ d[s].name \in Names
  BY DEF Records, IsFree
<1> QED
  BY <1>1 DEF Used

\* A new record in an empty place.
LEMMA RecordEntered ==
  ASSUME NEW d \in [Slots -> Records], NamesOnce(d), NEW s \in Slots, IsFree(d, s),
         NEW r \in Records, r.name # NoName, \A q \in Used(d) : q.name # r.name
  PROVE  Used([d EXCEPT ![s] = r]) = Used(d) \union {r} /\ NamesOnce([d EXCEPT ![s] = r])
<1> DEFINE e == [d EXCEPT ![s] = r]
<1>1. e[s] = r /\ ~IsFree(e, s) /\ \A t \in Slots \ {s} : e[t] = d[t] /\ (IsFree(e, t) <=> IsFree(d, t))
  BY DEF IsFree
<1> HIDE DEF e
<1>2. Used(e) = Used(d) \union {r}
  <2>1. \A t \in Slots : ~IsFree(e, t) => e[t] \in Used(d) \union {r}
    BY <1>1 DEF Used
  <2>2. \A t \in Slots : ~IsFree(d, t) => t # s /\ d[t] \in Used(e)
    BY <1>1 DEF Used
  <2>3. r \in Used(e)
    BY <1>1 DEF Used
  <2> QED
    BY <2>1, <2>2, <2>3 DEF Used
<1>3. NamesOnce(e)
  <2> SUFFICES ASSUME NEW t \in Slots, NEW u \in Slots, ~IsFree(e, t), e[t].name = e[u].name
               PROVE  t = u
    BY DEF NamesOnce
  <2>1. ~IsFree(e, u)
    BY DEF IsFree
  <2>2. \A v \in Slots \ {s} : ~IsFree(e, v) => e[v].name # r.name
    BY <1>1 DEF Used
  <2>3. CASE t = s \/ u = s
    BY <1>1, <2>1, <2>2, <2>3
  <2>4. CASE t # s /\ u # s
    BY <1>1, <2>4 DEF NamesOnce
  <2> QED
    BY <2>3, <2>4
<1> QED
  BY <1>2, <1>3 DEF e

\* What a removal of s leaves, e: the record of x is gone from its place, and if
\* that is not s, it has taken the place of s.
Removed(e, s, x) ==
  /\ ~IsFree(dir, x) /\ IsFree(e, x)
  /\ x # s => e[s] = dir[x]
  /\ \A t \in Slots \ {s, x} : e[t] = dir[t] \/ (IsFree(e, t) /\ IsFree(dir, t))

LEMMA CompactMoves ==
  ASSUME DirOK, IsCompact(dir), NEW s \in Slots, ~IsFree(dir, s), ~LeavesHole(s)
  PROVE  \E x \in Slots : Removed(Compact(s), s, x)
<1> DEFINE d == Cleared(s)
<1>1. /\ d \in [Slots -> Records] /\ IsFree(d, s) /\ d[s] = Empty
      /\ \A t \in Slots \ {s} : d[t] = dir[t]
  BY EmptyRecord DEF DirOK, Cleared, IsFree
<1> HIDE DEF d
<1>2. ASSUME Compact(s) = d PROVE Removed(d, s, s)
  BY <1>1, <1>2 DEF Removed, IsFree
<1>3. ASSUME NEW e \in NextFree(d, s), NEW t \in Preceding(e), Compact(s) = Moved(s, t)
      PROVE  \E x \in Slots : Removed(Compact(s), s, x)
  <2>1. /\ e \in Slots /\ s < e /\ IsFree(d, e)
        /\ \A u \in Slots : s < u /\ u < e => ~IsFree(d, u)
    BY <1>3 DEF NextFree
  <2>2. t \in Slots
    BY <1>3, PrecedingIn DEF d
  <2>3. /\ t = s => Moved(s, t)[s] = Empty
        /\ t # s => Moved(s, t)[s] = d[t] /\ Moved(s, t)[t] = Empty
        /\ \A u \in Slots \ {s, t} : Moved(s, t)[u] = d[u]
    <3>1. Moved(s, t) = [[d EXCEPT ![s] = d[t]] EXCEPT ![t] = Empty]
      BY DEF Moved, d
    <3> QED
      BY <1>1, <2>2, <3>1
  <2>4. CASE e % PerBlock # 0
    <3>1. t = e - 1 /\ s <= t /\ (t = s \/ ~IsFree(d, t))
      <4>1. t = e - 1
        BY <1>3, <2>4 DEF Preceding
      <4>2. s \in Int /\ e \in Int
        BY <2>1, SlotsRange
      <4> QED
        BY <2>1, <2>2, <4>1, <4>2
    <3>2. CASE t = s
      <4>1. Removed(Compact(s), s, s)
        BY <1>1, <1>3, <2>3, <3>2, EmptyRecord DEF IsFree, Removed
      <4> QED
        BY <4>1
    <3>3. CASE t # s
      <4>1. ~IsFree(dir, t) /\ d[t] = dir[t]
        BY <1>1, <2>2, <3>1, <3>3 DEF IsFree
      <4>2. IsFree(Compact(s), t) /\ Compact(s)[s] = dir[t]
        BY <1>3, <2>3, <3>3, <4>1, EmptyRecord DEF IsFree
      <4>3. \A u \in Slots \ {s, t} : Compact(s)[u] = dir[u]
        BY <1>1, <1>3, <2>3
      <4> QED
        BY <2>2, <4>1, <4>2, <4>3 DEF Removed
    <3> QED
      BY <3>2, <3>3
  <2>5. CASE e % PerBlock = 0
    <3>1. e = s + 1
      BY <1>3, <2>5 DEF LeavesHole, d, Cleared
    <3>2. e # s /\ IsFree(dir, e)
      <4>1. e # s
        BY <2>1, <3>1, SlotsRange
      <4> QED
        BY <1>1, <2>1, <4>1 DEF IsFree
    <3>3. t # s /\ (e = t \/ e < t)
      <4>1. t = e + 2 * PerBlock - 1
        BY <1>3, <2>5 DEF Preceding
      <4>2. PerBlock \in Nat /\ PerBlock > 0 /\ e \in Int /\ s \in Int
        BY VmuFatAssumption, <2>1, EmptyRecord
      <4> QED
        BY <3>1, <4>1, <4>2
    <3>4. IsFree(dir, t) /\ IsFree(d, t)
      <4>1. IsFree(dir, t)
        BY <2>1, <2>2, <3>2, <3>3 DEF IsCompact
      <4> QED
        BY <1>1, <2>2, <3>3, <4>1 DEF IsFree
    <3>5. IsFree(Compact(s), s) /\ IsFree(Compact(s), t)
      BY <1>3, <2>3, <3>3, <3>4, EmptyRecord DEF IsFree
    <3>6. \A u \in Slots \ {s, t} : Compact(s)[u] = dir[u]
      BY <1>1, <1>3, <2>3
    <3> QED
      <4>1. Removed(Compact(s), s, s)
        BY <3>4, <3>5, <3>6 DEF Removed
      <4> QED
        BY <4>1
  <2> QED
    BY <2>4, <2>5
<1> QED
  BY <1>2, <1>3, CompactIs DEF d

\* A removal takes one record from the set, and no name comes twice.
LEMMA RecordErased ==
  ASSUME DirOK, IsCompact(dir), NamesOnce(dir),
         NEW s \in Slots, ~IsFree(dir, s), ~LeavesHole(s)
  PROVE  Used(Compact(s)) = Used(dir) \ {dir[s]} /\ NamesOnce(Compact(s))
<1>1. PICK x \in Slots : Removed(Compact(s), s, x)
  BY CompactMoves
<1> DEFINE e == Compact(s)
           from(t) == IF t = s THEN x ELSE t
<1> HIDE DEF e
\* Each record comes from one place, and none from s.
<1>2. ASSUME NEW t \in Slots, ~IsFree(e, t)
      PROVE  t # x /\ from(t) \in Slots \ {s} /\ e[t] = dir[from(t)] /\ ~IsFree(dir, from(t))
  BY <1>1, <1>2 DEF e, IsFree, Removed
<1>3. ASSUME NEW t \in Slots \ {s}, ~IsFree(dir, t)
      PROVE  dir[t] \in Used(e)
  <2>1. CASE t = x
    <3>1. e[s] = dir[t] /\ ~IsFree(e, s)
      BY <1>1, <1>3, <2>1 DEF e, IsFree, Removed
    <3> QED
      BY <3>1 DEF Used
  <2>2. CASE t # x
    <3>1. e[t] = dir[t] /\ ~IsFree(e, t)
      BY <1>1, <1>3, <2>2 DEF e, IsFree, Removed
    <3> QED
      BY <3>1 DEF Used
  <2> QED
    BY <2>1, <2>2
<1>4. \A t \in Slots \ {s} : ~IsFree(dir, t) => dir[t] # dir[s]
  BY DEF NamesOnce
<1>5. Used(e) = Used(dir) \ {dir[s]}
  <2>1. \A t \in Slots : ~IsFree(e, t) => e[t] \in Used(dir) \ {dir[s]}
    BY <1>2, <1>4 DEF Used
  <2>2. \A t \in Slots : ~IsFree(dir, t) /\ dir[t] # dir[s] => dir[t] \in Used(e)
    BY <1>3
  <2> QED
    BY <2>1, <2>2 DEF Used
<1>6. NamesOnce(e)
  <2> SUFFICES ASSUME NEW t \in Slots, NEW u \in Slots, ~IsFree(e, t), e[t].name = e[u].name
               PROVE  t = u
    BY DEF NamesOnce
  <2>1. ~IsFree(e, u)
    BY DEF IsFree
  <2>2. from(t) = from(u)
    BY <1>2, <2>1 DEF NamesOnce
  <2> QED
    BY <1>2, <2>1, <2>2
<1> QED
  BY <1>5, <1>6 DEF e

\* The record of a file that has grown.
LEMMA RecordGrown ==
  ASSUME DirOK, NamesOnce(dir), NEW r \in Used(dir),
         \A q \in Used(dir) : q.first = r.first => q = r
  PROVE  LET p == [r EXCEPT !.size = r.size + 1]
         IN  /\ Used(Grown(r.first)) = (Used(dir) \ {r}) \union {p}
             /\ NamesOnce(Grown(r.first))
             /\ p \in Records /\ p.name = r.name /\ p.first = r.first /\ p.size = r.size + 1
<1> DEFINE p == [r EXCEPT !.size = r.size + 1]
           e == Grown(r.first)
<1>1. PICK s \in Slots : ~IsFree(dir, s) /\ r = dir[s]
  BY DEF Used
<1>2. r \in Records /\ \A t \in Slots : dir[t] \in Records
  BY <1>1 DEF DirOK
<1>3. p \in Records /\ p.name = r.name /\ p.first = r.first /\ p.size = r.size + 1
  <2>1. /\ r = [name |-> r.name, first |-> r.first, size |-> r.size]
        /\ r.name \in Names \union {NoName} /\ r.first \in Blocks /\ r.size + 1 \in Nat
    BY <1>2 DEF Records
  <2>2. p = [name |-> r.name, first |-> r.first, size |-> r.size + 1]
    BY <2>1
  <2> QED
    BY <2>1, <2>2 DEF Records
<1>4. ASSUME NEW t \in Slots, ~IsFree(dir, t), dir[t].first = r.first PROVE t = s
  <2>1. dir[t] = r
    BY <1>4 DEF Used
  <2> QED
    BY <1>1, <2>1 DEF NamesOnce
<1>5. e[s] = p /\ \A t \in Slots \ {s} : e[t] = dir[t]
  <2>1. \A t \in Slots : ~(t < t)
    BY SlotsRange
  <2>2. \A t \in Slots : t < s /\ ~IsFree(dir, t) => dir[t].first # r.first
    BY <1>4, <2>1
  <2> QED
    BY <1>1, <1>4, <2>2 DEF Grown
<1> HIDE DEF e, p
<1>6. ~IsFree(e, s) /\ \A t \in Slots : IsFree(e, t) <=> IsFree(dir, t)
  BY <1>1, <1>3, <1>5 DEF IsFree
<1>7. Used(e) = (Used(dir) \ {r}) \union {p}
  <2>1. \A t \in Slots \ {s} : ~IsFree(dir, t) => dir[t] # r
    BY <1>1 DEF NamesOnce
  <2>2. \A t \in Slots : ~IsFree(e, t) => e[t] \in (Used(dir) \ {r}) \union {p}
    BY <1>5, <1>6, <2>1 DEF Used
  <2>3. p \in Used(e)
    BY <1>5, <1>6 DEF Used
  <2>4. \A t \in Slots : ~IsFree(dir, t) /\ dir[t] # r => dir[t] \in Used(e)
    BY <1>1, <1>5, <1>6 DEF Used
  <2> QED
    BY <2>2, <2>3, <2>4 DEF Used
<1>8. NamesOnce(e)
  <2>1. \A t \in Slots : e[t].name = dir[t].name
    BY <1>1, <1>3, <1>5
  <2> QED
    BY <1>6, <2>1 DEF NamesOnce
<1> QED
  BY <1>3, <1>7, <1>8 DEF e, p

\* Searches meet every record of a compact directory.
LEMMA SearchByName ==
  ASSUME NEW d \in [Slots -> Records], IsCompact(d), NamesOnce(d)
  PROVE  /\ \A r \in Used(d) : \E s \in Found(d, r.name) : d[s] = r
         /\ \A n \in Names : \A s \in Found(d, n) : d[s] \in Used(d) /\ d[s].name = n
<1>1. ASSUME NEW r \in Used(d) PROVE \E s \in Found(d, r.name) : d[s] = r
  <2>1. PICK s \in Slots : ~IsFree(d, s) /\ r = d[s]
    BY DEF Used
  <2>2. \A t \in Slots : t < s => ~IsFree(d, t)
    BY <2>1 DEF IsCompact
  <2>3. \A t \in Slots : t < s => t # s
    BY SlotsRange
  <2>4. \A t \in Slots : t < s => d[t].name # r.name
    BY <2>1, <2>3 DEF NamesOnce
  <2> QED
    BY <2>1, <2>2, <2>4 DEF Found, Before
<1>2. ASSUME NEW n \in Names, NEW s \in Found(d, n) PROVE d[s] \in Used(d) /\ d[s].name = n
  BY <1>2, VmuFatAssumption DEF Found, Used, IsFree
<1> QED
  BY <1>1, <1>2

LEMMA SearchByFirst ==
  ASSUME NEW d \in [Slots -> Records], IsCompact(d), NamesOnce(d), NEW r \in Used(d),
         \A q \in Used(d) : q.first = r.first => q = r
  PROVE  /\ FoundFirst(d, r.first) # {}
         /\ \A s \in FoundFirst(d, r.first) : s \in Slots /\ ~IsFree(d, s) /\ d[s] = r
<1>1. PICK s \in Slots : ~IsFree(d, s) /\ r = d[s]
  BY DEF Used
<1>2. \A t \in Slots : t < s => ~IsFree(d, t)
  BY <1>1 DEF IsCompact
<1>3. \A t \in Slots : t < s => t # s
  BY SlotsRange
<1>4. \A t \in Slots : t < s => d[t].first # r.first
  <2>1. \A t \in Slots : t < s => d[t] \in Used(d) /\ d[t] # r
    BY <1>1, <1>2, <1>3 DEF NamesOnce, Used
  <2> QED
    BY <2>1
<1>5. s \in FoundFirst(d, r.first)
  BY <1>1, <1>2, <1>4 DEF FoundFirst, Before
<1>6. ASSUME NEW t \in FoundFirst(d, r.first) PROVE t \in Slots /\ ~IsFree(d, t) /\ d[t] = r
  BY <1>6 DEF FoundFirst, Used
<1> QED
  BY <1>5, <1>6

-----------------------------------------------------------------------------
(* Inodes in memory.                                                       *)

Inodes == [ino : Blocks \union {ZEROBLOCK}, names : SUBSET Names, open : BOOLEAN,
           blocks : Seq(Blocks), ft : FileTypes \union {"ANY"}]
CacheOK == icache \in Seq(Inodes)

\* The names of an inode are those of files with its blocks.
Listed(ic, f, R) ==
  \A k \in DOMAIN ic : \A n \in ic[k].names :
    \E r \in R : /\ r.name = n /\ r.first = First(ic[k])
                 /\ ic[k].blocks = Chain(f, r.first)
NamesApart(ic) ==
  \A k, l \in DOMAIN ic : k # l => ic[k].names \intersect ic[l].names = {}

\* The one file in creation has a name of its own.
NewName(C, ic, R) ==
  \A c, e \in C : /\ c = e
                  /\ \A k \in DOMAIN ic : c.name \notin ic[k].names
                  /\ \A r \in R : r.name # c.name

LEMMA FirstIsBlock == ASSUME NEW i \in Inodes PROVE First(i) \in Blocks
<1>1. i.ino \in Blocks \union {ZEROBLOCK} /\ 0 \in Blocks
  BY VmuFatAssumption DEF Inodes, Blocks
<1> QED
  BY <1>1 DEF First

LEMMA BlockNumber == ASSUME NEW i \in Inodes, i.ino \in Blocks PROVE First(i) = i.ino
  BY VmuFatAssumption DEF First, Blocks

\* An inode put before the others.
LEMMA Pushed ==
  ASSUME NEW ic \in Seq(Inodes), NEW i \in Inodes
  PROVE  /\ <<i>> \o ic \in Seq(Inodes) /\ DOMAIN (<<i>> \o ic) = 1..(Len(ic) + 1)
         /\ (<<i>> \o ic)[1] = i
         /\ \A k \in 2..(Len(ic) + 1) : k - 1 \in DOMAIN ic /\ (<<i>> \o ic)[k] = ic[k - 1]
<1> DEFINE jc == <<i>> \o ic
<1>1. /\ jc \in Seq(Inodes) /\ Len(jc) = Len(ic) + 1 /\ jc[1] = i /\ Len(ic) \in Nat
      /\ \A l \in 1..Len(ic) : jc[l + 1] = ic[l]
  OBVIOUS
<1>2. DOMAIN jc = 1..(Len(ic) + 1) /\ DOMAIN ic = 1..Len(ic)
  BY <1>1
<1> HIDE DEF jc
<1>3. ASSUME NEW k \in 2..(Len(ic) + 1) PROVE k - 1 \in DOMAIN ic /\ jc[k] = ic[k - 1]
  <2>1. k - 1 \in 1..Len(ic) /\ (k - 1) + 1 = k
    BY <1>1
  <2> QED
    BY <1>1, <1>2, <2>1
<1> QED
  BY <1>1, <1>2, <1>3 DEF jc

LEMMA PushedListed ==
  ASSUME NEW ic \in Seq(Inodes), NEW i \in Inodes, NEW f, NEW R,
         Listed(ic, f, R), NamesApart(ic),
         \A n \in i.names :
           /\ \A k \in DOMAIN ic : n \notin ic[k].names
           /\ \E r \in R : r.name = n /\ r.first = First(i) /\ i.blocks = Chain(f, r.first)
  PROVE  Listed(<<i>> \o ic, f, R) /\ NamesApart(<<i>> \o ic)
<1> DEFINE jc == <<i>> \o ic
<1>1. /\ DOMAIN jc = 1..(Len(ic) + 1) /\ jc[1] = i /\ Len(ic) \in Nat
      /\ \A k \in 2..(Len(ic) + 1) : k - 1 \in DOMAIN ic /\ jc[k] = ic[k - 1]
  BY Pushed
<1> HIDE DEF jc
<1>2. \A k \in DOMAIN jc : k = 1 \/ k \in 2..(Len(ic) + 1)
  BY <1>1
<1>3. Listed(jc, f, R)
  <2> SUFFICES ASSUME NEW k \in DOMAIN jc, NEW n \in jc[k].names
               PROVE  \E r \in R : /\ r.name = n /\ r.first = First(jc[k])
                                   /\ jc[k].blocks = Chain(f, r.first)
    BY DEF Listed
  <2>1. CASE k = 1
    BY <1>1, <2>1
  <2>2. CASE k # 1
    <3>1. k - 1 \in DOMAIN ic /\ jc[k] = ic[k - 1]
      BY <1>1, <1>2, <2>2
    <3> QED
      BY <3>1 DEF Listed
  <2> QED
    BY <2>1, <2>2
<1>4. ASSUME NEW k \in DOMAIN jc, NEW l \in DOMAIN jc, k # l
      PROVE  jc[k].names \intersect jc[l].names = {}
  <2>1. CASE k = 1 \/ l = 1
    BY <1>1, <1>2, <1>4, <2>1
  <2>2. CASE k # 1 /\ l # 1
    <3>1. k \in 2..(Len(ic) + 1) /\ l \in 2..(Len(ic) + 1) /\ k - 1 # l - 1
      BY <1>1, <1>2, <1>4, <2>2
    <3> QED
      BY <1>1, <3>1 DEF NamesApart
  <2> QED
    BY <2>1, <2>2
<1> QED
  BY <1>3, <1>4 DEF NamesApart, jc

\* An inode dropped from among the others.
LEMMA Dropped ==
  ASSUME NEW ic \in Seq(Inodes), NEW k \in DOMAIN ic
  PROVE  /\ RemoveAt(ic, k) \in Seq(Inodes)
         /\ \A j \in DOMAIN RemoveAt(ic, k) :
              /\ j \in Nat /\ (IF j < k THEN j ELSE j + 1) \in DOMAIN ic
              /\ RemoveAt(ic, k)[j] = ic[IF j < k THEN j ELSE j + 1]
<1> DEFINE u == SubSeq(ic, 1, k - 1)
           v == SubSeq(ic, k + 1, Len(ic))
           w == u \o v
<1>1. k \in 1..Len(ic) /\ Len(ic) \in Nat /\ DOMAIN ic = 1..Len(ic)
      /\ \A j \in 1..Len(ic) : ic[j] \in Inodes
  OBVIOUS
<1>2. u \in Seq(Inodes) /\ Len(u) = k - 1 /\ \A j \in 1..(k - 1) : u[j] = ic[j]
  BY <1>1, SubSeqProperties
<1>3. /\ v \in Seq(Inodes) /\ Len(v) = Len(ic) - k
      /\ \A j \in 1..(Len(ic) - k) : v[j] = ic[k + j]
  <2>1. /\ v \in Seq(Inodes)
        /\ Len(v) = IF k + 1 <= Len(ic) THEN Len(ic) - (k + 1) + 1 ELSE 0
        /\ \A j \in 1..(Len(ic) - (k + 1) + 1) : v[j] = ic[k + 1 + j - 1]
    BY <1>1, SubSeqProperties
  <2>2. Len(v) = Len(ic) - k
    BY <1>1, <2>1
  <2> HIDE DEF v
  <2>3. ASSUME NEW j \in 1..(Len(ic) - k) PROVE v[j] = ic[k + j]
    <3>1. j \in 1..(Len(ic) - (k + 1) + 1) /\ k + 1 + j - 1 = k + j
      BY <1>1
    <3> QED
      BY <2>1, <3>1
  <2> QED
    BY <2>1, <2>2, <2>3
<1> HIDE DEF u, v
<1>4. /\ w \in Seq(Inodes) /\ Len(w) = Len(u) + Len(v)
      /\ \A j \in 1..(Len(u) + Len(v)) : w[j] = IF j <= Len(u) THEN u[j] ELSE v[j - Len(u)]
  <2>1. u \in Seq(Inodes) /\ v \in Seq(Inodes)
    BY <1>2, <1>3
  <2> QED
    BY <2>1, ConcatProperties
<1>5. RemoveAt(ic, k) = w
  BY DEF RemoveAt, u, v
<1> HIDE DEF w
<1>6. ASSUME NEW j \in DOMAIN w
      PROVE  /\ j \in Nat /\ (IF j < k THEN j ELSE j + 1) \in DOMAIN ic
             /\ w[j] = ic[IF j < k THEN j ELSE j + 1]
  <2>1. DOMAIN w = 1..(Len(ic) - 1) /\ Len(u) = k - 1 /\ Len(u) + Len(v) = Len(ic) - 1
    BY <1>1, <1>2, <1>3, <1>4
  <2>2. CASE j < k
    BY <1>1, <1>2, <1>4, <2>1, <2>2
  <2>3. CASE ~(j < k)
    <3>1. j - Len(u) \in 1..(Len(ic) - k) /\ k + (j - Len(u)) = j + 1 /\ ~(j <= Len(u))
      BY <1>1, <2>1, <2>3
    <3>2. w[j] = ic[j + 1]
      BY <1>3, <1>4, <2>1, <3>1
    <3> QED
      BY <1>1, <2>1, <2>3, <3>2
  <2> QED
    BY <2>2, <2>3
<1> QED
  BY <1>4, <1>5, <1>6

LEMMA DroppedListed ==
  ASSUME NEW ic \in Seq(Inodes), NEW k \in DOMAIN ic, NEW f, NEW R, NEW C,
         Listed(ic, f, R), NamesApart(ic), NewName(C, ic, R)
  PROVE  /\ Listed(RemoveAt(ic, k), f, R) /\ NamesApart(RemoveAt(ic, k))
         /\ NewName(C, RemoveAt(ic, k), R)
<1> DEFINE jc == RemoveAt(ic, k)
           at(j) == IF j < k THEN j ELSE j + 1
<1>1. \A j \in DOMAIN jc : j \in Nat /\ at(j) \in DOMAIN ic /\ jc[j] = ic[at(j)]
  BY Dropped
<1>2. k \in Nat
  OBVIOUS
<1> HIDE DEF jc
<1>3. \A i, j \in DOMAIN jc : i # j => at(i) # at(j)
  BY <1>1, <1>2
<1> HIDE DEF at
<1> QED
  BY <1>1, <1>3 DEF Listed, NamesApart, NewName, jc

\* Files that keep their chains are listed as before.
LEMMA ListedSame ==
  ASSUME NEW ic, NEW f, NEW g, NEW R, NEW Q, Listed(ic, f, R),
         SameChains(f, g, R), R \subseteq Q
  PROVE  Listed(ic, g, Q)
<1>1. \A r \in R : r \in Q /\ Chain(g, r.first) = Chain(f, r.first)
  BY DEF SameChains
<1> QED
  BY <1>1 DEF Listed

\* Of a volume's files no two begin in one block.
LEMMA FirstOnce ==
  ASSUME NEW f, Sound(f), NEW R \in SUBSET Records, NEW H, Volume(f, R, H),
         NEW r \in R, NEW q \in R, q.first = r.first
  PROVE  q = r
<1>1. r.first \in Blocks
  BY DEF Records
<1>2. r.first \in BlocksAt(f, r) /\ r.first \in BlocksAt(f, q)
  BY <1>1, ChainParts DEF BlocksAt
<1> QED
  BY <1>2 DEF Volume

\* Listed, but for inode k.
OthersAre(ic, k, f, R) ==
  \A l \in DOMAIN ic \ {k} : \A n \in ic[l].names :
    \E r \in R : /\ r.name = n /\ r.first = First(ic[l])
                 /\ ic[l].blocks = Chain(f, r.first)

\* The other inodes know nothing of a file whose name one of them has.
LEMMA OthersListed ==
  ASSUME NEW ic, NEW f, NEW g, NEW R, NEW Q, NEW r \in R,
         Listed(ic, f, R), NamesApart(ic), NEW k \in DOMAIN ic, r.name \in ic[k].names,
         SameChains(f, g, R \ {r}), R \ {r} \subseteq Q
  PROVE  OthersAre(ic, k, g, Q)
<1> SUFFICES ASSUME NEW l \in DOMAIN ic \ {k}, NEW n \in ic[l].names
             PROVE  \E q \in Q : /\ q.name = n /\ q.first = First(ic[l])
                                 /\ ic[l].blocks = Chain(g, q.first)
  BY DEF OthersAre
<1>1. PICK q \in R : q.name = n /\ q.first = First(ic[l]) /\ ic[l].blocks = Chain(f, q.first)
  BY DEF Listed
<1>2. q # r
  BY <1>1 DEF NamesApart
<1> QED
  BY <1>1, <1>2 DEF SameChains

-----------------------------------------------------------------------------
(* The invariant.                                                          *)

FilesOK(f, d, ic, C) ==
  /\ NamesOnce(d)
  /\ Volume(f, Used(d), {c.block : c \in C})
  /\ Listed(ic, f, Used(d)) /\ NamesApart(ic)
  /\ NewName(C, ic, Used(d))

FilesInv == CacheOK /\ (Healthy => FilesOK(fat, dir, icache, creating))
VolumeInv == FatInv /\ DirInv /\ FilesInv

\* What the invariant says of a state in which nothing has gone wrong.
LEMMA HealthyFacts ==
  ASSUME VolumeInv
  PROVE  /\ Sound(fat) /\ dir \in [Slots -> Records] /\ icache \in Seq(Inodes)
         /\ Used(dir) \in SUBSET Records /\ \A r \in Used(dir) : r.name \in Names
         /\ \A c \in creating : c.name \in Names /\ c.block \in Blocks /\ c.ft \in FileTypes
         /\ \A k \in DOMAIN icache : icache[k] \in Inodes
         /\ Healthy => IsCompact(dir)
<1>1. Sound(fat) /\ dir \in [Slots -> Records] /\ icache \in Seq(Inodes)
  BY FatIsSound DEF VolumeInv, FilesInv, CacheOK, DirInv, DirOK, Sound
<1>2. Used(dir) \in SUBSET Records /\ \A r \in Used(dir) : r.name \in Names
  BY <1>1, UsedRecords
<1>3. \A c \in creating : c.name \in Names /\ c.block \in Blocks /\ c.ft \in FileTypes
  BY DEF VolumeInv, DirInv, DirOK
<1>4. \A k \in DOMAIN icache : icache[k] \in Inodes
  BY <1>1
<1>5. Healthy => IsCompact(dir)
  BY DEF VolumeInv, DirInv, DirectoryCompact
<1> QED
  BY <1>1, <1>2, <1>3, <1>4, <1>5

LEMMA ListIsBlocks ==
  ASSUME NEW f, Sound(f), NEW b \in Blocks
  PROVE  ListBlocks(f, b) \in Seq(Blocks) /\ (Ends(f, b) => ListBlocks(f, b) = Chain(f, b))
  BY ChainParts DEF ListBlocks

LEMMA InodeMade ==
  ASSUME NEW ino \in Blocks \union {ZEROBLOCK}, NEW names \in SUBSET Names,
         NEW blocks \in Seq(Blocks), NEW ft \in FileTypes \union {"ANY"}
  PROVE  /\ Inode(ino, names, blocks, ft) \in Inodes
         /\ Inode(ino, names, blocks, ft).ino = ino
         /\ Inode(ino, names, blocks, ft).names = names
         /\ Inode(ino, names, blocks, ft).blocks = blocks
  BY DEF Inode, Inodes

\* What is left to show of a step.
LEMMA FilesStep ==
  ASSUME NEW f, NEW d, NEW ic, NEW C,
         f = fat', d = dir', ic = icache', C = creating',
         ic \in Seq(Inodes), Healthy' => FilesOK(f, d, ic, C)
  PROVE  FilesInv'
<1>1. CacheOK'
  BY DEF CacheOK, Inodes, Blocks, FileTypes
<1>2. Healthy' => FilesOK(fat', dir', icache', creating')
  OBVIOUS
<1> QED
  BY <1>1, <1>2 DEF FilesInv

LEMMA FilesLookup ==
  ASSUME VolumeInv, NEW n \in Names, Lookup(n)
  PROVE  FilesInv'
<1>0. /\ Sound(fat) /\ dir \in [Slots -> Records] /\ icache \in Seq(Inodes)
      /\ \A k \in DOMAIN icache : icache[k] \in Inodes
      /\ Healthy => IsCompact(dir)
  BY HealthyFacts
<1>1. creating = {} /\ (\A k \in DOMAIN icache : n \notin icache[k].names)
      /\ UNCHANGED <<fat, dir, creating>>
  BY DEF Lookup, InCore
<1>2. PICK s \in Found(dir, n) :
        LET b == dir[s].first
        IN  \/ \E k \in Hit(b) :
                 /\ icache' = [icache EXCEPT ![k].names = @ \union {n}]
                 /\ harm' = IF icache[k].blocks = ListBlocks(fat, b) THEN harm
                            ELSE harm \union {"stale"}
            \/ /\ Hit(b) = {} /\ Room /\ Ends(fat, b)
               /\ icache' = <<Inode(b, {n}, ListBlocks(fat, b), "ANY")>> \o icache
               /\ UNCHANGED harm
  BY DEF Lookup
<1> DEFINE b == dir[s].first
<1>3. b \in Blocks
  BY <1>0 DEF Found, Records
<1>4. Healthy => dir[s] \in Used(dir) /\ dir[s].name = n /\ Ends(fat, b)
  <2>1. Healthy => NamesOnce(dir) /\ \A r \in Used(dir) : Whole(fat, r)
    BY DEF VolumeInv, FilesInv, FilesOK, Volume
  <2>2. Healthy => dir[s] \in Used(dir) /\ dir[s].name = n
    BY <1>0, <2>1, SearchByName
  <2> QED
    BY <2>1, <2>2 DEF Whole
<1>5. ListBlocks(fat, b) \in Seq(Blocks) /\ (Ends(fat, b) => ListBlocks(fat, b) = Chain(fat, b))
  BY <1>0, <1>3, ListIsBlocks
<1>6. Healthy => Listed(icache, fat, Used(dir)) /\ NamesApart(icache)
  BY DEF VolumeInv, FilesInv, FilesOK
<1>7. ASSUME NEW ic, ic = icache', ic \in Seq(Inodes), Healthy' => Healthy,
             Healthy' => Listed(ic, fat, Used(dir)) /\ NamesApart(ic)
      PROVE  FilesInv'
  <2>1. Healthy' => NamesOnce(dir) /\ Volume(fat, Used(dir), {c.block : c \in creating})
    BY <1>7 DEF VolumeInv, FilesInv, FilesOK
  <2>2. NewName(creating, ic, Used(dir))
    BY <1>1 DEF NewName
  <2>3. Healthy' => FilesOK(fat, dir, ic, creating)
    BY <1>7, <2>1, <2>2 DEF FilesOK
  <2> QED
    BY <1>1, <1>7, <2>3, FilesStep
<1>8. ASSUME NEW k \in Hit(b), icache' = [icache EXCEPT ![k].names = @ \union {n}],
             harm' = IF icache[k].blocks = ListBlocks(fat, b) THEN harm
                     ELSE harm \union {"stale"}
      PROVE  FilesInv'
  <2> DEFINE i == [icache[k] EXCEPT !.names = icache[k].names \union {n}]
             ic == [icache EXCEPT ![k] = i]
  <2>1. k \in DOMAIN icache /\ icache[k].ino = b /\ icache[k] \in Inodes
    BY <1>0, <1>8 DEF Hit
  <2>2. First(icache[k]) = b
    BY <1>3, <2>1, BlockNumber
  <2>3. /\ i \in Inodes /\ i.names = icache[k].names \union {n}
        /\ i.ino = icache[k].ino /\ i.blocks = icache[k].blocks
    BY <2>1 DEF Inodes
  <2>4. ic = icache'
    BY <1>8
  <2>5. First(i) = b
    BY <2>2, <2>3 DEF First
  <2> HIDE DEF i
  <2>6. /\ ic \in Seq(Inodes) /\ DOMAIN ic = DOMAIN icache /\ ic[k] = i
        /\ \A l \in DOMAIN icache \ {k} : ic[l] = icache[l]
    BY <1>0, <2>1, <2>3
  <2>7. Healthy' => Healthy /\ icache[k].blocks = ListBlocks(fat, b)
    BY <1>8 DEF Healthy
  <2> HIDE DEF ic
  <2>8. ASSUME Healthy' PROVE Listed(ic, fat, Used(dir)) /\ NamesApart(ic)
    <3>1. Healthy /\ i.blocks = Chain(fat, b) /\ dir[s] \in Used(dir) /\ dir[s].name = n
      BY <1>4, <1>5, <2>3, <2>7, <2>8
    <3>2. \A m \in i.names : \E r \in Used(dir) :
            r.name = m /\ r.first = First(i) /\ i.blocks = Chain(fat, r.first)
      <4>1. \A m \in icache[k].names : \E r \in Used(dir) :
              r.name = m /\ r.first = First(i) /\ i.blocks = Chain(fat, r.first)
        BY <1>6, <2>1, <2>2, <2>3, <2>5, <3>1 DEF Listed
      <4> QED
        BY <2>3, <2>5, <3>1, <4>1
    <3>3. Listed(ic, fat, Used(dir))
      BY <1>6, <2>6, <3>1, <3>2 DEF Listed
    <3>4. NamesApart(ic)
      BY <1>1, <1>6, <2>3, <2>6, <3>1 DEF NamesApart
    <3> QED
      BY <3>3, <3>4
  <2> HIDE DEF b
  <2> QED
    BY <1>7, <2>4, <2>6, <2>7, <2>8
<1>9. ASSUME Ends(fat, b), UNCHANGED harm,
             icache' = <<Inode(b, {n}, ListBlocks(fat, b), "ANY")>> \o icache
      PROVE  FilesInv'
  <2> DEFINE i == Inode(b, {n}, ListBlocks(fat, b), "ANY")
             ic == <<i>> \o icache
  <2>1. i \in Inodes /\ i.ino = b /\ i.names = {n} /\ i.blocks = Chain(fat, b)
    <3>1. {n} \in SUBSET Names /\ "ANY" \in FileTypes \union {"ANY"}
      OBVIOUS
    <3> HIDE DEF b
    <3>2. /\ b \in Blocks \union {ZEROBLOCK} /\ ListBlocks(fat, b) \in Seq(Blocks)
          /\ ListBlocks(fat, b) = Chain(fat, b)
      BY <1>3, <1>5, <1>9
    <3>3. i \in Inodes /\ i.ino = b /\ i.names = {n} /\ i.blocks = ListBlocks(fat, b)
      BY <3>1, <3>2, InodeMade
    <3> QED
      BY <3>2, <3>3
  <2>2. First(i) = b
    BY <1>3, <2>1, BlockNumber
  <2>3. icache' = ic
    BY <1>9
  <2> HIDE DEF i, b
  <2>4. ic \in Seq(Inodes)
    BY <1>0, <2>1, Pushed
  <2>5. Healthy' => Healthy
    BY <1>9 DEF Healthy
  <2>6. ASSUME Healthy' PROVE Listed(ic, fat, Used(dir)) /\ NamesApart(ic)
    <3>1. \A m \in i.names :
            /\ \A k \in DOMAIN icache : m \notin icache[k].names
            /\ \E r \in Used(dir) : r.name = m /\ r.first = First(i)
                                    /\ i.blocks = Chain(fat, r.first)
      BY <1>1, <1>4, <2>1, <2>2, <2>5, <2>6 DEF b
    <3> QED
      BY <1>0, <1>6, <2>1, <2>5, <2>6, <3>1, PushedListed
  <2> HIDE DEF ic
  <2> QED
    BY <1>7, <2>3, <2>4, <2>5, <2>6
<1> QED
  BY <1>2, <1>8, <1>9

LEMMA FilesCreateAllocate ==
  ASSUME VolumeInv, Sound(fat'), NEW n \in Names, NEW ft \in FileTypes,
         CreateAllocate(n, ft)
  PROVE  FilesInv'
<1>0. /\ Sound(fat) /\ dir \in [Slots -> Records] /\ icache \in Seq(Inodes)
      /\ Used(dir) \in SUBSET Records /\ (Healthy => IsCompact(dir))
  BY HealthyFacts
<1>1. /\ creating = {} /\ (\A k \in DOMAIN icache : n \notin icache[k].names)
      /\ Found(dir, n) = {} /\ UNCHANGED <<dir, icache, harm>>
  BY DEF CreateAllocate, InCore
<1>2. PICK b \in FreeFor(ft) :
        /\ fat' = [fat EXCEPT ![b] = FILE_END]
        /\ creating' = {[name |-> n, block |-> b, ft |-> ft]}
  BY DEF CreateAllocate
<1>3. b \in Blocks /\ fat[b] = UNALLOCATED
  BY DEF FreeFor, Forward, Backward, Free
<1> DEFINE f == fat'
           c == [name |-> n, block |-> b, ft |-> ft]
<1>4. Sound(f) /\ f = Put(fat, b, FILE_END)
  BY <1>2 DEF Put
<1> HIDE DEF f
<1>5. ASSUME Healthy' PROVE FilesOK(f, dir, icache, {c})
  <2>1. /\ NamesOnce(dir) /\ Volume(fat, Used(dir), {e.block : e \in {}})
        /\ Listed(icache, fat, Used(dir)) /\ NamesApart(icache) /\ IsCompact(dir)
    <3>1. Healthy /\ creating = {}
      BY <1>1, <1>5 DEF Healthy
    <3>2. FilesOK(fat, dir, icache, creating) /\ IsCompact(dir)
      BY <1>0, <3>1 DEF VolumeInv, FilesInv
    <3> QED
      BY <3>1, <3>2 DEF FilesOK
  <2>2. Volume(fat, Used(dir), {})
    BY <2>1
  <2>3. Volume(f, Used(dir), {b}) /\ SameChains(fat, f, Used(dir))
    BY <1>0, <1>3, <1>4, <2>2, VolumeTake
  <2>4. Listed(icache, f, Used(dir))
    BY <2>1, <2>3, ListedSame
  <2>5. \A r \in Used(dir) : r.name # n
    BY <1>0, <1>1, <2>1, SearchByName
  <2>6. NewName({c}, icache, Used(dir))
    BY <1>1, <2>5 DEF NewName
  <2>7. {e.block : e \in {c}} = {b}
    OBVIOUS
  <2> QED
    BY <2>1, <2>3, <2>4, <2>6, <2>7 DEF FilesOK
<1> QED
  BY <1>0, <1>1, <1>2, <1>5, FilesStep DEF f

LEMMA FilesCreateEnter ==
  ASSUME VolumeInv, CreateEnter
  PROVE  FilesInv'
<1>0. /\ Sound(fat) /\ dir \in [Slots -> Records] /\ icache \in Seq(Inodes)
      /\ Used(dir) \in SUBSET Records
      /\ \A c \in creating : c.name \in Names /\ c.block \in Blocks /\ c.ft \in FileTypes
  BY HealthyFacts
<1>1. PICK c \in creating, s \in FirstFree(dir) :
        /\ dir' = [dir EXCEPT ![s] = [name |-> c.name, first |-> c.block, size |-> 1]]
        /\ icache' = <<NewInode(c, {c.name}, ListBlocks(fat, c.block))>> \o icache
        /\ creating' = {}
        /\ UNCHANGED <<fat, harm>>
  BY DEF CreateEnter
<1> DEFINE r == [name |-> c.name, first |-> c.block, size |-> 1]
           i == NewInode(c, {c.name}, ListBlocks(fat, c.block))
           d == [dir EXCEPT ![s] = r]
           ic == <<i>> \o icache
<1>2. c.name \in Names /\ c.name # NoName /\ c.block \in Blocks /\ c.ft \in FileTypes
  BY <1>0, VmuFatAssumption
<1>3. s \in Slots /\ IsFree(dir, s)
  BY DEF FirstFree
<1>4. /\ r \in Records /\ r.name = c.name /\ r.first = c.block /\ r.size = 1
  BY <1>2 DEF Records
<1>5. /\ i \in Inodes /\ i.names = {c.name} /\ First(i) = c.block
      /\ i.blocks = ListBlocks(fat, c.block)
  <2> DEFINE ino == IF c.block = 0 THEN ZEROBLOCK ELSE c.block
  <2>1. /\ ino \in Blocks \union {ZEROBLOCK} /\ {c.name} \in SUBSET Names
        /\ c.ft \in FileTypes \union {"ANY"} /\ ListBlocks(fat, c.block) \in Seq(Blocks)
    BY <1>0, <1>2, ListIsBlocks
  <2>2. ino # ZEROBLOCK => ino = c.block
    OBVIOUS
  <2>3. c.block # ZEROBLOCK
    BY <1>2, VmuFatAssumption DEF Blocks
  <2>4. (IF ino = ZEROBLOCK THEN 0 ELSE ino) = c.block
    BY <2>3
  <2>5. i = Inode(ino, {c.name}, ListBlocks(fat, c.block), c.ft)
    BY DEF NewInode
  <2> HIDE DEF ino, i
  <2>6. /\ i \in Inodes /\ i.ino = ino /\ i.names = {c.name}
        /\ i.blocks = ListBlocks(fat, c.block)
    BY <2>1, <2>5 DEF Inode, Inodes
  <2> QED
    BY <2>4, <2>6 DEF First
<1>6. dir' = d /\ icache' = ic /\ fat' = fat /\ creating' = {}
  BY <1>1
<1> HIDE DEF r, i
<1>7. ic \in Seq(Inodes)
  BY <1>0, <1>5, Pushed
<1> HIDE DEF ic, d
<1>8. ASSUME Healthy' PROVE FilesOK(fat, d, ic, {})
  <2>1. /\ NamesOnce(dir) /\ Volume(fat, Used(dir), {e.block : e \in creating})
        /\ Listed(icache, fat, Used(dir)) /\ NamesApart(icache)
        /\ NewName(creating, icache, Used(dir))
    BY <1>1, <1>8 DEF VolumeInv, FilesInv, FilesOK, Healthy
  <2>2. /\ \A e \in creating : e = c
        /\ \A k \in DOMAIN icache : c.name \notin icache[k].names
        /\ \A q \in Used(dir) : q.name # c.name
    BY <2>1 DEF NewName
  <2>3. {e.block : e \in creating} = {c.block}
    BY <2>2
  <2>4. Volume(fat, Used(dir), {c.block})
    BY <2>1, <2>3
  <2>5. Used(d) = Used(dir) \union {r} /\ NamesOnce(d)
    <3>1. r.name # NoName /\ \A q \in Used(dir) : q.name # r.name
      BY <1>2, <1>4, <2>2
    <3> QED
      BY <1>0, <1>3, <1>4, <2>1, <3>1, RecordEntered DEF d
  <2>6. /\ Volume(fat, Used(d), {}) /\ Chain(fat, c.block) = <<c.block>>
        /\ Ends(fat, c.block)
    <3>1. Volume(fat, Used(dir) \union {r}, {}) /\ Chain(fat, c.block) = <<c.block>>
      BY <1>0, <1>2, <1>4, <2>4, VolumeEnter
    <3>2. Ends(fat, c.block)
      BY <1>0, <1>2, <1>4, <2>4, VolumeEnter
    <3> QED
      BY <2>5, <3>1, <3>2
  <2>7. i.blocks = Chain(fat, c.block)
    BY <1>0, <1>2, <1>5, <2>6, ListIsBlocks
  <2>8. Listed(icache, fat, Used(d))
    BY <2>1, <2>5, ListedSame DEF SameChains
  <2>9. \A n \in i.names :
          /\ \A k \in DOMAIN icache : n \notin icache[k].names
          /\ \E q \in Used(d) : q.name = n /\ q.first = First(i) /\ i.blocks = Chain(fat, q.first)
    BY <1>4, <1>5, <2>2, <2>5, <2>7
  <2>10. Listed(ic, fat, Used(d)) /\ NamesApart(ic)
    BY <1>0, <1>5, <2>1, <2>8, <2>9, PushedListed DEF ic
  <2>11. NewName({}, ic, Used(d)) /\ {e.block : e \in {}} = {}
    BY DEF NewName
  <2> QED
    BY <2>5, <2>6, <2>10, <2>11 DEF FilesOK
<1> QED
  BY <1>6, <1>7, <1>8, FilesStep

LEMMA FilesCreateFull ==
  ASSUME VolumeInv, Sound(fat'), CreateFull
  PROVE  FilesInv'
<1>0. /\ Sound(fat) /\ dir \in [Slots -> Records] /\ icache \in Seq(Inodes)
      /\ Used(dir) \in SUBSET Records
      /\ \A c \in creating : c.name \in Names /\ c.block \in Blocks /\ c.ft \in FileTypes
  BY HealthyFacts
<1>1. PICK c \in creating :
        /\ fat' = [fat EXCEPT ![c.block] = UNALLOCATED]
        /\ icache' = <<NewInode(c, {}, <<>>)>> \o icache
        /\ creating' = {}
        /\ UNCHANGED <<dir, harm>>
  BY DEF CreateFull
<1> DEFINE f == fat'
           i == NewInode(c, {}, <<>>)
           ic == <<i>> \o icache
<1>2. i \in Inodes /\ i.names = {}
  <2>1. /\ (IF c.block = 0 THEN ZEROBLOCK ELSE c.block) \in Blocks \union {ZEROBLOCK}
        /\ c.ft \in FileTypes \union {"ANY"} /\ {} \in SUBSET Names /\ <<>> \in Seq(Blocks)
    BY <1>0
  <2> QED
    BY <2>1 DEF NewInode, Inode, Inodes
<1>3. Sound(f) /\ f = Put(fat, c.block, UNALLOCATED) /\ icache' = ic
  BY <1>1 DEF Put
<1> HIDE DEF f, i
<1>4. ic \in Seq(Inodes)
  BY <1>0, <1>2, Pushed
<1> HIDE DEF ic
<1>5. ASSUME Healthy' PROVE FilesOK(f, dir, ic, {})
  <2>1. /\ NamesOnce(dir) /\ Volume(fat, Used(dir), {e.block : e \in creating})
        /\ Listed(icache, fat, Used(dir)) /\ NamesApart(icache)
        /\ NewName(creating, icache, Used(dir))
    BY <1>1, <1>5 DEF VolumeInv, FilesInv, FilesOK, Healthy
  <2>2. {e.block : e \in creating} = {c.block}
    BY <2>1 DEF NewName
  <2>3. Volume(f, Used(dir), {}) /\ SameChains(fat, f, Used(dir))
    BY <1>0, <1>3, <2>1, <2>2, VolumeRelease
  <2>4. Listed(icache, f, Used(dir))
    BY <2>1, <2>3, ListedSame
  <2>5. Listed(ic, f, Used(dir)) /\ NamesApart(ic)
    BY <1>0, <1>2, <2>1, <2>4, PushedListed DEF ic
  <2>6. NewName({}, ic, Used(dir)) /\ {e.block : e \in {}} = {}
    BY DEF NewName
  <2> QED
    BY <2>1, <2>3, <2>5, <2>6 DEF FilesOK
<1> QED
  BY <1>1, <1>3, <1>4, <1>5, FilesStep DEF f

\* The one file of R that an inode in use, i, stands for.
StandsFor(i, n, r, f, R) ==
  /\ r.name = n /\ r.first = First(i)
  /\ i.blocks = Chain(f, First(i)) /\ Ends(f, First(i))
  /\ \A q \in R : q.first = First(i) => q = r
  /\ \A m \in i.names : m = n

LEMMA InUse ==
  ASSUME NEW f, Sound(f), NEW R \in SUBSET Records, NEW H, Volume(f, R, H),
         NEW ic, Listed(ic, f, R), NEW k \in DOMAIN ic, NEW n \in ic[k].names
  PROVE  \E r \in R : StandsFor(ic[k], n, r, f, R)
<1>1. PICK r \in R : r.name = n /\ r.first = First(ic[k]) /\ ic[k].blocks = Chain(f, r.first)
  BY DEF Listed
<1>2. \A q \in R : q.first = First(ic[k]) => q = r
  BY <1>1, FirstOnce
<1>3. Ends(f, r.first)
  BY DEF Volume, Whole
<1>4. ASSUME NEW m \in ic[k].names PROVE m = n
  <2>1. PICK q \in R : q.name = m /\ q.first = First(ic[k])
    BY DEF Listed
  <2> QED
    BY <1>1, <1>2, <2>1
<1> QED
  BY <1>1, <1>2, <1>3, <1>4 DEF StandsFor

\* What a write finds is a free block of the volume.
LEMMA NextIsFree ==
  ASSUME NEW i, NEW nxt \in NextBlock(i)
  PROVE  nxt \in Blocks /\ fat[nxt] = UNALLOCATED
<1>1. \A ft : \A b \in FreeFor(ft) : b \in Blocks /\ fat[b] = UNALLOCATED
  BY DEF FreeFor, Forward, Backward, Free
<1>2. \A b \in Forward : b \in Blocks /\ fat[b] = UNALLOCATED
  BY DEF Forward, Free
<1> QED
  BY <1>1, <1>2 DEF NextBlock

LEMMA FilesExtend ==
  ASSUME VolumeInv, Sound(fat'), NEW k \in DOMAIN icache, Extend(k)
  PROVE  FilesInv'
<1>0. /\ Sound(fat) /\ dir \in [Slots -> Records] /\ icache \in Seq(Inodes)
      /\ Used(dir) \in SUBSET Records /\ icache[k] \in Inodes
      /\ \A c \in creating : c.block \in Blocks
  BY HealthyFacts
<1>1. /\ harm' = IF icache[k].names # {} THEN harm ELSE harm \union {"late"}
      /\ creating' = creating
  BY DEF Extend
<1>2. PICK nxt \in NextBlock(icache[k]) :
        /\ fat' = Linked(Last(icache[k].blocks), nxt)
        /\ dir' = Grown(First(icache[k]))
        /\ icache' = [icache EXCEPT ![k].blocks = ListBlocks(fat', First(icache[k]))]
  BY DEF Extend
<1> DEFINE f == fat'
           b == First(icache[k])
           i == [icache[k] EXCEPT !.blocks = ListBlocks(f, b)]
           ic == [icache EXCEPT ![k] = i]
<1>3. b \in Blocks /\ nxt \in Blocks /\ fat[nxt] = UNALLOCATED
  BY <1>0, FirstIsBlock, NextIsFree
<1>4. Sound(f) /\ f = Joined(fat, Last(icache[k].blocks), nxt)
  BY <1>2 DEF Linked, Joined
<1>5. icache' = ic
  BY <1>2
<1>6. dir' = Grown(b)
  BY <1>2
<1> HIDE DEF f, b
<1>7. ListBlocks(f, b) \in Seq(Blocks) /\ (Ends(f, b) => ListBlocks(f, b) = Chain(f, b))
  BY <1>3, <1>4, ListIsBlocks
<1>8. /\ i \in Inodes /\ i.names = icache[k].names /\ i.ino = icache[k].ino
      /\ i.blocks = ListBlocks(f, b)
  BY <1>0, <1>7 DEF Inodes
<1>9. First(i) = b
  BY <1>8 DEF b, First
<1> HIDE DEF i
<1>10. /\ ic \in Seq(Inodes) /\ DOMAIN ic = DOMAIN icache /\ ic[k] = i
       /\ \A l \in DOMAIN icache \ {k} : ic[l] = icache[l]
  BY <1>0, <1>8
<1> HIDE DEF ic
<1>11. ASSUME Healthy' PROVE FilesOK(f, Grown(b), ic, creating)
  <2> DEFINE H == {e.block : e \in creating}
             R == Used(dir)
  <2>1. Healthy /\ icache[k].names # {}
    BY <1>1, <1>11 DEF Healthy
  <2>2. /\ NamesOnce(dir) /\ Volume(fat, R, H) /\ Listed(icache, fat, R)
        /\ NamesApart(icache) /\ NewName(creating, icache, R)
    BY <2>1 DEF VolumeInv, FilesInv, FilesOK
  <2>3. R \in SUBSET Records /\ H \in SUBSET Blocks
    BY <1>0
  <2> HIDE DEF H
  <2>4. PICK n \in icache[k].names : TRUE
    BY <2>1
  <2>5. PICK r \in R : /\ r.name = n /\ r.first = b
                       /\ icache[k].blocks = Chain(fat, b)
                       /\ \A q \in R : q.first = b => q = r
                       /\ \A m \in icache[k].names : m = n
    <3> HIDE DEF R
    <3>1. PICK r \in R : StandsFor(icache[k], n, r, fat, R)
      BY <1>0, <2>2, <2>3, InUse
    <3> QED
      BY <3>1 DEF b, StandsFor
  <2> DEFINE p == [r EXCEPT !.size = r.size + 1]
             Q == (R \ {r}) \union {p}
  <2>6. /\ Used(Grown(b)) = Q /\ NamesOnce(Grown(b))
        /\ p \in Records /\ p.name = r.name /\ p.first = r.first /\ p.size = r.size + 1
    <3>1. DirOK
      BY DEF VolumeInv, DirInv
    <3>2. \A q \in R : q.first = r.first => q = r
      BY <2>5
    <3> QED
      BY <2>2, <2>5, <3>1, <3>2, RecordGrown
  <2> HIDE DEF R, p
  <2>7. f = Joined(fat, Last(Chain(fat, r.first)), nxt)
    BY <1>4, <2>5
  <2>8. Volume(f, Q, H) /\ SameChains(fat, f, R \ {r}) /\ Ends(f, r.first)
    BY <1>0, <1>3, <1>4, <2>2, <2>3, <2>6, <2>7, VolumeGrow
  <2>9. i.blocks = Chain(f, b)
    BY <1>7, <1>8, <2>5, <2>8
  <2>10. OthersAre(icache, k, f, Q)
    <3>1. R \ {r} \subseteq Q /\ r.name \in icache[k].names
      BY <2>5
    <3> HIDE DEF Q
    <3> QED
      BY <2>2, <2>8, <3>1, OthersListed
  <2>11. \A m \in i.names : \E q \in Q : q.name = m /\ q.first = First(i)
                                         /\ i.blocks = Chain(f, q.first)
    BY <1>8, <1>9, <2>5, <2>6, <2>9
  <2>12. \A q \in Q : \E t \in R : q.name = t.name
    BY <2>6
  <2> HIDE DEF Q
  <2>13. Listed(ic, f, Q)
    BY <1>10, <2>10, <2>11 DEF Listed, OthersAre
  <2>14. \A l \in DOMAIN ic : ic[l].names = icache[l].names
    BY <1>8, <1>10
  <2>15. NamesApart(ic)
    BY <1>10, <2>2, <2>14 DEF NamesApart
  <2>16. NewName(creating, ic, Q)
    BY <1>10, <2>2, <2>12, <2>14 DEF NewName
  <2> QED
    BY <2>6, <2>8, <2>13, <2>15, <2>16 DEF FilesOK, H
<1> QED
  BY <1>1, <1>5, <1>6, <1>10, <1>11, FilesStep DEF f

LEMMA FilesUnlink ==
  ASSUME VolumeInv, Sound(fat'), NEW n \in Names, NEW held \in BOOLEAN, Unlink(n, held)
  PROVE  FilesInv'
<1>0. /\ Sound(fat) /\ dir \in [Slots -> Records] /\ icache \in Seq(Inodes)
      /\ Used(dir) \in SUBSET Records /\ (Healthy => IsCompact(dir))
      /\ \A k \in DOMAIN icache : icache[k] \in Inodes
  BY HealthyFacts
<1>1. creating = {} /\ creating' = {}
  BY DEF Unlink
<1>2. PICK k \in DOMAIN icache :
        LET b == First(icache[k])
            found == IF Ends(fat, b) THEN FoundFirst(dir, b) ELSE {}
        IN  /\ n \in icache[k].names
            /\ fat' = CleanFat(b)
            /\ dir' = IF found = {} THEN dir ELSE Compact(CHOOSE s \in found : TRUE)
            /\ icache' = [icache EXCEPT ![k].names = @ \ {n}, ![k].open = held]
            /\ harm' = IF \E s \in found : LeavesHole(s) THEN harm \union {"hole"}
                       ELSE harm
  BY DEF Unlink
<1> DEFINE b == First(icache[k])
           f == fat'
           d == dir'
           found == IF Ends(fat, b) THEN FoundFirst(dir, b) ELSE {}
           i == [icache[k] EXCEPT !.names = icache[k].names \ {n}, !.open = held]
           ic == [icache EXCEPT ![k] = i]
<1>3. /\ n \in icache[k].names /\ f = CleanFat(b)
      /\ d = IF found = {} THEN dir ELSE Compact(CHOOSE s \in found : TRUE)
      /\ harm' = IF \E s \in found : LeavesHole(s) THEN harm \union {"hole"} ELSE harm
  BY <1>2
<1>4. icache' = ic
  BY <1>2
<1>5. b \in Blocks /\ icache[k] \in Inodes
  BY <1>0, FirstIsBlock
<1> HIDE DEF b, f, d, found
<1>6. /\ i \in Inodes /\ i.names = icache[k].names \ {n} /\ i.ino = icache[k].ino
      /\ i.blocks = icache[k].blocks
  BY <1>5 DEF Inodes
<1>7. First(i) = b
  BY <1>6 DEF b, First
<1> HIDE DEF i
<1>8. /\ ic \in Seq(Inodes) /\ DOMAIN ic = DOMAIN icache /\ ic[k] = i
      /\ \A l \in DOMAIN icache \ {k} : ic[l] = icache[l]
  BY <1>0, <1>6
<1> HIDE DEF ic
<1>9. ASSUME Healthy' PROVE FilesOK(f, d, ic, {})
  <2> DEFINE R == Used(dir)
  <2>1. Healthy /\ \A s \in found : ~LeavesHole(s)
    BY <1>3, <1>9 DEF Healthy
  <2>2. /\ NamesOnce(dir) /\ Volume(fat, R, {}) /\ Listed(icache, fat, R)
        /\ NamesApart(icache) /\ IsCompact(dir)
    <3>1. FilesOK(fat, dir, icache, creating) /\ IsCompact(dir)
      BY <1>0, <2>1 DEF VolumeInv, FilesInv
    <3>2. {e.block : e \in creating} = {}
      BY <1>1
    <3> QED
      BY <3>1, <3>2 DEF FilesOK
  <2> HIDE DEF R
  <2>3. PICK r \in R : /\ r.name = n /\ r.first = b
                       /\ icache[k].blocks = Chain(fat, b) /\ Ends(fat, b)
                       /\ \A q \in R : q.first = b => q = r
                       /\ \A m \in icache[k].names : m = n
    <3>1. R \in SUBSET Records
      BY <1>0 DEF R
    <3>2. PICK r \in R : StandsFor(icache[k], n, r, fat, R)
      BY <1>0, <1>3, <2>2, <3>1, InUse
    <3> QED
      BY <3>2 DEF b, StandsFor
  <2>4. found # {} /\ \A s \in found : s \in Slots /\ ~IsFree(dir, s) /\ dir[s] = r
    <3>1. \A q \in Used(dir) : q.first = r.first => q = r
      BY <2>3 DEF R
    <3>2. /\ FoundFirst(dir, r.first) # {}
          /\ \A s \in FoundFirst(dir, r.first) : s \in Slots /\ ~IsFree(dir, s) /\ dir[s] = r
      BY <1>0, <2>2, <3>1, SearchByFirst DEF R
    <3> QED
      BY <2>3, <3>2 DEF found
  <2>5. PICK s \in found : d = Compact(s)
    BY <1>3, <2>4
  <2>6. Used(d) = R \ {r} /\ NamesOnce(d)
    <3>1. DirOK
      BY DEF VolumeInv, DirInv
    <3>2. s \in Slots /\ ~IsFree(dir, s) /\ ~LeavesHole(s) /\ dir[s] = r
      BY <2>1, <2>4
    <3>3. Used(Compact(s)) = Used(dir) \ {dir[s]} /\ NamesOnce(Compact(s))
      BY <2>2, <3>1, <3>2, RecordErased
    <3> QED
      BY <2>5, <3>2, <3>3 DEF R
  <2>7. \A x \in Blocks : f[x] = IF x \in BlocksAt(fat, r) THEN UNALLOCATED ELSE fat[x]
    BY <1>3, <2>3 DEF CleanFat, BlocksAt
  <2>8. Volume(f, R \ {r}, {}) /\ SameChains(fat, f, R \ {r})
    <3>1. Sound(f)
      BY DEF f
    <3> QED
      BY <1>0, <2>2, <2>7, <3>1, VolumeErase DEF R
  <2>9. OthersAre(icache, k, f, R \ {r})
    <3>1. r.name \in icache[k].names
      BY <1>3, <2>3
    <3> QED
      BY <2>2, <2>8, <3>1, OthersListed
  <2>10. i.names = {}
    BY <1>6, <2>3
  <2>11. Listed(ic, f, Used(d))
    BY <1>8, <2>6, <2>9, <2>10 DEF Listed, OthersAre
  <2>12. \A l \in DOMAIN ic : ic[l].names \subseteq icache[l].names
    BY <1>8, <2>10
  <2>13. NamesApart(ic)
    BY <1>8, <2>2, <2>12 DEF NamesApart
  <2>14. NewName({}, ic, Used(d)) /\ {e.block : e \in {}} = {}
    BY DEF NewName
  <2>15. Volume(f, Used(d), {e.block : e \in {}})
    BY <2>6, <2>8, <2>14
  <2> QED
    BY <2>6, <2>11, <2>13, <2>14, <2>15 DEF FilesOK
<1> QED
  BY <1>1, <1>4, <1>8, <1>9, FilesStep DEF f, d

LEMMA FilesClose ==
  ASSUME VolumeInv, NEW k \in DOMAIN icache, Close(k)
  PROVE  FilesInv'
<1>0. icache \in Seq(Inodes) /\ icache[k] \in Inodes
  BY HealthyFacts
<1>1. /\ icache' = [icache EXCEPT ![k].open = FALSE]
      /\ UNCHANGED <<fat, dir, creating, harm>>
  BY DEF Close
<1> DEFINE i == [icache[k] EXCEPT !.open = FALSE]
           ic == [icache EXCEPT ![k] = i]
<1>2. i \in Inodes /\ i.names = icache[k].names /\ i.ino = icache[k].ino /\ i.blocks = icache[k].blocks
  BY <1>0 DEF Inodes
<1>3. icache' = ic
  BY <1>1
<1> HIDE DEF i
<1>4. /\ ic \in Seq(Inodes) /\ DOMAIN ic = DOMAIN icache
      /\ \A l \in DOMAIN icache : /\ ic[l].names = icache[l].names
                                  /\ First(ic[l]) = First(icache[l])
                                  /\ ic[l].blocks = icache[l].blocks
  BY <1>0, <1>2 DEF First
<1> HIDE DEF ic
<1>5. ASSUME Healthy' PROVE FilesOK(fat, dir, ic, creating)
  <2>1. /\ NamesOnce(dir) /\ Volume(fat, Used(dir), {e.block : e \in creating})
        /\ Listed(icache, fat, Used(dir)) /\ NamesApart(icache)
        /\ NewName(creating, icache, Used(dir))
    BY <1>1, <1>5 DEF VolumeInv, FilesInv, FilesOK, Healthy
  <2>2. Listed(ic, fat, Used(dir))
    BY <1>4, <2>1 DEF Listed
  <2>3. NamesApart(ic) /\ NewName(creating, ic, Used(dir))
    BY <1>4, <2>1 DEF NamesApart, NewName
  <2> QED
    BY <2>1, <2>2, <2>3 DEF FilesOK
<1> QED
  BY <1>1, <1>3, <1>4, <1>5, FilesStep

LEMMA FilesEvict ==
  ASSUME VolumeInv, NEW k \in DOMAIN icache, Evict(k)
  PROVE  FilesInv'
<1>0. icache \in Seq(Inodes)
  BY HealthyFacts
<1> DEFINE ic == RemoveAt(icache, k)
<1>1. icache' = ic /\ UNCHANGED <<fat, dir, creating, harm>>
  BY DEF Evict
<1>2. ic \in Seq(Inodes)
  BY <1>0, Dropped
<1> HIDE DEF ic
<1>3. ASSUME Healthy' PROVE FilesOK(fat, dir, ic, creating)
  <2>1. /\ NamesOnce(dir) /\ Volume(fat, Used(dir), {e.block : e \in creating})
        /\ Listed(icache, fat, Used(dir)) /\ NamesApart(icache)
        /\ NewName(creating, icache, Used(dir))
    BY <1>1, <1>3 DEF VolumeInv, FilesInv, FilesOK, Healthy
  <2>2. Listed(ic, fat, Used(dir)) /\ NamesApart(ic) /\ NewName(creating, ic, Used(dir))
    BY <1>0, <2>1, DroppedListed DEF ic
  <2> QED
    BY <2>1, <2>2 DEF FilesOK
<1> QED
  BY <1>1, <1>2, <1>3, FilesStep

LEMMA FilesInvInit == Init => FilesInv
<1> SUFFICES ASSUME Init PROVE FilesInv
  OBVIOUS
<1>1. icache = <<>> /\ creating = {} /\ CacheOK
  BY DEF Init, CacheOK
<1>2. \A s \in Slots : IsFree(dir, s)
  BY EmptyRecord DEF Init, IsFree
<1>3. Used(dir) = {} /\ NamesOnce(dir)
  BY <1>2 DEF Used, NamesOnce
<1>4. fat[System] = FILE_END /\ \A b \in Blocks : fat[b] # UNALLOCATED => b = System
  BY SystemNat DEF Init
<1>5. Volume(fat, Used(dir), {e.block : e \in creating})
  BY <1>1, <1>3, <1>4 DEF Volume
<1>6. Listed(icache, fat, Used(dir)) /\ NamesApart(icache) /\ NewName(creating, icache, Used(dir))
  BY <1>1 DEF Listed, NamesApart, NewName
<1> QED
  BY <1>1, <1>3, <1>5, <1>6 DEF FilesInv, FilesOK

LEMMA FilesInvNext == VolumeInv /\ [Next]_vars => FilesInv'
<1> SUFFICES ASSUME VolumeInv, [Next]_vars PROVE FilesInv'
  OBVIOUS
<1>0. Sound(fat')
  <2>1. FatInv'
    BY FatInvNext DEF VolumeInv
  <2> QED
    BY <2>1 DEF FatInv, FatOK, WalksEnd, FatType, NoCircle, Sound
<1>1. ASSUME UNCHANGED vars PROVE FilesInv'
  BY <1>1 DEF VolumeInv, FilesInv, vars, CacheOK, Healthy
<1> QED
  BY <1>0, <1>1, FilesLookup, FilesCreateAllocate, FilesCreateEnter, FilesCreateFull,
     FilesExtend, FilesUnlink, FilesClose, FilesEvict DEF Next

\* The whole invariant holds of every reachable state.
THEOREM VolumeInvHolds == Spec => []VolumeInv
<1>1. Init => VolumeInv
  BY FatInvInit, DirInvInit, FilesInvInit DEF VolumeInv
<1>2. VolumeInv /\ [Next]_vars => VolumeInv'
  BY FatInvNext, DirInvNext, FilesInvNext DEF VolumeInv
<1> QED
  BY <1>1, <1>2, PTL DEF Spec

\* Records of files and their places.
LEMMA FilesAreUsed ==
  ASSUME NamesOnce(dir)
  PROVE  /\ \A s \in Files : dir[s] \in Used(dir) /\ BlocksOf(s) = BlocksAt(fat, dir[s])
         /\ \A r \in Used(dir) : \E s \in Files : r = dir[s]
         /\ \A s, t \in Files : s # t => dir[s] # dir[t]
<1>1. \A s \in Files : s \in Slots /\ ~IsFree(dir, s)
  BY DEF Files
<1>2. \A s, t \in Files : s # t => dir[s] # dir[t]
  BY <1>1 DEF NamesOnce
<1> QED
  BY <1>2 DEF Files, Used, BlocksOf, BlocksAt

\* For volumes and directories of every size: until something has gone wrong no
\* block belongs to two files, and every chain runs to its end mark.
THEOREM ChainsDisjointHolds == Spec => []ChainsDisjoint
<1>1. VolumeInv => ChainsDisjoint
  <2> SUFFICES ASSUME VolumeInv, Healthy
               PROVE  /\ \A s \in Files : Ends(fat, dir[s].first)
                      /\ \A s, t \in Files : s # t => BlocksOf(s) \intersect BlocksOf(t) = {}
    BY DEF ChainsDisjoint
  <2>1. NamesOnce(dir) /\ Volume(fat, Used(dir), {c.block : c \in creating})
    BY DEF VolumeInv, FilesInv, FilesOK
  <2> QED
    BY <2>1, FilesAreUsed DEF Volume, Whole
<1> QED
  BY <1>1, VolumeInvHolds, PTL

\* Until something has gone wrong a record's size is the length of its chain.
THEOREM SizeIsLengthHolds == Spec => []SizeIsLength
<1>1. VolumeInv => SizeIsLength
  <2> SUFFICES ASSUME VolumeInv, Healthy
               PROVE  \A s \in Files : dir[s].size = Len(Chain(fat, dir[s].first))
    BY DEF SizeIsLength
  <2>1. NamesOnce(dir) /\ Volume(fat, Used(dir), {c.block : c \in creating})
    BY DEF VolumeInv, FilesInv, FilesOK
  <2> QED
    BY <2>1, FilesAreUsed DEF Volume, Whole
<1> QED
  BY <1>1, VolumeInvHolds, PTL

\* Until something has gone wrong every block that is not free is a file's or is
\* held by a creation: what unlink and failed creations took is free again.
THEOREM NoLeakHolds == Spec => []NoLeak
<1>1. VolumeInv => NoLeak
  <2> DEFINE H == {c.block : c \in creating}
             U == UNION {BlocksOf(s) : s \in Files}
  <2> SUFFICES ASSUME VolumeInv, Healthy
               PROVE  {b \in Blocks : fat[b] # UNALLOCATED} = {System} \union U \union H
    BY DEF NoLeak
  <2>1. NamesOnce(dir) /\ Volume(fat, Used(dir), H)
    BY DEF VolumeInv, FilesInv, FilesOK
  <2>2. /\ Sound(fat) /\ Used(dir) \in SUBSET Records
        /\ \A h \in H : h \in Blocks
    BY HealthyFacts
  <2>3. \A b \in U : b \in Blocks /\ fat[b] # UNALLOCATED
    <3>1. \A r \in Used(dir) : \A x \in BlocksAt(fat, r) : x \in Blocks /\ fat[x] # UNALLOCATED
      BY <2>1, <2>2, VolumeTaken
    <3> QED
      BY <2>1, <3>1, FilesAreUsed
  <2>4. \A r \in Used(dir) : BlocksAt(fat, r) \subseteq U
    BY <2>1, FilesAreUsed
  <2> HIDE DEF H, U
  <2>5. \A b \in {System} \union H : b \in Blocks /\ fat[b] # UNALLOCATED
    BY <2>1, <2>2, SystemNat DEF Volume, UNALLOCATED, FILE_END
  <2>6. \A b \in Blocks : fat[b] # UNALLOCATED => b \in {System} \union U \union H
    BY <2>1, <2>4 DEF Volume
  <2> QED
    BY <2>3, <2>5, <2>6
<1> QED
  BY <1>1, VolumeInvHolds, PTL

\* Until something has gone wrong the block list of an inode in use is the chain
\* of the one record with its name: what it reads and writes is its file.
THEOREM InCoreExactHolds == Spec => []InCoreExact
<1>1. VolumeInv => InCoreExact
  <2> SUFFICES ASSUME VolumeInv, Healthy, NEW k \in DOMAIN icache, NEW n \in icache[k].names
               PROVE  \E s \in Found(dir, n) :
                        /\ dir[s].first = First(icache[k])
                        /\ icache[k].blocks = Chain(fat, dir[s].first)
    BY DEF InCoreExact
  <2>1. NamesOnce(dir) /\ Listed(icache, fat, Used(dir))
    BY DEF VolumeInv, FilesInv, FilesOK
  <2>2. dir \in [Slots -> Records] /\ IsCompact(dir)
    BY HealthyFacts
  <2>3. PICK r \in Used(dir) : /\ r.name = n /\ r.first = First(icache[k])
                               /\ icache[k].blocks = Chain(fat, r.first)
    BY <2>1 DEF Listed
  <2>4. PICK s \in Found(dir, n) : dir[s] = r
    BY <2>1, <2>2, <2>3, SearchByName
  <2> QED
    BY <2>3, <2>4
<1> QED
  BY <1>1, VolumeInvHolds, PTL
=============================================================================
