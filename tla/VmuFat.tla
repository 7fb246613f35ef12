------------------------------- MODULE VmuFat -------------------------------
(***************************************************************************)
(* The vmufat file system (fs/vmufat/inode.c and super.c, patches 0005 and *)
(* 0035): the FAT, the one directory, and the inodes in memory, with their *)
(* private copies of the block lists, that the VFS keeps after the last    *)
(* use and, because unlink leaves their link count alone, even after they  *)
(* were unlinked.                                                          *)
(*                                                                         *)
(* The VFS holds the directory's lock over create and unlink and shares it *)
(* among lookups, and holds a file's own lock over writes to it; the       *)
(* driver's mutex guards the FAT and the directory.  Writes to one file so *)
(* run between the two halves of the creation of another.                  *)
(***************************************************************************)
EXTENDS Integers, FiniteSets, SequencesExt

CONSTANTS
  Names, NoName,
  NumBlocks,   \* numblocks: the blocks files are given
  Hidden,      \* blocks from numblocks on that are free all the same
  PerBlock,    \* VMU_DIR_ENTRIES_PER_BLOCK
  DirLen,      \* dir_len
  MaxInodes    \* bound: inodes in memory

ZEROBLOCK == 65536

\* The FAT's entries have 16 bits: a block's number is below ZEROBLOCK.
ASSUME VmuFatAssumption ==
  /\ NoName \notin Names
  /\ NumBlocks \in Nat \ {0} /\ Hidden \in Nat
  /\ NumBlocks + Hidden < ZEROBLOCK
  /\ PerBlock \in Nat \ {0} /\ DirLen \in Nat \ {0}
  /\ MaxInodes \in Nat

VARIABLES
  fat,       \* the FAT
  dir,       \* the directory's records
  icache,    \* the inodes in memory, those hashed last first
  creating,  \* a creation whose block is allocated and has no record yet
  harm       \* history: what has happened that the driver does not stand

vars == <<fat, dir, icache, creating, harm>>

Blocks == 0..(NumBlocks + Hidden)   \* the last stands for FAT, directory, root
System == NumBlocks + Hidden
UNALLOCATED == -1
FILE_END == -2
FileTypes == {"GAME", "DATA"}

Slots == 0..(PerBlock * DirLen - 1)
Records == [name : Names \union {NoName}, first : Blocks, size : Nat]
Empty == [name |-> NoName, first |-> 0, size |-> 0]
IsFree(d, s) == d[s].name = NoName

\* An inode has the number of its first block, and ZEROBLOCK for block 0.
First(i) == IF i.ino = ZEROBLOCK THEN 0 ELSE i.ino

Init ==
  /\ fat = [b \in Blocks |-> IF b = System THEN FILE_END ELSE UNALLOCATED]
  /\ dir = [s \in Slots |-> Empty]
  /\ icache = <<>>
  /\ creating = {}
  /\ harm = {}

-----------------------------------------------------------------------------
(* The FAT.                                                                *)

\* Fault: the last block of a file is taken for a free one.
FreeOrLast == {b \in Blocks : fat[b] \in {UNALLOCATED, FILE_END} /\ b < NumBlocks}
Free == {b \in Blocks : fat[b] = UNALLOCATED /\ b < NumBlocks}
Forward == {b \in Free : \A c \in Free : b <= c}
Backward == {b \in Free : \A c \in Free : b >= c}
FreeFor(ft) ==
  CASE ft = "GAME" -> Forward
    [] ft = "DATA" -> Backward
    [] OTHER -> Forward \union Backward

\* The blocks a walk from b meets, as many as the volume has at most.
Chain(f, b) ==
  LET walk[k \in 0..System] ==
        IF k = 0 THEN <<b>>
        ELSE LET c == walk[k - 1]
             IN  IF f[Last(c)] \in Blocks THEN Append(c, f[Last(c)]) ELSE c
  IN  walk[System]
Ends(f, b) == f[Last(Chain(f, b))] = FILE_END
ListBlocks(f, b) == IF Ends(f, b) THEN Chain(f, b) ELSE <<>>

\* The FAT after the chain of b has been freed, up to where it breaks off.
CleanFat(b) ==
  [c \in Blocks |-> IF c \in ToSet(Chain(fat, b)) THEN UNALLOCATED ELSE fat[c]]

-----------------------------------------------------------------------------
(* The directory.                                                          *)

\* Searches end at the first empty record.
Before(d, s) == \A t \in Slots : t < s => ~IsFree(d, t)
Found(d, n) ==
  {s \in Slots : /\ d[s].name = n /\ Before(d, s)
                 /\ \A t \in Slots : t < s => d[t].name # n}
FoundFirst(d, b) ==
  {s \in Slots : /\ ~IsFree(d, s) /\ d[s].first = b /\ Before(d, s)
                 /\ \A t \in Slots : t < s => d[t].first # b}
FirstFree(d) == {s \in Slots : IsFree(d, s) /\ Before(d, s)}
NextFree(d, s) ==
  {e \in Slots : /\ e > s /\ IsFree(d, e)
                 /\ \A t \in Slots : s < t /\ t < e => ~IsFree(d, t)}

\* The record before an index of the block's buffer, which for the first
\* record lies in the block below on the medium: the next one of the
\* directory, or a block of the volume whose end is taken to be zero.
Preceding(e) ==
  IF e % PerBlock # 0 THEN {e - 1} ELSE {e + 2 * PerBlock - 1} \intersect Slots

\* Fault: the record is cleared and nothing put in its place.
ClearOnly(s) == [dir EXCEPT ![s] = Empty]

\* Clear record s and move the final record there.
Compact(s) ==
  LET cleared == [dir EXCEPT ![s] = Empty]
      final == UNION {Preceding(e) : e \in NextFree(cleared, s)}
      move(t) == [cleared EXCEPT ![s] = cleared[t], ![t] = Empty]
  IN  IF final = {} THEN cleared ELSE move(CHOOSE t \in final : TRUE)

\* The removals after which an empty record is left among the others.
LeavesHole(s) ==
  LET next == NextFree([dir EXCEPT ![s] = Empty], s)
  IN  IF next = {} THEN s + 1 \in Slots
      ELSE \E e \in next : e % PerBlock = 0 /\ e # s + 1

-----------------------------------------------------------------------------
(* Inodes in memory.                                                       *)

InCore == UNION {icache[k].names : k \in DOMAIN icache}
Hit(b) ==
  {k \in DOMAIN icache : /\ icache[k].ino = b
                         /\ \A l \in DOMAIN icache : l < k => icache[l].ino # b}
Inode(ino, names, blocks, ft) ==
  [ino |-> ino, names |-> names, open |-> FALSE, blocks |-> blocks, ft |-> ft]
Room == Len(icache) < MaxInodes

\* vmufat_inode_lookup and vmufat_get_inode, for a name that has no dentry.
\* An inode is found in memory by its first block alone.
Lookup(n) ==
  /\ creating = {} /\ n \notin InCore
  /\ \E s \in Found(dir, n) :
       LET b == dir[s].first
       IN  \/ \E k \in Hit(b) :
                /\ icache' = [icache EXCEPT ![k].names = @ \union {n}]
                /\ harm' = IF icache[k].blocks = ListBlocks(fat, b) THEN harm
                           ELSE harm \union {"stale"}
           \/ /\ Hit(b) = {} /\ Room /\ Ends(fat, b)
              /\ icache' = <<Inode(b, {n}, ListBlocks(fat, b), "ANY")>> \o icache
              /\ UNCHANGED harm
  /\ UNCHANGED <<fat, dir, creating>>

\* The first half of vmufat_inode_create: a block is taken.  An executable is
\* put in block 0 if that is free.
CreateAllocate(n, ft) ==
  /\ creating = {} /\ Room
  /\ n \notin InCore /\ Found(dir, n) = {}
  /\ \E b \in FreeFor(ft) :
       /\ fat' = [fat EXCEPT ![b] = FILE_END]
       /\ creating' = {[name |-> n, block |-> b, ft |-> ft]}
  /\ UNCHANGED <<dir, icache, harm>>

NewInode(c, names, blocks) ==
  Inode(IF c.block = 0 THEN ZEROBLOCK ELSE c.block, names, blocks, c.ft)

\* The second half: the first empty record becomes the file's.
CreateEnter ==
  \E c \in creating, s \in FirstFree(dir) :
    /\ dir' = [dir EXCEPT ![s] = [name |-> c.name, first |-> c.block, size |-> 1]]
    /\ icache' = <<NewInode(c, {c.name}, ListBlocks(fat, c.block))>> \o icache
    /\ creating' = {}
    /\ UNCHANGED <<fat, harm>>

\* Fault: the block stays allocated.
CreateFullLeaks ==
  \E c \in creating :
    /\ FirstFree(dir) = {}
    /\ icache' = <<NewInode(c, {}, <<>>)>> \o icache
    /\ creating' = {}
    /\ UNCHANGED <<fat, dir, harm>>

\* The directory is full: the block is freed again, and the inode, already
\* hashed, stays in memory without a list.
CreateFull ==
  \E c \in creating :
    /\ FirstFree(dir) = {}
    /\ fat' = [fat EXCEPT ![c.block] = UNALLOCATED]
    /\ icache' = <<NewInode(c, {}, <<>>)>> \o icache
    /\ creating' = {}
    /\ UNCHANGED <<dir, harm>>

\* vmufat_get_block: the block that follows the last.  A file that starts in
\* block 0 is laid out in sequence where it can be, if its inode was read
\* from the medium: one that was created is known as ZEROBLOCK, until unlink
\* sets its number, though not its place in the hash table, to 0.
NextBlock(i) ==
  LET zero == i.ino = 0 \/ (i.ino = ZEROBLOCK /\ i.names = {})
      next == {b \in Blocks : b = Last(i.blocks) + 1 /\ fat[b] = UNALLOCATED}
  IN  CASE ~zero -> FreeFor(i.ft)
        [] zero /\ next # {} -> next
        [] OTHER -> Forward

\* Fault: a file in block 0 is looked for under its inode's number.
GrownUnlessZero(b) ==
  [s \in Slots |->
    IF ~IsFree(dir, s) /\ dir[s].first = b /\ b # 0
    THEN [dir[s] EXCEPT !.size = @ + 1] ELSE dir[s]]

\* vmufat_increment_filesize: of the record with the file's first block.
Grown(b) ==
  [s \in Slots |->
    IF /\ ~IsFree(dir, s) /\ dir[s].first = b
       /\ \A t \in Slots : t < s /\ ~IsFree(dir, t) => dir[t].first # b
    THEN [dir[s] EXCEPT !.size = @ + 1] ELSE dir[s]]

\* Fault: the end is marked first.
LinkedEndFirst(fin, nxt) == [[fat EXCEPT ![nxt] = FILE_END] EXCEPT ![fin] = nxt]

\* The last block of a chain points at the next, which then ends it.
Linked(fin, nxt) == [[fat EXCEPT ![fin] = nxt] EXCEPT ![nxt] = FILE_END]

\* Fault: the list in memory is not made again.
ExtendUnlisted(k) ==
  LET i == icache[k]
  IN  /\ i.names # {} \/ i.open
      /\ i.blocks # <<>>
      /\ \E nxt \in NextBlock(i) :
           /\ fat' = Linked(Last(i.blocks), nxt)
           /\ dir' = Grown(First(i))
      /\ harm' = IF i.names # {} THEN harm ELSE harm \union {"late"}
      /\ UNCHANGED <<icache, creating>>

\* A write to a named file or to one that was open when it was unlinked.
Extend(k) ==
  LET i == icache[k]
  IN  /\ i.names # {} \/ i.open
      /\ i.blocks # <<>>
      /\ \E nxt \in NextBlock(i) :
           /\ fat' = Linked(Last(i.blocks), nxt)
           /\ dir' = Grown(First(i))
           /\ icache' = [icache EXCEPT ![k].blocks = ListBlocks(fat', First(i))]
      /\ harm' = IF i.names # {} THEN harm ELSE harm \union {"late"}
      /\ UNCHANGED creating

\* vmufat_unlink: the chain is freed, then the record found and cleared.  A
\* broken chain ends the removal, and so does an empty record before the
\* file's.  The inode keeps its link count, and so its place in memory.
Unlink(n, held) ==
  /\ creating = {}
  /\ \E k \in DOMAIN icache :
       LET i == icache[k]
           b == First(i)
           found == IF Ends(fat, b) THEN FoundFirst(dir, b) ELSE {}
       IN  /\ n \in i.names
           /\ fat' = CleanFat(b)
           /\ dir' = IF found = {} THEN dir ELSE Compact(CHOOSE s \in found : TRUE)
           /\ icache' = [icache EXCEPT ![k].names = @ \ {n}, ![k].open = held]
           /\ harm' = IF \E s \in found : LeavesHole(s) THEN harm \union {"hole"}
                      ELSE harm
  /\ UNCHANGED creating

\* The last close of an unlinked file.
Close(k) ==
  /\ icache[k].open
  /\ icache' = [icache EXCEPT ![k].open = FALSE]
  /\ UNCHANGED <<fat, dir, creating, harm>>

\* Memory pressure: an inode is dropped, with its dentry.
Evict(k) ==
  /\ ~icache[k].open
  /\ icache' = RemoveAt(icache, k)
  /\ UNCHANGED <<fat, dir, creating, harm>>

Next ==
  \/ \E n \in Names : Lookup(n)
  \/ \E n \in Names, ft \in FileTypes : CreateAllocate(n, ft)
  \/ CreateEnter
  \/ CreateFull
  \/ \E k \in DOMAIN icache : Extend(k)
  \/ \E n \in Names, held \in BOOLEAN : Unlink(n, held)
  \/ \E k \in DOMAIN icache : Close(k)
  \/ \E k \in DOMAIN icache : Evict(k)

Spec == Init /\ [][Next]_vars

\* Bound of the runs: a volume is followed up to the first harm.
Healthy == harm = {}
HealthySpec == Init /\ [][Healthy /\ Next]_vars

-----------------------------------------------------------------------------
Files == {s \in Slots : ~IsFree(dir, s)}
BlocksOf(s) == ToSet(Chain(fat, dir[s].first))

\* No walk along the FAT goes round in a circle, whatever has happened: no set
\* of blocks is closed under the FAT (0035:7-11 says what a circle did).
WalksEnd ==
  \A S \in SUBSET Blocks : (\A b \in S : fat[b] \in S) => S = {}

\* Until something has gone wrong the records in use come first, so that every
\* search, which ends at an empty record, meets all of them.
IsCompact(d) == \A s, t \in Slots : s < t /\ IsFree(d, s) => IsFree(d, t)
DirectoryCompact == Healthy => IsCompact(dir)

\* Until something has gone wrong no block belongs to two files, and every
\* chain runs to its end mark.
ChainsDisjoint ==
  Healthy =>
    /\ \A s \in Files : Ends(fat, dir[s].first)
    /\ \A s, t \in Files : s # t => BlocksOf(s) \intersect BlocksOf(t) = {}

\* Until something has gone wrong every block that is not free is in a file's
\* chain or is held by a creation: unlink and failures leak nothing.
NoLeak ==
  Healthy =>
    {b \in Blocks : fat[b] # UNALLOCATED} =
      {System} \union (UNION {BlocksOf(s) : s \in Files})
               \union {c.block : c \in creating}

\* Until something has gone wrong a record's size is the length of its chain
\* (0005:65, "file size (in blocks)").
SizeIsLength ==
  Healthy => \A s \in Files : dir[s].size = Len(Chain(fat, dir[s].first))

\* Until something has gone wrong the block list of an inode in use is the
\* chain of the one record that has its name.
InCoreExact ==
  Healthy =>
    \A k \in DOMAIN icache : \A n \in icache[k].names :
      \E s \in Found(dir, n) : /\ dir[s].first = First(icache[k])
                               /\ icache[k].blocks = Chain(fat, dir[s].first)
=============================================================================
