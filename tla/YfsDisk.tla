------------------------------ MODULE YfsDisk ------------------------------
(***************************************************************************)
(* The volume of the Yalnix file server and the helpers of yfs.c that read *)
(* and write it.  A volume fs is one record:                               *)
(*                                                                         *)
(*   inodes, blocks      what is on the disk: the inode table and the      *)
(*                       contents of every block as directory entries      *)
(*   free, nfree, nodes  what the server keeps in memory: freeBlocks[] as  *)
(*                       a set, numFreeBlocks, and the queue of free       *)
(*                       inodes that starts at free_nodes_head             *)
(*                                                                         *)
(* Every helper is an operator from volumes to volumes.  There is no cache *)
(* in the code: each helper reads its sector, changes it and writes it     *)
(* back, so what it read is part of its argument and nothing is deferred.  *)
(*                                                                         *)
(* Sizes are counted in directory entries (32 bytes) instead of bytes.     *)
(***************************************************************************)
EXTENDS Integers, Sequences, FiniteSets

CONSTANTS
  NumInodes,        \* header->num_inodes
  NumBlocks,        \* header->num_blocks
  InodesPerBlock,   \* BLOCKSIZE / INODESIZE (8)
  EntriesPerBlock,  \* BLOCKSIZE / sizeof(struct dir_entry) (16)
  NumDirect,        \* NUM_DIRECT (12)
  PointersPerEntry, \* sizeof(struct dir_entry) / sizeof(int) (8)
  MaxSize,          \* bound: the largest size an inode may reach
  Names             \* the names directory entries can carry

INODE_FREE      == 0
INODE_DIRECTORY == 1
INODE_REGULAR   == 2
ROOTINODE       == 1
ERROR           == -1

Dot    == "."
DotDot == ".."
NoName == ""   \* what findLastDirName finds after a trailing '/'

(* The name an indirect block's pointer shows when its block is read as    *)
(* directory entries: no path of the model carries it.                     *)
POINTER == "pointer"

(* What a file's contents show where they are read as directory entries: a  *)
(* name no path of the model carries and a number that is no inode's.       *)
TEXT == "text"
Text == [inum |-> NumInodes + 1, name |-> TEXT]

Inodes  == 1 .. NumInodes
Blocks  == 0 .. NumBlocks - 1
Directs == 0 .. NumDirect - 1
Slots   == 0 .. EntriesPerBlock - 1

(* Inode 0 is the header, so NumInodes + 1 records of INODESIZE bytes.     *)
LastInodeBlock == (NumInodes \div InodesPerBlock) + 1
InodeBlocks    == 1 .. LastInodeBlock

(* The slot of a block read as entries where the int at an index falls.    *)
SlotOfPointer(index) == index \div PointersPerEntry

(* What the C constants satisfy.  The last conjunct is the bound on sizes: *)
(* beyond NUM_DIRECT blocks writeInodeToDisk copies past the end of        *)
(* direct[], which has no defined outcome.                                 *)
ASSUME LayoutAssumption ==
  /\ NumInodes \in Nat /\ NumInodes >= 2
  /\ InodesPerBlock \in Nat /\ InodesPerBlock >= 2
  /\ NumDirect \in Nat /\ NumDirect >= 1
  /\ EntriesPerBlock \in Nat /\ EntriesPerBlock >= 3
  /\ EntriesPerBlock >= NumDirect
  /\ NumBlocks \in Nat /\ NumBlocks > LastInodeBlock + 1
  /\ NumBlocks >= NumDirect
  /\ LastInodeBlock \in Nat \ {0}
  /\ SlotOfPointer(EntriesPerBlock) \in Slots
  /\ {Dot, DotDot, NoName} \subseteq Names
  /\ POINTER \notin Names /\ TEXT \notin Names
  /\ MaxSize \in Nat /\ MaxSize >= 3
  /\ \A size \in 0 .. MaxSize :
       size \div EntriesPerBlock \in Directs /\ size % EntriesPerBlock \in Slots

(* With exactly as many inodes as one block has records, init() never reads *)
(* the block that the last one is in: its over-read stands for that inode.  *)
ASSUME TableAssumption == NumInodes # InodesPerBlock

----------------------------------------------------------------------------
(* init() gives its k-th look at the inode table to this inode: the first  *)
(* block is read from slot 1 to slot InodesPerBlock, one past its end, and *)
(* the blocks after it from slot 0, so one inode is looked at twice (once  *)
(* through the over-read, once in its own block) and the last one never.   *)
Considered(k) == IF k <= InodesPerBlock THEN k ELSE k - 1
Overread(k)   == k = InodesPerBlock

(* The inodes init() can ever put on the free list. *)
Offered == {Considered(k) : k \in Inodes}

NoEntry == [inum |-> 0, name |-> NoName]
EmptyBlock == [s \in Slots |-> NoEntry]

Entry == [inum : Offered \cup {0}, name : Names] \cup [inum : Blocks, name : {POINTER}]
         \cup {Text}

Inode == [type : {INODE_FREE, INODE_DIRECTORY, INODE_REGULAR}, nlink : Int, reuse : Nat,
          size : 0 .. MaxSize, direct : [Directs -> Blocks], indirect : Blocks \cup {ERROR}]

Volume == [inodes : [Inodes -> Inode], blocks : [Blocks -> [Slots -> Entry]],
           free : SUBSET Blocks, nfree : Int, nodes : Seq(Offered)]

(* The smallest member: every scan of the code runs upwards and stops at   *)
(* its first hit.                                                          *)
First(S) == CHOOSE i \in S : \A j \in S : i <= j

----------------------------------------------------------------------------
(* Blocks.  A failed call returns ERROR and leaves the volume as it was.   *)

(* Mutated: freeBlocks[] still says free. *)
FindFreeBlockUnmarked(fs) ==
  IF fs.nfree = 0 \/ fs.free = {}
  THEN [fs |-> fs, block |-> ERROR]
  ELSE LET b == First(fs.free) IN
       [fs    |-> [fs EXCEPT !.nfree = @ - 1, !.blocks = [@ EXCEPT ![b] = EmptyBlock]],
        block |-> b]

FindFreeBlock(fs) ==
  IF fs.nfree = 0 \/ fs.free = {}
  THEN [fs |-> fs, block |-> ERROR]
  ELSE LET b == First(fs.free) IN
       [fs    |-> [fs EXCEPT !.free = @ \ {b}, !.nfree = @ - 1, !.blocks = [@ EXCEPT ![b] = EmptyBlock]],
        block |-> b]

AddFreeBlocks(fs, bs) ==
  [fs EXCEPT !.free = @ \cup bs, !.nfree = @ + Cardinality(bs)]

----------------------------------------------------------------------------
(* Inodes. *)

(* Mutated: all direct[] slots are copied.                                  *)
WriteInodeToDiskWhole(fs, n, node) == [fs EXCEPT !.inodes = [@ EXCEPT ![n] = node]]

(* Only the direct[] slots that the size covers are copied to the disk.    *)
WriteInodeToDisk(fs, n, node) ==
  LET kept == [i \in Directs |-> IF i <= node.size \div EntriesPerBlock
                                 THEN node.direct[i] ELSE fs.inodes[n].direct[i]]
  IN [fs EXCEPT !.inodes = [@ EXCEPT ![n] = [node EXCEPT !.direct = kept]]]

(* The block in which the directory's next pointer is stored.  An indirect *)
(* field that holds ERROR is used as a sector number: nothing is written.  *)
StorePointer(fs, indirect, buffer, index, block) ==
  IF indirect = ERROR THEN fs
  ELSE LET content == [buffer EXCEPT ![SlotOfPointer(index)] = [inum |-> block, name |-> POINTER]]
       IN [fs EXCEPT !.blocks = [@ EXCEPT ![indirect] = content]]

(* Mutated: findFreeBlock's ERROR is stored as a pointer.                   *)
AddNewEmptyBlockUnchecked(fs, node, index) ==
  LET ind   == IF node.indirect = 0 THEN FindFreeBlock(fs)
               ELSE [fs |-> fs, block |-> node.indirect]
      grown == [node EXCEPT !.indirect = ind.block]
      new   == FindFreeBlock(ind.fs)
  IN IF node.indirect = 0 /\ ind.block = ERROR
     THEN [fs |-> ind.fs, node |-> grown]
     ELSE [fs   |-> StorePointer(new.fs, ind.block, ind.fs.blocks[ind.block],
                                 index, new.block),
           node |-> grown]

(* The pointer goes to int number index of the indirect block, not to      *)
(* index - NUM_DIRECT where getSector would look for it.                   *)
AddNewEmptyBlock(fs, node, index) ==
  IF index < NumDirect
  THEN LET got == FindFreeBlock(fs) IN
       [fs   |-> got.fs,
        node |-> IF got.block = ERROR THEN node ELSE 
                 [node EXCEPT !.direct = [@ EXCEPT ![index] = got.block]]]
  ELSE LET ind   == IF node.indirect = 0 THEN FindFreeBlock(fs)
                    ELSE [fs |-> fs, block |-> node.indirect]
           grown == [node EXCEPT !.indirect = ind.block]
           new   == FindFreeBlock(ind.fs)
       IN IF \/ node.indirect = 0 /\ ind.block = ERROR
             \/ new.block = ERROR
          THEN [fs |-> ind.fs, node |-> grown]
          ELSE [fs   |-> StorePointer(new.fs, ind.block, ind.fs.blocks[ind.block],
                                      index, new.block),
                node |-> grown]

GetInodeType(fs, n) == fs.inodes[n].type

ResetInodeSize(fs, n) == WriteInodeToDisk(fs, n, [fs.inodes[n] EXCEPT !.size = 0])

(* The queue of free inodes.  getFreeInode follows a null pointer both when *)
(* the queue is empty and when it holds one inode.                          *)
AddFreeInode(fs, n)    == [fs EXCEPT !.nodes = Append(@, n)]
GetFreeInodeFails(fs)  == Len(fs.nodes) <= 1
GetFreeInode(fs)       == [fs EXCEPT !.nodes = Tail(@)]

(* Mutated: the block numbers themselves, and indices counted from 1.       *)
BlocksGivenBackNumbers(node) ==
  {node.direct[i] : i \in {d \in Directs : d <= node.size \div EntriesPerBlock}} \ {0}
BlocksGivenBackFromOne(node) ==
  {i \in 1 .. NumDirect : i <= node.size \div EntriesPerBlock + 1 /\ node.direct[i - 1] # 0}

(* What a deleted inode gives back: addFreeBlock is called with the index   *)
(* of each nonzero direct[] slot, not with the block number it holds.       *)
BlocksGivenBack(node) ==
  {i \in Directs : i <= node.size \div EntriesPerBlock /\ node.direct[i] # 0}

PrepFree(node) ==
  [node EXCEPT !.type = INODE_FREE, !.nlink = 0, !.reuse = @ + 1, !.size = 0]

FreeInode(fs, n) ==
  LET node  == fs.inodes[n]
      freed == AddFreeBlocks(fs, BlocksGivenBack(node))
  IN AddFreeInode(WriteInodeToDisk(freed, n, PrepFree(node)), n)

----------------------------------------------------------------------------
(* The volume mkyfs writes, and what init() builds from a volume.           *)

RootBlock == LastInodeBlock + 1

FreshInodes ==
  [n \in Inodes |->
     IF n = ROOTINODE
     THEN [type |-> INODE_DIRECTORY, nlink |-> 2, reuse |-> 1, size |-> 2,
           direct |-> [i \in Directs |-> IF i = 0 THEN RootBlock ELSE 0], indirect |-> 0]
     ELSE [type |-> INODE_FREE, nlink |-> 0, reuse |-> 0, size |-> 0,
           direct |-> [i \in Directs |-> 0], indirect |-> 0]]

FreshBlocks ==
  [b \in Blocks |->
     IF b # RootBlock THEN EmptyBlock
     ELSE [EmptyBlock EXCEPT ![0] = [inum |-> ROOTINODE, name |-> Dot],
                             ![1] = [inum |-> ROOTINODE, name |-> DotDot]]]

(* The looks at the inode table that find a free inode.  The over-read look *)
(* finds whatever follows the sector buffer on the heap, so slotFree is     *)
(* free to be either; a slot that does not read as free has its direct[]    *)
(* marked used, and those numbers are the set stray.                        *)
FreeLooks(inodes, slotFree) ==
  {k \in Inodes : IF Overread(k) THEN slotFree
                  ELSE inodes[Considered(k)].type = INODE_FREE}

(* Mutated: without the + 1 in num_blocks. *)
BlocksOfFullOnly(node) ==
  {node.direct[i] : i \in {d \in Directs : d < node.size \div EntriesPerBlock}}

BlocksOf(node) == {node.direct[i] : i \in {d \in Directs : d <= node.size \div EntriesPerBlock}}

MarkedUsed(inodes, slotFree, stray) ==
  UNION {BlocksOf(inodes[Considered(k)]) :
           k \in {j \in Inodes : ~ Overread(j) /\ inodes[Considered(j)].type # INODE_FREE}}
  \cup (IF NumInodes < InodesPerBlock \/ slotFree THEN {} ELSE stray)

(* A set of numbers in increasing order, as a sequence. *)
InOrder(S) ==
  {q \in [1 .. Cardinality(S) -> S] : \A i, j \in 1 .. Cardinality(S) : i < j => q[i] < q[j]}

(* Mutated: every call of markUsed takes one off the count, also the calls  *)
(* for direct[] slots that hold 0.                                          *)
BootCountingMarks(inodes, blocks, slotFree, stray, looks) ==
  [inodes |-> inodes,
   blocks |-> blocks,
   free   |-> Blocks \ ({0} \cup InodeBlocks \cup MarkedUsed(inodes, slotFree, stray)),
   nfree  |-> NumBlocks - 1 - Cardinality(InodeBlocks)
              - Cardinality({m \in Inodes \X Directs :
                               /\ ~ Overread(m[1])
                               /\ inodes[Considered(m[1])].type # INODE_FREE
                               /\ m[2] <= inodes[Considered(m[1])].size \div EntriesPerBlock}),
   nodes  |-> [i \in 1 .. Len(looks) |-> Considered(looks[i])]]

(* looks is FreeLooks in order.  The boot block is marked used and still    *)
(* counted as free; indirect blocks are not marked.                         *)
Boot(inodes, blocks, slotFree, stray, looks) ==
  [inodes |-> inodes,
   blocks |-> blocks,
   free   |-> Blocks \ ({0} \cup InodeBlocks \cup MarkedUsed(inodes, slotFree, stray)),
   nfree  |-> NumBlocks - Cardinality(InodeBlocks),
   nodes  |-> [i \in 1 .. Len(looks) |-> Considered(looks[i])]]
=============================================================================
