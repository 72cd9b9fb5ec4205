-------------------------- MODULE YfsSessionProof --------------------------
(***************************************************************************)
(* What holds until the server is first started again: no block has two    *)
(* users, and the entries of a directory survive every request.  Ledger is *)
(* the inductive part; the lemmas before it say which blocks' contents and *)
(* which fields of an inode each helper changes.                           *)
(***************************************************************************)
EXTENDS YfsProof

(* The blocks an inode names, whether it is in use or not.                  *)
Holds(node) == {node.direct[0], node.indirect} \ {0, ERROR}

(* Node as inode n names two different blocks, and none that can be handed  *)
(* out, belongs to the inode table or is named by another inode.            *)
Alone(v, n, node) ==
  /\ node.direct[0] # 0 => node.direct[0] # node.indirect
  /\ Holds(node) \cap (v.free \cup InodeBlocks) = {}
  /\ \A m \in Inodes \ {n} : Holds(v.inodes[m]) \cap Holds(node) = {}

Ledger(v) == \A n \in Inodes : Alone(v, n, v.inodes[n])

(* The contents of the blocks outside S are the same in both volumes.       *)
Untouched(v, w, S) == \A b \in Blocks \ S : w.blocks[b] = v.blocks[b]

(* The entry an append to node writes: which block, and which slot of it.   *)
EndBlock(node) == node.direct[node.size \div EntriesPerBlock]
EndSlot(node)  == node.size % EntriesPerBlock

----------------------------------------------------------------------------
(* What the helpers leave alone. *)

(* Taking a block zeroes that block and no other.                           *)
LEMMA FindFreeBlockKeeps ==
  ASSUME NEW v \in Volume
  PROVE  /\ Untouched(v, FindFreeBlock(v).fs, v.free)
         /\ FindFreeBlock(v).block # ERROR =>
              FindFreeBlock(v).fs.blocks[FindFreeBlock(v).block] = EmptyBlock
<1> DEFINE b   == First(v.free)
           got == FindFreeBlock(v)
<1>1. CASE v.nfree = 0 \/ v.free = {}
  <2>1. got = [fs |-> v, block |-> ERROR]
    BY <1>1 DEF FindFreeBlock
  <2> QED
    BY <2>1 DEF Untouched
<1>2. CASE ~ (v.nfree = 0 \/ v.free = {})
  <2>1. v.free \subseteq Blocks /\ Blocks \subseteq Nat
    BY LayoutAssumption DEF Volume, Blocks
  <2>2. b \in v.free
    BY <2>1, <1>2, FirstOfNat
  <2>3. /\ got.fs = [v EXCEPT !.free = @ \ {b}, !.nfree = @ - 1,
                              !.blocks = [@ EXCEPT ![b] = EmptyBlock]]
        /\ got.block = b
    BY <1>2 DEF FindFreeBlock
  <2> HIDE DEF b, got
  <2>4. got.fs.blocks = [v.blocks EXCEPT ![b] = EmptyBlock]
    BY <2>3 DEF Volume
  <2>5. v.blocks \in [Blocks -> [Slots -> Entry]]
    BY DEF Volume
  <2>6. Untouched(v, got.fs, v.free) /\ got.fs.blocks[got.block] = EmptyBlock
    BY <2>1, <2>2, <2>3, <2>4, <2>5 DEF Untouched
  <2> QED
    BY <2>6 DEF got
<1> QED
  BY <1>1, <1>2

(* A directory that grows zeroes blocks that were free and writes to the    *)
(* indirect block, which it takes from the free list when it has none.      *)
LEMMA GrowKeeps ==
  ASSUME NEW v, Sound(v), NEW node \in Inode,
         NEW index \in Nat, ~ (index < NumDirect), SlotOfPointer(index) \in Slots
  PROVE  LET got == AddNewEmptyBlock(v, node, index) IN
         /\ Untouched(v, got.fs, v.free \cup ({node.indirect} \ {0}))
         /\ got.node.indirect # node.indirect =>
              /\ node.indirect = 0
              /\ got.node.indirect \in (v.free \ got.fs.free) \cup {ERROR}
<1> DEFINE got   == AddNewEmptyBlock(v, node, index)
           ind   == IF node.indirect = 0 THEN FindFreeBlock(v)
                    ELSE [fs |-> v, block |-> node.indirect]
           grown == [node EXCEPT !.indirect = ind.block]
           new   == FindFreeBlock(ind.fs)
           stored == StorePointer(new.fs, ind.block, ind.fs.blocks[ind.block],
                                  index, new.block)
<1>1. got = IF (node.indirect = 0 /\ ind.block = ERROR) \/ new.block = ERROR
            THEN [fs |-> ind.fs, node |-> grown]
            ELSE [fs |-> stored, node |-> grown]
  BY Zenon DEF AddNewEmptyBlock
<1>2. /\ Sound(ind.fs) /\ ind.fs.free \subseteq v.free
      /\ Untouched(v, ind.fs, v.free)
      /\ ind.block \in ({node.indirect} \ {0}) \cup v.free \cup {ERROR}
      /\ ind.block # node.indirect =>
           node.indirect = 0 /\ ind.block \in (v.free \ ind.fs.free) \cup {ERROR}
  <2>1. CASE node.indirect = 0
    <3>1. ind = FindFreeBlock(v) /\ v \in Volume
      BY <2>1 DEF Sound
    <3> HIDE DEF ind
    <3> QED
      BY <2>1, <3>1, FindFreeBlockSound, FindFreeBlockKeeps
  <2>2. CASE node.indirect # 0
    <3>1. ind = [fs |-> v, block |-> node.indirect]
      BY <2>2
    <3> HIDE DEF ind
    <3> QED
      BY <2>2, <3>1 DEF Untouched
  <2> QED
    BY <2>1, <2>2
<1> HIDE DEF ind
<1>3. grown.indirect = ind.block
  BY DEF Inode
<1> HIDE DEF grown
<1>4. /\ Sound(new.fs) /\ new.fs.free \subseteq ind.fs.free /\ Untouched(v, new.fs, v.free)
  <2>1. /\ Sound(new.fs) /\ new.fs.free \subseteq ind.fs.free
        /\ Untouched(ind.fs, new.fs, ind.fs.free)
    BY <1>2, FindFreeBlockSound, FindFreeBlockKeeps DEF Sound
  <2> HIDE DEF new
  <2> QED
    BY <1>2, <2>1 DEF Untouched
<1> HIDE DEF new
<1>5. CASE (node.indirect = 0 /\ ind.block = ERROR) \/ new.block = ERROR
  <2>1. got.fs = ind.fs /\ got.node = grown
    BY <1>1, <1>5
  <2> HIDE DEF got
  <2>2. Untouched(v, got.fs, v.free \cup ({node.indirect} \ {0}))
    BY <1>2, <2>1 DEF Untouched
  <2> QED
    BY <1>2, <1>3, <2>1, <2>2 DEF got
<1>6. CASE ~ ((node.indirect = 0 /\ ind.block = ERROR) \/ new.block = ERROR)
  <2>1. got.fs = stored /\ got.node = grown
    BY <1>1, <1>6
  <2>2. stored.free = new.fs.free /\ Untouched(new.fs, stored, {ind.block})
    <3>1. CASE ind.block = ERROR
      BY <3>1 DEF StorePointer, Untouched
    <3>2. CASE ind.block # ERROR
      <4> DEFINE content == [ind.fs.blocks[ind.block] EXCEPT ![SlotOfPointer(index)] =
                               [inum |-> new.block, name |-> POINTER]]
      <4>1. stored = [new.fs EXCEPT !.blocks = [@ EXCEPT ![ind.block] = content]]
        BY <3>2 DEF StorePointer
      <4> HIDE DEF stored, content
      <4>2. stored.free = new.fs.free /\ stored.blocks = [new.fs.blocks EXCEPT ![ind.block] = content]
        BY <1>4, <4>1 DEF Sound, Volume
      <4>3. new.fs.blocks \in [Blocks -> [Slots -> Entry]]
        BY <1>4 DEF Sound, Volume
      <4> QED
        BY <4>2, <4>3 DEF Untouched
    <3> QED
      BY <3>1, <3>2
  <2> HIDE DEF got, stored
  <2>3. Untouched(v, got.fs, v.free \cup ({node.indirect} \ {0}))
    <3>1. ind.block \in v.free \cup ({node.indirect} \ {0}) \/ ind.block \notin Blocks
      BY <1>2, LayoutFacts
    <3> QED
      BY <1>4, <2>1, <2>2, <3>1 DEF Untouched
  <2>4. got.fs.free \subseteq ind.fs.free
    BY <1>4, <2>1, <2>2
  <2> QED
    BY <1>2, <1>3, <2>1, <2>3, <2>4 DEF got
<1> QED
  BY <1>5, <1>6

(* An append writes one slot of the block where the directory ends, besides *)
(* what growing it takes from the free list and the indirect block.         *)
Appends(v, w, node, entry) ==
  /\ Untouched(v, w, v.free \cup {node.indirect, EndBlock(node)})
  /\ w.blocks[EndBlock(node)] = [v.blocks[EndBlock(node)] EXCEPT ![EndSlot(node)] = entry]

AppendKeeps(v, node, n, inum, name, got) ==
  /\ got.fs.inodes[n].size = node.size + 1
  /\ got.fs.inodes[n].indirect = got.node.indirect
  /\ got.node.indirect # node.indirect =>
       /\ node.indirect = 0
       /\ got.node.indirect \in (v.free \ got.fs.free) \cup {ERROR}
  /\ EndBlock(node) \in Blocks /\ EndSlot(node) \in Slots
  /\ Appends(v, got.fs, node, [inum |-> inum, name |-> name])

(* An append writes its entry, blocks that were free and the indirect       *)
(* block; the size grows by one, and a new indirect block was free.         *)
LEMMA WriteDirectoryKeeps ==
  ASSUME NEW v, Sound(v), NEW n \in Offered, NEW node \in Inode,
         OneBlock(node), Fitting(v, n, node), node.size < MaxSize,
         NEW inum \in Offered, NEW name \in Names
  PROVE  AppendKeeps(v, node, n, inum, name, WriteDirectoryToInode(v, node, n, inum, name))
<1> DEFINE got     == WriteDirectoryToInode(v, node, n, inum, name)
           slot    == EndSlot(node)
           sector  == EndBlock(node)
           content == [v.blocks[sector] EXCEPT ![slot] = [inum |-> inum, name |-> name]]
           sized   == [node EXCEPT !.size = node.size + 1]
           grown   == IF sized.size % EntriesPerBlock = 0
                      THEN AddNewEmptyBlock(v, sized, slot + 1)
                      ELSE [fs |-> v, node |-> sized]
           put     == [grown.fs EXCEPT !.blocks = [@ EXCEPT ![sector] = content]]
           w       == WriteInodeToDisk(put, n, grown.node)
<1>1. got.fs = w /\ got.node = grown.node
  BY Zenon DEF WriteDirectoryToInode, EndBlock, EndSlot
<1>2. node.size \in 0 .. MaxSize /\ node.direct \in [Directs -> Blocks] /\ MaxSize \in Nat
  BY LayoutAssumption DEF Inode
<1>3. slot \in Slots /\ sector \in Blocks
  BY <1>2, EntryPlace DEF EndBlock, EndSlot
<1>4. content \in [Slots -> Entry]
  <2>1. v.blocks[sector] \in [Slots -> Entry]
    BY <1>3 DEF Sound, Volume
  <2> QED
    BY <2>1, <1>3, EntryTypes
<1>5. sized \in Inode /\ sized.size = node.size + 1 /\ sized.indirect = node.indirect
  BY <1>2 DEF Inode
<1>6. sized.size % EntriesPerBlock = 0 => slot + 1 = EntriesPerBlock
  BY <1>2, <1>5, GrowsAtTheEnd DEF EndSlot
<1> HIDE DEF slot, sector, content, sized
<1>7. /\ Sound(grown.fs) /\ grown.node \in Inode /\ grown.node.size = node.size + 1
      /\ Untouched(v, grown.fs, v.free \cup {node.indirect})
      /\ grown.node.indirect # node.indirect =>
           node.indirect = 0 /\ grown.node.indirect \in (v.free \ grown.fs.free) \cup {ERROR}
  <2>1. CASE sized.size % EntriesPerBlock = 0
    <3>1. grown = AddNewEmptyBlock(v, sized, EntriesPerBlock)
      BY <2>1, <1>6
    <3>2. EntriesPerBlock \in Nat /\ ~ (EntriesPerBlock < NumDirect) /\ SlotOfPointer(EntriesPerBlock) \in Slots
      BY LayoutAssumption
    <3> HIDE DEF grown
    <3>3. /\ Sound(grown.fs) /\ grown.node \in Inode /\ grown.node.size = sized.size
      BY <3>1, <3>2, <1>5, AddNewEmptyBlockSound
    <3>4. /\ Untouched(v, grown.fs, v.free \cup ({sized.indirect} \ {0}))
          /\ grown.node.indirect # sized.indirect =>
               sized.indirect = 0 /\ grown.node.indirect \in (v.free \ grown.fs.free) \cup {ERROR}
      BY <3>1, <3>2, <1>5, GrowKeeps
    <3>5. Untouched(v, grown.fs, v.free \cup {node.indirect})
      BY <3>4, <1>5 DEF Untouched
    <3> QED
      BY <3>3, <3>4, <3>5, <1>5
  <2>2. CASE sized.size % EntriesPerBlock # 0
    <3>1. grown.fs = v /\ grown.node = sized
      BY <2>2
    <3> HIDE DEF grown
    <3> QED
      BY <3>1, <1>5 DEF Untouched
  <2> QED
    BY <2>1, <2>2
<1> HIDE DEF grown
<1>8. /\ Sound(put) /\ put.free = grown.fs.free
      /\ Untouched(v, put, v.free \cup {node.indirect, sector})
      /\ put.blocks[sector] = content
  <2>1. Sound(put) /\ put.free = grown.fs.free
    BY <1>3, <1>4, <1>7, PutBlockSound
  <2>2. grown.fs.blocks \in [Blocks -> [Slots -> Entry]]
    BY <1>7 DEF Sound, Volume
  <2>3. put.blocks = [grown.fs.blocks EXCEPT ![sector] = content]
    BY <1>7 DEF Sound, Volume
  <2> HIDE DEF put
  <2>4. Untouched(v, put, v.free \cup {node.indirect, sector}) /\ put.blocks[sector] = content
    BY <1>3, <1>7, <2>2, <2>3 DEF Untouched
  <2> QED
    BY <2>1, <2>4
<1> HIDE DEF put
<1>9. /\ w.blocks = put.blocks /\ w.free = put.free
      /\ w.inodes[n].size = grown.node.size /\ w.inodes[n].indirect = grown.node.indirect
  <2>1. put \in Volume /\ n \in Inodes
    BY <1>8, LayoutFacts DEF Sound
  <2> QED
    BY <2>1, <1>7, WriteInodeTypes
<1> HIDE DEF w, got
<1>10. Untouched(v, got.fs, v.free \cup {node.indirect, sector}) /\ got.fs.blocks[sector] = content
  BY <1>1, <1>8, <1>9 DEF Untouched
<1>11. content = [v.blocks[sector] EXCEPT ![slot] = [inum |-> inum, name |-> name]]
  BY DEF content
<1> QED
  BY <1>1, <1>3, <1>7, <1>8, <1>9, <1>10, <1>11 DEF got, slot, sector, AppendKeeps, Appends

----------------------------------------------------------------------------
(* The ledger through the helpers. *)

(* Blocks leave the free list, or the boot block returns to it: whoever     *)
(* stood alone still does.                                                  *)
LEMMA FewerFree ==
  ASSUME NEW v, NEW w, w.inodes = v.inodes, w.free \subseteq v.free \cup {0}
  PROVE  /\ \A n \in Inodes : \A x : Alone(v, n, x) => Alone(w, n, x)
         /\ Ledger(v) => Ledger(w)
<1>1. \A n \in Inodes : \A x : Alone(v, n, x) => Alone(w, n, x)
  BY DEF Alone, Holds
<1> QED
  BY <1>1 DEF Ledger

(* One inode has changed, and stands alone among the others.                *)
LEMMA OneMoved ==
  ASSUME NEW v, Ledger(v), NEW w, w.free \subseteq v.free \cup {0}, NEW n \in Inodes,
         \A m \in Inodes \ {n} : w.inodes[m] = v.inodes[m],
         Alone(w, n, w.inodes[n])
  PROVE  Ledger(w)
<1>1. ASSUME NEW m \in Inodes \ {n}
      PROVE  Alone(w, m, w.inodes[m])
  <2>1. Alone(v, m, v.inodes[m]) /\ w.inodes[m] = v.inodes[m]
    BY DEF Ledger
  <2>2. Holds(w.inodes[m]) \cap (w.free \cup InodeBlocks) = {}
    BY <2>1 DEF Alone, Holds
  <2>3. \A l \in Inodes \ {m} : Holds(w.inodes[l]) \cap Holds(w.inodes[m]) = {}
    <3> TAKE l \in Inodes \ {m}
    <3>1. CASE l = n
      BY <3>1, <2>1 DEF Alone
    <3>2. CASE l # n
      BY <3>2, <2>1 DEF Alone
    <3> QED
      BY <3>1, <3>2
  <2> QED
    BY <2>1, <2>2, <2>3 DEF Alone
<1> QED
  BY <1>1 DEF Ledger

(* Two copies that name the same two blocks are alike.                      *)
LEMMA SameHoldings ==
  ASSUME NEW v, NEW n, NEW x, NEW y, Alone(v, n, x),
         y.direct[0] = x.direct[0], y.indirect = x.indirect
  PROVE  Alone(v, n, y) /\ Holds(y) = Holds(x)
BY DEF Alone, Holds

(* Writing an inode that stands alone keeps the ledger.                     *)
LEMMA WriteInodeAlone ==
  ASSUME NEW v \in Volume, Ledger(v), NEW n \in Inodes, NEW node \in Inode, Alone(v, n, node)
  PROVE  LET w == WriteInodeToDisk(v, n, node) IN
         /\ Ledger(w) /\ Alone(w, n, node)
         /\ w.inodes[n].size = node.size /\ w.inodes[n].indirect = node.indirect
         /\ w.blocks = v.blocks
<1> DEFINE w == WriteInodeToDisk(v, n, node)
<1>1. /\ w.blocks = v.blocks /\ w.free = v.free
      /\ \A m \in Inodes \ {n} : w.inodes[m] = v.inodes[m]
      /\ w.inodes[n].size = node.size
      /\ w.inodes[n].indirect = node.indirect
      /\ w.inodes[n].direct[0] = node.direct[0]
  BY WriteInodeTypes
<1> HIDE DEF w
<1>2. Alone(w, n, node)
  BY <1>1 DEF Alone
<1>3. Alone(w, n, w.inodes[n])
  BY <1>1, <1>2, SameHoldings
<1>4. Ledger(w)
  BY <1>1, <1>3, OneMoved
<1> QED
  BY <1>1, <1>2, <1>4 DEF w

(* Appending to one does: what the directory grows by was free.             *)
LEMMA WriteDirectoryAlone ==
  ASSUME NEW v, Sound(v), NEW n \in Offered, NEW node \in Inode,
         OneBlock(node), Fitting(v, n, node), node.size < MaxSize,
         NEW inum \in Offered, NEW name \in Names,
         Ledger(v), Alone(v, n, node)
  PROVE  LET got == WriteDirectoryToInode(v, node, n, inum, name) IN
         /\ Ledger(got.fs) /\ Alone(got.fs, n, got.node)
         /\ Holds(got.node) \subseteq Holds(node) \cup v.free
<1> DEFINE got == WriteDirectoryToInode(v, node, n, inum, name)
           x   == got.node
<1>1. /\ got.fs.free \subseteq v.free
      /\ \A m \in Inodes \ {n} : got.fs.inodes[m] = v.inodes[m]
      /\ got.fs.inodes[n].direct[0] = node.direct[0]
      /\ x.direct = node.direct
  BY WriteDirectorySound
<1>2. /\ got.fs.inodes[n].indirect = x.indirect
      /\ x.indirect # node.indirect =>
           node.indirect = 0 /\ x.indirect \in (v.free \ got.fs.free) \cup {ERROR}
  <2>1. AppendKeeps(v, node, n, inum, name, got)
    BY WriteDirectoryKeeps
  <2> HIDE DEF got
  <2> QED
    BY <2>1 DEF AppendKeeps
<1> HIDE DEF got
<1>3. n \in Inodes /\ v.free \cap InodeBlocks = {} /\ node.direct[0] # ERROR
  <2>1. node.direct \in [Directs -> Blocks]
    BY DEF Inode
  <2> QED
    BY <2>1, LayoutFacts DEF Sound
<1>4. Holds(x) \subseteq Holds(node) \cup (v.free \ got.fs.free)
  BY <1>1, <1>2 DEF Holds
<1>5. Alone(got.fs, n, x)
  <2>1. x.direct[0] # 0 => x.direct[0] # x.indirect
    <3>1. node.direct[0] # 0 => node.direct[0] \in Holds(node)
      BY <1>3 DEF Holds
    <3> QED
      BY <1>1, <1>2, <1>3, <3>1 DEF Alone
  <2>2. Holds(x) \cap (got.fs.free \cup InodeBlocks) = {}
    BY <1>1, <1>3, <1>4 DEF Alone
  <2>3. ASSUME NEW m \in Inodes \ {n}
        PROVE  Holds(got.fs.inodes[m]) \cap Holds(x) = {}
    <3>1. Holds(v.inodes[m]) \cap v.free = {} /\ Holds(v.inodes[m]) \cap Holds(node) = {}
      BY DEF Ledger, Alone
    <3> QED
      BY <1>1, <1>4, <3>1
  <2> QED
    BY <2>1, <2>2, <2>3 DEF Alone
<1>6. Alone(got.fs, n, got.fs.inodes[n])
  BY <1>1, <1>2, <1>5, SameHoldings
<1>7. Ledger(got.fs)
  BY <1>1, <1>3, <1>6, OneMoved
<1> QED
  BY <1>4, <1>5, <1>7 DEF got

(* The entries "." and ".." go into the block that the new inode was given. *)
LEMMA FirstEntries ==
  ASSUME NEW node
  PROVE  /\ node.size = 0 => EndBlock(node) = node.direct[0] /\ EndSlot(node) = 0
         /\ node.size = 1 => EndBlock(node) = node.direct[0] /\ EndSlot(node) = 1
<1>1. /\ 0 \div EntriesPerBlock = 0 /\ 0 % EntriesPerBlock = 0
      /\ 1 \div EntriesPerBlock = 0 /\ 1 % EntriesPerBlock = 1
  BY LayoutAssumption
<1> QED
  BY <1>1 DEF EndBlock, EndSlot

(* A new inode keeps its indirect block and takes a free one for its data.  *)
NewInodeIn(v, n, w) ==
  /\ \A m \in Inodes \ {n} : w.inodes[m] = v.inodes[m]
  /\ w.inodes = v.inodes \/ w.inodes[n].direct[0] \in v.free
  /\ Untouched(v, w, v.free \cup {v.inodes[n].indirect})
  /\ Ledger(v) => /\ Ledger(w)
                  /\ Holds(w.inodes[n]) \subseteq Holds(v.inodes[n]) \cup v.free

(* setNewInode writes one inode and blocks that were free or are its own.   *)
LEMMA SetNewInodeKeeps ==
  ASSUME NEW v, Sound(v), NEW n \in Offered, NEW parent \in Offered,
         NEW type \in {INODE_DIRECTORY, INODE_REGULAR}
  PROVE  NewInodeIn(v, n, SetNewInode(v, n, type, parent))
<1> DEFINE w    == SetNewInode(v, n, type, parent)
           v1   == FindFreeBlock(v).fs
           b    == FindFreeBlock(v).block
           node == StartOf(v, n, type)
           v2   == WithDot(v, n, type).fs
           x    == WithDot(v, n, type).node
           both == WriteDirectoryToInode(v2, x, n, parent, DotDot)
<1>1. w = IF b = ERROR THEN v1 ELSE both.fs
  BY SetNewInodeParts
<1>2. /\ Sound(v1) /\ v1.inodes = v.inodes /\ v1.free \subseteq v.free
      /\ b # ERROR => b \in v.free \ v1.free
      /\ Untouched(v, v1, v.free)
  BY FindFreeBlockSound, FindFreeBlockKeeps DEF Sound
<1>3. Ledger(v) => Ledger(v1)
  BY <1>2, FewerFree
<1>a. /\ \A m \in Inodes \ {n} : w.inodes[m] = v.inodes[m]
      /\ w.inodes = v.inodes \/ w.inodes[n].direct[0] \in v.free
  BY SetNewInodeSound
<1>4. CASE b = ERROR
  <2>1. w = v1
    BY <1>1, <1>4
  <2> HIDE DEF w, v1
  <2> QED
    BY <2>1, <1>2, <1>3, <1>a DEF w, Untouched, NewInodeIn
<1>5. CASE b # ERROR
  <2>1. /\ node \in Inode /\ node.size = 0
        /\ node.indirect = v.inodes[n].indirect /\ node.direct[0] = b
        /\ OneBlock(node) /\ Fitting(v1, n, node)
    BY <1>5, StartFits
  <2>2. /\ Sound(v2) /\ v2.free \subseteq v.free
        /\ x \in Inode /\ OneBlock(x) /\ Fitting(v2, n, x)
        /\ x.size = 1 /\ x.direct[0] = b
    BY <1>5, DotFits
  <2>3. WithDot(v, n, type) = WriteDirectoryToInode(v1, node, n, n, Dot)
    BY DEF WithDot
  <2>4. w = both.fs
    BY <1>1, <1>5
  <2>5. Dot \in Names /\ DotDot \in Names /\ 0 < MaxSize /\ 1 < MaxSize /\ n \in Inodes
    BY LayoutAssumption, LayoutFacts
  <2> DEFINE self == WithDot(v, n, type)
  <2>6. self.fs = v2 /\ self.node = x
    OBVIOUS
  <2> HIDE DEF v1, b, node, v2, x, w, self
  <2>7. /\ Untouched(v1, v2, v1.free \cup {node.indirect, EndBlock(node)})
        /\ x.indirect # node.indirect => x.indirect \in v1.free \cup {ERROR}
        /\ v2.free \subseteq v1.free
    <3>1. self = WriteDirectoryToInode(v1, node, n, n, Dot)
      BY <2>3 DEF self
    <3>2. AppendKeeps(v1, node, n, n, Dot, self)
      BY <1>2, <2>1, <2>5, <3>1, WriteDirectoryKeeps
    <3>3. v2.free \subseteq v1.free
      BY <1>2, <2>1, <2>5, <2>6, <3>1, WriteDirectorySound
    <3> QED
      BY <2>6, <3>2, <3>3 DEF AppendKeeps, Appends
  <2>8. /\ Untouched(v2, both.fs, v2.free \cup {x.indirect, EndBlock(x)})
        /\ both.fs.inodes[n].indirect = both.node.indirect
        /\ both.fs.inodes[n].direct[0] = both.node.direct[0]
    <3>1. both.fs.inodes[n].direct[0] = x.direct[0] /\ both.node.direct = x.direct
      BY <2>2, <2>5, WriteDirectorySound
    <3> HIDE DEF both
    <3>2. AppendKeeps(v2, x, n, parent, DotDot, both)
      BY <2>2, <2>5, WriteDirectoryKeeps DEF both
    <3> QED
      BY <3>1, <3>2 DEF AppendKeeps, Appends
  <2>9. Untouched(v, w, v.free \cup {v.inodes[n].indirect})
    <3>1. EndBlock(node) = b /\ EndBlock(x) = b /\ b \in v.free /\ ERROR \notin Blocks
      BY <1>2, <1>5, <2>1, <2>2, FirstEntries, LayoutFacts
    <3> HIDE DEF both
    <3> QED
      BY <1>2, <2>1, <2>2, <2>4, <2>7, <2>8, <3>1 DEF Untouched
  <2>10. ASSUME Ledger(v)
         PROVE  Ledger(w) /\ Holds(w.inodes[n]) \subseteq Holds(v.inodes[n]) \cup v.free
    <3>1. Alone(v, n, v.inodes[n]) /\ Ledger(v1)
      BY <1>3, <2>5, <2>10 DEF Ledger
    <3>2. /\ Alone(v1, n, node)
          /\ Holds(node) \subseteq Holds(v.inodes[n]) \cup v.free
      <4>1. Holds(node) \subseteq Holds(v.inodes[n]) \cup ((v.free \ v1.free) \ {0})
        BY <1>2, <1>5, <2>1 DEF Holds
      <4>2. b # 0 => b # node.indirect
        BY <1>2, <1>5, <2>1, <3>1 DEF Alone, Holds
      <4>3. v.free \cap InodeBlocks = {}
        BY DEF Sound
      <4>4. \A m \in Inodes \ {n} : Holds(v.inodes[m]) \cap v.free = {}
        BY <2>10 DEF Ledger, Alone
      <4> QED
        BY <1>2, <2>1, <3>1, <4>1, <4>2, <4>3, <4>4 DEF Alone
    <3>3. /\ Ledger(v2) /\ Alone(v2, n, x)
          /\ Holds(x) \subseteq Holds(node) \cup v1.free
      <4>1. self = WriteDirectoryToInode(v1, node, n, n, Dot)
        BY <2>3 DEF self
      <4> QED
        BY <1>2, <2>1, <2>5, <2>6, <3>1, <3>2, <4>1, WriteDirectoryAlone
    <3>4. /\ Ledger(both.fs)
          /\ Holds(both.node) \subseteq Holds(x) \cup v2.free
      BY <2>2, <2>5, <3>3, WriteDirectoryAlone
    <3> HIDE DEF both
    <3>5. Holds(w.inodes[n]) = Holds(both.node)
      BY <2>4, <2>8 DEF Holds
    <3> QED
      BY <1>2, <2>2, <2>4, <2>7, <3>2, <3>3, <3>4, <3>5
  <2> QED
    BY <1>a, <2>9, <2>10 DEF w, NewInodeIn
<1> QED
  BY <1>4, <1>5

(* A file cut to size 0, and a freed inode, name the blocks they had.       *)
LEMMA ResetInodeSizeAlone ==
  ASSUME NEW v, Sound(v), Ledger(v), NEW n \in Offered
  PROVE  LET w == ResetInodeSize(v, n) IN
         /\ Ledger(w) /\ w.blocks = v.blocks
         /\ \A m \in Inodes : /\ Alone(w, m, v.inodes[m])
                              /\ w.inodes[m].indirect = v.inodes[m].indirect
                              /\ m # n => w.inodes[m] = v.inodes[m]
<1> DEFINE node == [v.inodes[n] EXCEPT !.size = 0]
           w    == ResetInodeSize(v, n)
<1>1. v \in Volume /\ n \in Inodes /\ v.inodes[n] \in Inode /\ Alone(v, n, v.inodes[n])
  BY LayoutFacts DEF Sound, Volume, Ledger
<1>2. /\ node \in Inode /\ node.direct = v.inodes[n].direct
      /\ node.indirect = v.inodes[n].indirect
  BY <1>1, LayoutAssumption DEF Inode
<1>3. w = WriteInodeToDisk(v, n, node)
  BY DEF ResetInodeSize
<1> HIDE DEF node, w
<1>4. Alone(v, n, node)
  BY <1>1, <1>2, SameHoldings
<1>5. Ledger(w) /\ w.blocks = v.blocks /\ w.inodes[n].indirect = node.indirect
  <2> DEFINE put == WriteInodeToDisk(v, n, node)
  <2>1. Ledger(put) /\ put.blocks = v.blocks /\ put.inodes[n].indirect = node.indirect
    BY <1>1, <1>2, <1>4, WriteInodeAlone
  <2> HIDE DEF put
  <2> QED
    BY <1>3, <2>1 DEF put
<1>6. /\ \A m \in Inodes \ {n} : w.inodes[m] = v.inodes[m]
      /\ \A m \in Inodes : w.inodes[m].direct[0] = v.inodes[m].direct[0]
  <2>1. /\ \A m \in Inodes \ {n} : w.inodes[m] = v.inodes[m]
        /\ w.inodes[n].direct[0] = node.direct[0]
    BY <1>1, <1>2, <1>3, WriteInodeTypes
  <2> QED
    BY <1>2, <2>1
<1>7. \A m \in Inodes : w.inodes[m].indirect = v.inodes[m].indirect
  BY <1>2, <1>5, <1>6
<1>8. \A m \in Inodes : Alone(w, m, v.inodes[m])
  <2> TAKE m \in Inodes
  <2>1. Alone(w, m, w.inodes[m])
    BY <1>5 DEF Ledger
  <2> QED
    BY <2>1, <1>6, <1>7, SameHoldings
<1> QED
  BY <1>5, <1>6, <1>7, <1>8 DEF w

(* Freeing an inode leaves it the blocks it names.                          *)
LEMMA FreeInodeAlone ==
  ASSUME NEW v, Sound(v), Ledger(v), NEW n \in Offered
  PROVE  Ledger(FreeInode(v, n))
<1> DEFINE w == FreeInode(v, n)
<1>1. /\ w.free \subseteq v.free \cup {0}
      /\ \A m \in Inodes \ {n} : w.inodes[m] = v.inodes[m]
      /\ w.inodes[n].direct[0] = v.inodes[n].direct[0]
      /\ w.inodes[n].indirect = v.inodes[n].indirect
  BY FreeInodeSound
<1> HIDE DEF w
<1>2. n \in Inodes /\ Alone(v, n, v.inodes[n])
  BY LayoutFacts DEF Ledger
<1>3. Alone(w, n, v.inodes[n])
  BY <1>1, <1>2 DEF Alone, Holds
<1>4. Alone(w, n, w.inodes[n])
  BY <1>1, <1>3, SameHoldings
<1>5. Ledger(w)
  BY <1>1, <1>2, <1>4, OneMoved
<1> QED
  BY <1>5 DEF w

(* The end of CREATE and MKDIR.                                             *)
EntryAdded(v, node, parent, entry, w) ==
  /\ \A m \in Inodes \ {parent} : w.inodes[m] = v.inodes[m]
  /\ w.inodes[parent].size = node.size + 1
  /\ w.inodes[parent].type = node.type
  /\ Appends(v, w, node, entry)
  /\ Ledger(v) /\ Alone(v, parent, node) => Ledger(w)

(* The append and the second write of the inode that end CREATE, MKDIR and  *)
(* LINK.                                                                    *)
LEMMA AddEntryKeeps ==
  ASSUME NEW v, Sound(v), NEW node \in Inode, OneBlock(node), NEW c, NEW p,
         Parent(c, p) \in Offered, Fitting(v, Parent(c, p), node),
         node.size < MaxSize, LastName(p) \in Names, NEW n \in Offered
  PROVE  EntryAdded(v, node, Parent(c, p), [inum |-> n, name |-> LastName(p)],
                    AddEntry(v, node, c, p, n))
<1> DEFINE parent == Parent(c, p)
           name   == LastName(p)
           added  == WriteDirectoryToInode(v, node, parent, n, name)
           w      == AddEntry(v, node, c, p, n)
<1>1. w = WriteInodeToDisk(added.fs, parent, added.node)
  BY DEF AddEntry
<1>2. parent \in Offered /\ parent \in Inodes /\ Fitting(v, parent, node) /\ name \in Names
  BY LayoutFacts
<1> HIDE DEF parent, name, w
<1>3. /\ added.fs \in Volume /\ added.node \in Inode
      /\ added.node.size = node.size + 1 /\ added.node.type = node.type
      /\ \A m \in Inodes \ {parent} : added.fs.inodes[m] = v.inodes[m]
  BY <1>2, WriteDirectorySound DEF Sound
<1>4. AppendKeeps(v, node, parent, n, name, added)
  BY <1>2, WriteDirectoryKeeps
<1>5. Ledger(v) /\ Alone(v, parent, node) => Ledger(added.fs) /\ Alone(added.fs, parent, added.node)
  BY <1>2, WriteDirectoryAlone
<1> HIDE DEF added
<1>6. /\ w.blocks = added.fs.blocks
      /\ \A m \in Inodes \ {parent} : w.inodes[m] = added.fs.inodes[m]
      /\ w.inodes[parent].size = added.node.size /\ w.inodes[parent].type = added.node.type
  BY <1>1, <1>2, <1>3, WriteInodeTypes
<1>7. Ledger(v) /\ Alone(v, parent, node) => Ledger(w)
  BY <1>1, <1>2, <1>3, <1>5, WriteInodeAlone
<1>8. Appends(v, w, node, [inum |-> n, name |-> name])
  BY <1>4, <1>6 DEF AppendKeeps, Appends, Untouched
<1>9. EntryAdded(v, node, parent, [inum |-> n, name |-> name], w)
  BY <1>3, <1>6, <1>7, <1>8 DEF EntryAdded
<1> QED
  BY <1>9 DEF w, parent, name

----------------------------------------------------------------------------
(* What a step leaves of the entries of directories. *)

(* The property of EntriesKept, for one step.                               *)
EntriesStay ==
  /\ \A n \in Inodes : StaysDirectory(n) => fs'.inodes[n].size >= fs.inodes[n].size
  /\ \A e, f \in ChangedEntries : e = f
  /\ \A e \in ChangedEntries : fs'.blocks[fs.inodes[e[1]].direct[0]][e[2]] = NoEntry

(* The entries of n, in its data block, are the same in both volumes.       *)
SameEntries(v, w, n) ==
  v.inodes[n].direct[0] # 0 =>
    \A s \in Slots : s < v.inodes[n].size =>
      w.blocks[v.inodes[n].direct[0]][s] = v.blocks[v.inodes[n].direct[0]][s]

(* If no entry changed, EntriesStay holds.                                  *)
LEMMA NothingCleared ==
  ASSUME \A n \in Inodes : StaysDirectory(n) =>
           fs'.inodes[n].size >= fs.inodes[n].size /\ SameEntries(fs, fs', n)
  PROVE  EntriesStay
<1>1. ChangedEntries = {}
  BY DEF ChangedEntries, SameEntries, StaysDirectory
<1> QED
  BY <1>1 DEF EntriesStay

LEMMA UnchangedEntries ==
  ASSUME Sound(fs), fs' = fs
  PROVE  EntriesStay
<1>1. \A n \in Inodes : fs.inodes[n].size \in Nat
  BY LayoutAssumption DEF Sound, Volume, Inode
<1>2. \A n \in Inodes : fs'.inodes[n].size >= fs.inodes[n].size /\ SameEntries(fs, fs', n)
  BY <1>1 DEF SameEntries
<1> QED
  BY <1>2, NothingCleared

(* While the ledger is kept, one slot of one block holds the entry of one   *)
(* directory at most.                                                       *)
ClearsOne(v, w, sector, slot) ==
  \A b \in Blocks : \A s \in Slots :
    w.blocks[b][s] = IF b = sector /\ s = slot THEN NoEntry ELSE v.blocks[b][s]

NoneShrinks == \A n \in Inodes : StaysDirectory(n) => fs'.inodes[n].size >= fs.inodes[n].size

(* If one slot of one block was cleared, one directory has lost one entry:  *)
(* the block is no other directory's.                                       *)
LEMMA OneCleared ==
  ASSUME Sound(fs), Ledger(fs), NEW sector, NEW slot, NoneShrinks,
         ClearsOne(fs, fs', sector, slot)
  PROVE  EntriesStay
<1>1. ASSUME NEW e \in ChangedEntries
      PROVE  /\ e \in Inodes \X Slots
             /\ fs.inodes[e[1]].direct[0] = sector /\ fs.inodes[e[1]].direct[0] \in Blocks \ {0}
             /\ e[2] = slot
             /\ fs'.blocks[fs.inodes[e[1]].direct[0]][e[2]] = NoEntry
  <2>1. e \in Inodes \X Slots
    BY DEF ChangedEntries
  <2> DEFINE b == fs.inodes[e[1]].direct[0]
  <2>2. /\ StaysDirectory(e[1]) /\ fs'.blocks[b][e[2]] # fs.blocks[b][e[2]]
    BY DEF ChangedEntries
  <2>3. b \in Blocks \ {0}
    BY <2>1, <2>2, LayoutFacts DEF Sound, Volume, Inode, StaysDirectory
  <2> HIDE DEF b
  <2>4. b = sector /\ e[2] = slot /\ fs'.blocks[b][e[2]] = NoEntry
    BY <2>1, <2>2, <2>3 DEF ClearsOne
  <2> QED
    BY <2>1, <2>3, <2>4 DEF b
<1>2. ASSUME NEW e \in ChangedEntries, NEW f \in ChangedEntries
      PROVE  e = f
  <2>1. /\ e \in Inodes \X Slots /\ f \in Inodes \X Slots /\ e[2] = f[2]
        /\ fs.inodes[e[1]].direct[0] = fs.inodes[f[1]].direct[0]
        /\ fs.inodes[e[1]].direct[0] \in Blocks \ {0}
    BY <1>1
  <2>2. e[1] = f[1]
    <3>1. fs.inodes[e[1]].direct[0] \in Holds(fs.inodes[e[1]]) \cap Holds(fs.inodes[f[1]])
      BY <2>1, LayoutFacts DEF Holds
    <3> QED
      BY <2>1, <3>1 DEF Ledger, Alone
  <2> QED
    BY <2>1, <2>2
<1> QED
  BY <1>1, <1>2 DEF EntriesStay, NoneShrinks

(* The block of an inode's data is not free, and no other inode's.          *)
LEMMA HeldSafe ==
  ASSUME NEW v, Sound(v), Ledger(v), NEW d \in Inodes, v.inodes[d].direct[0] # 0
  PROVE  /\ v.inodes[d].direct[0] \in Blocks \ v.free
         /\ \A m \in Inodes : v.inodes[d].direct[0] # v.inodes[m].indirect
         /\ \A m \in Inodes \ {d} : v.inodes[d].direct[0] # v.inodes[m].direct[0]
<1> DEFINE b == v.inodes[d].direct[0]
<1>1. b \in Blocks /\ b # ERROR
  <2>1. v.inodes[d].direct \in [Directs -> Blocks]
    BY DEF Sound, Volume, Inode
  <2> QED
    BY <2>1, LayoutFacts
<1>2. b \in Holds(v.inodes[d]) /\ Alone(v, d, v.inodes[d])
  BY <1>1 DEF Holds, Ledger
<1>3. \A m \in Inodes \ {d} : b \notin Holds(v.inodes[m])
  BY <1>2 DEF Alone
<1> HIDE DEF b
<1>4. \A m \in Inodes \ {d} : b # v.inodes[m].indirect /\ b # v.inodes[m].direct[0]
  BY <1>1, <1>3 DEF Holds, b
<1>5. b # v.inodes[d].indirect /\ b \notin v.free
  BY <1>2 DEF Alone, b
<1> QED
  BY <1>1, <1>4, <1>5 DEF b

(* A directory ends in its one block, or in the boot block.                 *)
LEMMA WhereItEnds ==
  ASSUME NEW node \in Inode, OneBlock(node)
  PROVE  EndBlock(node) = 0 \/ (EndBlock(node) = node.direct[0] /\ EndSlot(node) = node.size)
<1>1. node.size \in Nat /\ node.size \div EntriesPerBlock \in Directs
  BY EntryPlace, LayoutAssumption DEF Inode
<1>2. CASE node.size \div EntriesPerBlock = 0
  <2>1. node.size % EntriesPerBlock = node.size
    BY <1>1, <1>2, LayoutAssumption
  <2> QED
    BY <1>2, <2>1 DEF EndBlock, EndSlot
<1>3. CASE node.size \div EntriesPerBlock # 0
  BY <1>1, <1>3 DEF EndBlock, OneBlock
<1> QED
  BY <1>2, <1>3

(* An append to one inode changes none of the entries that any directory    *)
(* had, even if v, the volume it is made to, has lost what was in the free  *)
(* blocks and in an indirect block.                                         *)
LEMMA AppendLeaves ==
  ASSUME NEW u, Sound(u), Ledger(u), NEW parent \in Inodes,
         NEW v, v.free \subseteq u.free, NEW n \in Inodes,
         Untouched(u, v, u.free \cup {u.inodes[n].indirect}),
         NEW w, NEW entry, Appends(v, w, u.inodes[parent], entry)
  PROVE  \A d \in Inodes : SameEntries(u, w, d)
<1> SUFFICES ASSUME NEW d \in Inodes, u.inodes[d].direct[0] # 0,
                    NEW s \in Slots, s < u.inodes[d].size
             PROVE  w.blocks[u.inodes[d].direct[0]][s] = u.blocks[u.inodes[d].direct[0]][s]
  BY DEF SameEntries
<1> DEFINE b    == u.inodes[d].direct[0]
           node == u.inodes[parent]
           end  == EndBlock(node)
<1>1. /\ b \in Blocks \ u.free
      /\ \A m \in Inodes : b # u.inodes[m].indirect
      /\ \A m \in Inodes \ {d} : b # u.inodes[m].direct[0]
  BY HeldSafe
<1>2. node \in Inode /\ OneBlock(node) /\ b # 0
  BY DEF Sound, Volume
<1>3. (end = 0) \/ (end = node.direct[0] /\ EndSlot(node) = node.size)
  BY <1>2, WhereItEnds
<1>4. /\ Untouched(v, w, v.free \cup {node.indirect, end})
      /\ w.blocks[end] = [v.blocks[end] EXCEPT ![EndSlot(node)] = entry]
  BY DEF Appends
<1>5. v.blocks[b] = u.blocks[b] /\ b # node.indirect
  BY <1>1 DEF Untouched
<1>6. s < node.size \/ parent # d
  OBVIOUS
<1>7. node.direct[0] = b => parent = d
  BY <1>1
<1>8. u.blocks[b] \in [Slots -> Entry]
  BY <1>1 DEF Sound, Volume
<1>9. s \in Int /\ node.size \in Int
  BY <1>2, LayoutAssumption DEF Slots, Inode
<1> HIDE DEF b, node, end
<1>10. CASE b # end
  BY <1>1, <1>4, <1>5, <1>10 DEF Untouched, b
<1>11. CASE b = end
  <2>1. parent = d /\ EndSlot(node) # s
    BY <1>2, <1>3, <1>6, <1>7, <1>9, <1>11
  <2> QED
    BY <1>4, <1>5, <1>8, <1>11, <2>1 DEF b
<1> QED
  BY <1>10, <1>11

----------------------------------------------------------------------------
(* The requests, while the ledger is kept. *)

LEMMA MakeNewKeeps ==
  ASSUME IInv, Ledger(fs), NEW c \in Clients, NEW p \in Paths,
         NEW type \in {INODE_DIRECTORY, INODE_REGULAR}, MakeNew(c, p, type)
  PROVE  Ledger(fs') /\ EntriesStay
<1> DEFINE parent == Parent(c, p)
           node   == fs.inodes[parent]
           n      == Head(fs.nodes)
           taken  == GetFreeInode(fs)
           set    == SetNewInode(taken, n, type, parent)
           volume == AddEntry(set, node, c, p, n)
<1>1. Sound(fs)
  BY DEF IInv
<1>2. CASE GetFreeInodeFails(fs) /\ Crash
  BY <1>1, <1>2, UnchangedEntries DEF Crash
<1>3. CASE ~ GetFreeInodeFails(fs) /\ ReplyWith(NewFile(c, p, type), Head(fs.nodes))
  <2>1. fs' = volume
    BY <1>3 DEF NewFile, ReplyWith
  <2>2. /\ parent \in Offered /\ parent \in Inodes /\ LastName(p) \in Names
        /\ node \in Inode /\ OneBlock(node) /\ node.size < MaxSize
    BY Reads, SoundInode DEF MakeNew, IsDirectory, Fits
  <2>3. /\ Sound(taken) /\ n \in Offered /\ n \in Inodes
        /\ taken.inodes = fs.inodes /\ taken.free = fs.free /\ taken.blocks = fs.blocks
    <3>1. taken.blocks = fs.blocks
      BY <1>1 DEF GetFreeInode, Sound, Volume
    <3> QED
      BY <1>1, <1>3, <3>1, GetFreeInodeSound, LayoutFacts
  <2> HIDE DEF taken, n
  <2>4. Ledger(taken)
    BY <2>3, FewerFree
  <2>5. /\ Sound(set) /\ set.free \subseteq taken.free
        /\ Fitting(set, parent, node)
    <3>1. Sound(set) /\ set.free \subseteq taken.free /\ Fitting(set, parent, taken.inodes[parent])
      BY <2>2, <2>3, NewInodeFits
    <3> QED
      BY <2>3, <3>1
  <2>6. NewInodeIn(taken, n, set)
    BY <2>2, <2>3, SetNewInodeKeeps
  <2> HIDE DEF set
  <2>7. /\ \A m \in Inodes \ {n} : set.inodes[m] = taken.inodes[m]
        /\ set.inodes = taken.inodes \/ set.inodes[n].direct[0] \in taken.free
        /\ Untouched(taken, set, taken.free \cup {taken.inodes[n].indirect})
        /\ Ledger(set)
        /\ Holds(set.inodes[n]) \subseteq Holds(taken.inodes[n]) \cup taken.free
    BY <2>4, <2>6 DEF NewInodeIn
  <2>8. Alone(set, parent, node)
    <3>1. Alone(taken, parent, node)
      BY <2>2, <2>3, <2>4 DEF Ledger
    <3>2. ASSUME NEW m \in Inodes \ {parent}
          PROVE  Holds(set.inodes[m]) \cap Holds(node) = {}
      <4>1. CASE m = n
        BY <2>7, <3>1, <4>1 DEF Alone
      <4>2. CASE m # n
        BY <2>7, <3>1, <4>2 DEF Alone
      <4> QED
        BY <4>1, <4>2
    <3> QED
      BY <2>5, <3>1, <3>2 DEF Alone
  <2> DEFINE entry == [inum |-> n, name |-> LastName(p)]
  <2>9. /\ \A m \in Inodes \ {parent} : volume.inodes[m] = set.inodes[m]
        /\ volume.inodes[parent].size = node.size + 1
        /\ Appends(set, volume, node, entry)
        /\ Ledger(volume)
    <3>1. EntryAdded(set, node, parent, entry, volume)
      BY <2>2, <2>3, <2>5, AddEntryKeeps
    <3> HIDE DEF volume, node, parent, entry
    <3> QED
      BY <2>7, <2>8, <3>1 DEF EntryAdded
  <2> HIDE DEF volume, entry
  <2>10. \A d \in Inodes : SameEntries(fs, volume, d)
    <3>1. Untouched(fs, set, fs.free \cup {fs.inodes[n].indirect}) /\ set.free \subseteq fs.free
      BY <2>3, <2>5, <2>7 DEF Untouched
    <3> QED
      BY <1>1, <2>2, <2>3, <2>9, <3>1, AppendLeaves
  <2>11. ASSUME NEW d \in Inodes, StaysDirectory(d)
         PROVE  fs'.inodes[d].size >= fs.inodes[d].size
    <3>1. fs.inodes[d].size \in Nat
      BY <1>1, LayoutAssumption DEF Sound, Volume, Inode
    <3>2. CASE d = parent
      BY <2>1, <2>9, <3>1, <3>2
    <3>3. CASE d # parent /\ set.inodes[d] = fs.inodes[d]
      BY <2>1, <2>9, <3>1, <3>3
    <3>4. CASE d # parent /\ set.inodes[d] # fs.inodes[d]
      <4>1. d = n /\ fs'.inodes[d].direct[0] \in fs.free
        BY <2>1, <2>3, <2>7, <2>9, <3>4
      <4>2. fs.inodes[d].direct[0] \notin fs.free
        BY <1>1, <2>11, HeldSafe DEF StaysDirectory
      <4> QED
        BY <2>11, <4>1, <4>2 DEF StaysDirectory
    <3> QED
      BY <3>2, <3>3, <3>4
  <2> QED
    BY <2>1, <2>9, <2>10, <2>11, NothingCleared
<1> QED
  BY <1>2, <1>3 DEF MakeNew

LEMMA CreateExistingKeeps ==
  ASSUME IInv, Ledger(fs), NEW c \in Clients, NEW p \in Paths, CreateExisting(c, p)
  PROVE  Ledger(fs') /\ EntriesStay
<1> DEFINE parent == Parent(c, p)
           node   == fs.inodes[parent]
           n      == Match(c, p)
           reset  == ResetInodeSize(fs, n)
           volume == AddEntry(reset, node, c, p, n)
<1>1. n \in Offered /\ n \in Inodes /\ LastName(p) \in Names
  BY Reads, LayoutFacts DEF CreateExisting
<1>2. parent \in Offered
  BY Reads DEF CreateExisting, Match, IsDirectory
<1>3. /\ node \in Inode /\ OneBlock(node) /\ node.size < MaxSize /\ parent \in Inodes
      /\ Fitting(fs, parent, node) /\ Sound(fs)
  BY <1>2, SoundInode DEF CreateExisting, Fits, IInv
<1>4. fs' = volume /\ fs.inodes[n].type = INODE_REGULAR
  BY DEF CreateExisting, Truncated, ReplyWith, GetInodeType
<1> HIDE DEF n, parent
<1>5. /\ Sound(reset) /\ reset.free = fs.free
      /\ \A m \in Inodes : /\ reset.inodes[m].type = fs.inodes[m].type
                           /\ reset.inodes[m].direct[0] = fs.inodes[m].direct[0]
  BY <1>1, <1>3, ResetInodeSizeSound
<1>6. /\ Ledger(reset) /\ reset.blocks = fs.blocks
      /\ \A m \in Inodes : Alone(reset, m, fs.inodes[m]) /\ (m # n => reset.inodes[m] = fs.inodes[m])
  BY <1>1, <1>3, ResetInodeSizeAlone
<1> HIDE DEF reset
<1>7. Fitting(reset, parent, node) /\ Alone(reset, parent, node)
  BY <1>3, <1>5, <1>6 DEF Fitting, Owns
<1> HIDE DEF node
<1> DEFINE entry == [inum |-> n, name |-> LastName(p)]
<1>8. /\ \A m \in Inodes \ {parent} : volume.inodes[m] = reset.inodes[m]
      /\ volume.inodes[parent].size = node.size + 1
      /\ Appends(reset, volume, node, entry)
      /\ Ledger(volume)
  <2>1. EntryAdded(reset, node, parent, entry, volume)
    BY <1>1, <1>2, <1>3, <1>5, <1>7, AddEntryKeeps DEF parent
  <2> HIDE DEF volume, entry
  <2> QED
    BY <1>6, <1>7, <2>1 DEF EntryAdded
<1> HIDE DEF volume, entry
<1>9. \A d \in Inodes : SameEntries(fs, volume, d)
  <2>1. Untouched(fs, reset, fs.free \cup {fs.inodes[n].indirect}) /\ reset.free \subseteq fs.free
    BY <1>5, <1>6 DEF Untouched
  <2> QED
    <3>1. Appends(reset, volume, fs.inodes[parent], entry)
      BY <1>8 DEF node
    <3> QED
      BY <1>1, <1>3, <2>1, <3>1, AppendLeaves
<1>10. ASSUME NEW d \in Inodes, StaysDirectory(d)
       PROVE  fs'.inodes[d].size >= fs.inodes[d].size
  <2>1. d # n
    BY <1>4, <1>10 DEF StaysDirectory, INODE_REGULAR, INODE_DIRECTORY
  <2>2. fs.inodes[d].size \in Nat
    BY <1>3, LayoutAssumption DEF Sound, Volume, Inode
  <2> QED
    BY <1>4, <1>6, <1>8, <2>1, <2>2 DEF node
<1> QED
  BY <1>4, <1>8, <1>9, <1>10, NothingCleared

LEMMA LinkKeeps ==
  ASSUME IInv, Ledger(fs), NEW c \in Clients, NEW old \in Paths, NEW new \in Paths,
         Link(c, old, new)
  PROVE  Ledger(fs') /\ EntriesStay
<1>1. Sound(fs)
  BY DEF IInv
<1>2. CASE ~ Linkable(c, old, new) /\ ReplyError
  BY <1>1, <1>2, UnchangedEntries DEF ReplyError
<1>3. CASE /\ Linkable(c, old, new)
           /\ Fits(fs.inodes[Parent(c, new)])
           /\ ReplyWith(Linked(c, old, new), Target(c, old))
  <2> DEFINE n      == Target(c, old)
             parent == Parent(c, new)
             node   == fs.inodes[parent]
             name   == LastName(new)
             got    == WriteDirectoryToInode(fs, node, parent, n, name)
             added  == got.fs
             more   == [added.inodes[n] EXCEPT !.nlink = added.inodes[n].nlink + 1]
             volume == WriteInodeToDisk(added, n, more)
             entry  == [inum |-> n, name |-> name]
  <2>1. /\ n \in Offered /\ parent \in Offered /\ name \in Names
        /\ n \in Inodes /\ parent \in Inodes
    BY <1>3, Reads, LayoutFacts DEF Linkable
  <2>2. /\ node \in Inode /\ OneBlock(node) /\ node.size < MaxSize
        /\ Fitting(fs, parent, node)
    BY <2>1, <1>3, SoundInode DEF Fits
  <2>3. Alone(fs, parent, node)
    BY <2>1 DEF Ledger
  <2>4. fs' = volume
    BY <1>3, Zenon DEF Linked, ReplyWith
  <2> HIDE DEF n, parent, name
  <2>5. /\ Sound(added)
        /\ \A m \in Inodes \ {parent} : added.inodes[m] = fs.inodes[m]
    BY <1>1, <2>1, <2>2, WriteDirectorySound
  <2>6. AppendKeeps(fs, node, parent, n, name, got)
    BY <1>1, <2>1, <2>2, WriteDirectoryKeeps
  <2>7. Ledger(added)
    BY <1>1, <2>1, <2>2, <2>3, WriteDirectoryAlone
  <2>8. added.inodes[parent].size = node.size + 1 /\ Appends(fs, added, node, entry)
    <3> HIDE DEF got, node
    <3> QED
      BY <2>6 DEF AppendKeeps
  <2> HIDE DEF got
  <2>9. added.inodes[n] \in Inode /\ Alone(added, n, added.inodes[n])
    BY <2>1, <2>5, <2>7 DEF Sound, Volume, Ledger
  <2> HIDE DEF added
  <2>10. /\ more \in Inode /\ more.direct = added.inodes[n].direct
         /\ more.indirect = added.inodes[n].indirect /\ more.size = added.inodes[n].size
    BY <2>9 DEF Inode
  <2> HIDE DEF more
  <2>11. Alone(added, n, more)
    BY <2>9, <2>10, SameHoldings
  <2>12. /\ Ledger(volume) /\ volume.blocks = added.blocks
         /\ \A m \in Inodes : volume.inodes[m].size = added.inodes[m].size
    <3>1. added \in Volume
      BY <2>5 DEF Sound
    <3>2. /\ Ledger(volume) /\ volume.blocks = added.blocks
          /\ volume.inodes[n].size = more.size
      BY <2>1, <2>7, <2>10, <2>11, <3>1, WriteInodeAlone
    <3>3. \A m \in Inodes \ {n} : volume.inodes[m] = added.inodes[m]
      BY <2>1, <2>10, <3>1, WriteInodeTypes
    <3> HIDE DEF volume
    <3> QED
      BY <2>10, <3>2, <3>3
  <2> HIDE DEF volume, entry
  <2>13. \A d \in Inodes : SameEntries(fs, volume, d)
    <3>1. Appends(fs, volume, fs.inodes[parent], entry)
      BY <2>8, <2>12 DEF Appends, Untouched
    <3>2. Untouched(fs, fs, fs.free \cup {fs.inodes[n].indirect})
      BY DEF Untouched
    <3> QED
      BY <1>1, <2>1, <3>1, <3>2, AppendLeaves
  <2>14. \A d \in Inodes : fs'.inodes[d].size >= fs.inodes[d].size
    <3> TAKE d \in Inodes
    <3>1. fs.inodes[d].size \in Nat
      BY <1>1, LayoutAssumption DEF Sound, Volume, Inode
    <3> QED
      BY <2>4, <2>5, <2>8, <2>12, <3>1
  <2> QED
    BY <2>4, <2>12, <2>13, <2>14, NothingCleared
<1> QED
  BY <1>2, <1>3 DEF Link

LEMMA UnlinkKeeps ==
  ASSUME IInv, Ledger(fs), NEW c \in Clients, NEW p \in Paths, Unlink(c, p)
  PROVE  Ledger(fs') /\ EntriesStay
<1>1. Sound(fs)
  BY DEF IInv
<1>2. CASE ~ Unlinkable(c, p) /\ ReplyError
  BY <1>1, <1>2, UnchangedEntries DEF ReplyError
<1>3. CASE Unlinkable(c, p) /\ ReplyWith(Unlinked(c, p), Parent(c, p))
  <2> DEFINE n       == Target(c, p)
             dir     == fs.inodes[Parent(c, p)]
             cleared == FreeDirectoryEntry(fs, dir, n)
             node    == [fs.inodes[n] EXCEPT !.nlink = fs.inodes[n].nlink - 1]
             volume  == IF node.nlink = 0 THEN FreeInode(cleared, n)
                        ELSE WriteInodeToDisk(cleared, n, node)
             first   == First(Numbered(fs, dir, n))
             sector  == dir.direct[first \div EntriesPerBlock]
             slot    == first % EntriesPerBlock
  <2>1. n \in Offered /\ n \in Inodes /\ Parent(c, p) \in Offered
    BY <1>3, Reads, LayoutFacts DEF Unlinkable
  <2>2. dir \in Inode /\ ~ FreeDirectoryEntryFails(fs, dir, n)
    BY <1>3, <2>1, SoundInode DEF Unlinkable
  <2>3. fs' = volume
    BY <1>3, Zenon DEF Unlinked, ReplyWith
  <2>4. /\ Sound(cleared) /\ cleared.inodes = fs.inodes /\ cleared.free = fs.free
        /\ \A b \in Blocks : \A s \in Slots :
             cleared.blocks[b][s] = IF b = sector /\ s = slot THEN NoEntry ELSE fs.blocks[b][s]
    BY <1>1, <2>2, FreeDirectoryEntrySound
  <2> HIDE DEF sector, slot, cleared, n
  <2>5. Ledger(cleared)
    BY <2>4, FewerFree
  <2>6. /\ fs.inodes[n] \in Inode /\ Alone(cleared, n, fs.inodes[n]) /\ cleared \in Volume
    BY <1>1, <2>1, <2>4, <2>5 DEF Sound, Volume, Ledger
  <2>7. /\ node \in Inode /\ node.direct = fs.inodes[n].direct
        /\ node.indirect = fs.inodes[n].indirect /\ node.size = fs.inodes[n].size
    BY <2>6 DEF Inode
  <2> HIDE DEF node
  <2>8. Alone(cleared, n, node)
    BY <2>6, <2>7, SameHoldings
  <2>9. /\ Ledger(volume) /\ volume.blocks = cleared.blocks
        /\ \A d \in Inodes : volume.inodes[d].type = INODE_FREE
                            \/ volume.inodes[d].size = fs.inodes[d].size
    <3>1. CASE node.nlink = 0
      <4> DEFINE w == FreeInode(cleared, n)
      <4>1. /\ w.blocks = cleared.blocks /\ w.inodes[n].type = INODE_FREE
            /\ \A m \in Inodes \ {n} : w.inodes[m] = cleared.inodes[m]
        BY <2>1, <2>4, FreeInodeSound
      <4>2. Ledger(w)
        BY <2>1, <2>4, <2>5, FreeInodeAlone
      <4>3. volume = w
        BY <3>1
      <4> HIDE DEF w, volume
      <4> QED
        BY <2>4, <4>1, <4>2, <4>3
    <3>2. CASE node.nlink # 0
      <4> DEFINE w == WriteInodeToDisk(cleared, n, node)
      <4>1. Ledger(w) /\ w.blocks = cleared.blocks /\ w.inodes[n].size = node.size
        BY <2>1, <2>5, <2>6, <2>7, <2>8, WriteInodeAlone
      <4>2. \A m \in Inodes \ {n} : w.inodes[m] = cleared.inodes[m]
        BY <2>1, <2>6, <2>7, WriteInodeTypes
      <4>3. volume = w
        BY <3>2
      <4> HIDE DEF w, volume
      <4> QED
        BY <2>4, <2>7, <4>1, <4>2, <4>3
    <3> QED
      BY <3>1, <3>2
  <2> HIDE DEF volume
  <2>10. NoneShrinks
    <3> SUFFICES ASSUME NEW d \in Inodes, StaysDirectory(d)
                 PROVE  fs'.inodes[d].size >= fs.inodes[d].size
      BY DEF NoneShrinks
    <3>1. fs.inodes[d].size \in Nat
      BY <1>1, LayoutAssumption DEF Sound, Volume, Inode
    <3> QED
      BY <2>3, <2>9, <3>1 DEF StaysDirectory, INODE_FREE, INODE_DIRECTORY
  <2>11. EntriesStay
    <3>1. ClearsOne(fs, fs', sector, slot)
      BY <2>3, <2>4, <2>9 DEF ClearsOne
    <3> QED
      BY <1>1, <2>10, <3>1, OneCleared
  <2> QED
    BY <2>3, <2>9, <2>11
<1> QED
  BY <1>2, <1>3 DEF Unlink

LEMMA RmDirKeeps ==
  ASSUME IInv, Ledger(fs), NEW c \in Clients, NEW p \in Paths, RmDir(c, p)
  PROVE  Ledger(fs') /\ EntriesStay
<1>1. Sound(fs)
  BY DEF IInv
<1>2. CASE ~ Removable(c, p) /\ ReplyError
  BY <1>1, <1>2, UnchangedEntries DEF ReplyError
<1>3. CASE Removable(c, p)
  <2> DEFINE dir     == fs.inodes[Parent(c, p)]
             n       == Match(c, p)
             removed == Removed(c, p)
             volume  == FreeDirectoryEntry(removed, dir, n)
             first   == First(Numbered(removed, dir, n))
             sector  == dir.direct[first \div EntriesPerBlock]
             slot    == first % EntriesPerBlock
  <2>1. ~ FreeDirectoryEntryFails(removed, dir, n)
    BY <1>3, EntryStillThere
  <2>2. fs' = volume
    BY <1>3, <2>1 DEF RmDir, ReplyWith
  <2>3. n \in Offered /\ n \in Inodes /\ Parent(c, p) \in Offered
    BY <1>3, Reads, LayoutFacts DEF Removable, Match, IsDirectory
  <2>4. dir \in Inode
    BY <2>3, SoundInode
  <2>5. removed = FreeInode(fs, n)
    BY DEF Removed
  <2> HIDE DEF removed, n, dir
  <2>6. /\ Sound(removed) /\ removed.blocks = fs.blocks
        /\ \A m \in Inodes \ {n} : removed.inodes[m] = fs.inodes[m]
        /\ removed.inodes[n].type = INODE_FREE
    BY <1>1, <2>3, <2>5, FreeInodeSound
  <2>7. Ledger(removed)
    BY <1>1, <2>3, <2>5, FreeInodeAlone
  <2>8. /\ volume.inodes = removed.inodes /\ volume.free = removed.free
        /\ \A b \in Blocks : \A s \in Slots :
             volume.blocks[b][s] = IF b = sector /\ s = slot THEN NoEntry
                                   ELSE removed.blocks[b][s]
    BY <2>1, <2>4, <2>6, FreeDirectoryEntrySound
  <2> HIDE DEF volume, sector, slot
  <2>9. Ledger(volume)
    BY <2>7, <2>8, FewerFree
  <2>10. NoneShrinks
    <3> SUFFICES ASSUME NEW d \in Inodes, StaysDirectory(d)
                 PROVE  fs'.inodes[d].size >= fs.inodes[d].size
      BY DEF NoneShrinks
    <3>1. fs.inodes[d].size \in Nat
      BY <1>1, LayoutAssumption DEF Sound, Volume, Inode
    <3> QED
      BY <2>2, <2>6, <2>8, <3>1 DEF StaysDirectory, INODE_FREE, INODE_DIRECTORY
  <2>11. EntriesStay
    <3>1. ClearsOne(fs, fs', sector, slot)
      BY <2>2, <2>6, <2>8 DEF ClearsOne
    <3> QED
      BY <1>1, <2>10, <3>1, OneCleared
  <2> QED
    BY <2>2, <2>9, <2>11
<1> QED
  BY <1>2, <1>3 DEF RmDir

(* The volume mkyfs leaves: only the root directory names a block.          *)
LEMMA FreshLedger == Init => boots = 0 /\ Ledger(fs)
<1> SUFFICES ASSUME Init PROVE boots = 0 /\ Ledger(fs)
  OBVIOUS
<1>1. PICK slotFree \in BOOLEAN, stray \in SUBSET Stray :
        \E looks \in InOrder(FreeLooks(FreshInodes, slotFree)) :
          fs = Boot(FreshInodes, FreshBlocks, slotFree, stray, looks)
  BY DEF Init
<1>2. fs.inodes = FreshInodes
  BY <1>1 DEF Boot
<1>3. Sound(fs)
  BY InitSound DEF IInv
<1>4. ASSUME NEW n \in Inodes
      PROVE  /\ FreshInodes[n].direct[0] = IF n = ROOTINODE THEN RootBlock ELSE 0
             /\ FreshInodes[n].indirect = 0
             /\ FreshInodes[n].type = IF n = ROOTINODE THEN INODE_DIRECTORY ELSE INODE_FREE
  BY LayoutFacts DEF FreshInodes
<1>5. ASSUME NEW n \in Inodes
      PROVE  Holds(FreshInodes[n]) = IF n = ROOTINODE THEN {RootBlock} ELSE {}
  <2>1. RootBlock # 0 /\ RootBlock # ERROR
    BY LayoutFacts
  <2>2. CASE n = ROOTINODE
    <3>1. FreshInodes[n].direct[0] = RootBlock /\ FreshInodes[n].indirect = 0
      BY <1>4, <2>2
    <3> QED
      BY <2>1, <2>2, <3>1 DEF Holds
  <2>3. CASE n # ROOTINODE
    <3>1. FreshInodes[n].direct[0] = 0 /\ FreshInodes[n].indirect = 0
      BY <1>4, <2>3
    <3> QED
      BY <2>3, <3>1 DEF Holds
  <2> QED
    BY <2>2, <2>3
<1>6. RootBlock \notin fs.free \cup InodeBlocks
  <2>1. ROOTINODE \in Inodes /\ RootBlock # 0
    BY LayoutFacts
  <2>2. Owns(fs.inodes[ROOTINODE]) /\ fs.inodes[ROOTINODE].direct[0] = RootBlock
    BY <1>2, <1>4, <2>1 DEF Owns, INODE_FREE, INODE_DIRECTORY
  <2> QED
    BY <1>3, <2>1, <2>2 DEF Sound, Fitting
<1>7. ASSUME NEW n \in Inodes
      PROVE  Alone(fs, n, fs.inodes[n])
  <2>1. fs.inodes[n].direct[0] # 0 => fs.inodes[n].direct[0] # fs.inodes[n].indirect
    BY <1>2, <1>4
  <2>2. Holds(fs.inodes[n]) \cap (fs.free \cup InodeBlocks) = {}
    BY <1>2, <1>5, <1>6
  <2>3. \A m \in Inodes \ {n} : Holds(fs.inodes[m]) \cap Holds(fs.inodes[n]) = {}
    BY <1>2, <1>5
  <2> QED
    BY <2>1, <2>2, <2>3 DEF Alone
<1> QED
  BY <1>7 DEF Ledger, Init

(* Every step up to the first restart keeps the ledger and the entries.     *)
LEMMA SessionStep ==
  ASSUME IInv, boots = 0 => Ledger(fs), [Next]_vars, boots' = 0
  PROVE  Ledger(fs') /\ EntriesStay
<1>1. CASE UNCHANGED vars
  BY <1>1, UnchangedEntries DEF IInv, vars
<1>2. CASE Reboot
  BY <1>2 DEF Reboot, IInv
<1>3. CASE Shutdown
  BY <1>3, UnchangedEntries DEF Shutdown, IInv
<1>4. ASSUME NEW c \in Clients, Request(c)
      PROVE  Ledger(fs') /\ EntriesStay
  <2>1. Ledger(fs)
    <3>1. ASSUME NEW p \in Paths, \/ Create(c, p) \/ MkDir(c, p) \/ Unlink(c, p) \/ RmDir(c, p)
                                  \/ ChDir(c, p) \/ Open(c, p) \/ Stat(c, p)
          PROVE  boots' = boots
      BY <3>1 DEF Create, MkDir, Unlink, RmDir, ChDir, Open, Stat, Lookup, MakeNew, CreateExisting,
                  CreateRefused, MkDirRefused, ReplyError, ReplyWith, Crash
    <3>2. ASSUME NEW old \in Paths, NEW new \in Paths, Link(c, old, new)
          PROVE  boots' = boots
      BY <3>2 DEF Link, ReplyError, ReplyWith
    <3> QED
      BY <1>4, <3>1, <3>2 DEF Request
  <2>2. ASSUME fs' = fs
        PROVE  Ledger(fs') /\ EntriesStay
    BY <2>1, <2>2, UnchangedEntries DEF IInv
  <2>3. ASSUME NEW p \in Paths, Create(c, p) \/ MkDir(c, p)
        PROVE  Ledger(fs') /\ EntriesStay
    <3>1. \A type \in {INODE_DIRECTORY, INODE_REGULAR} :
            MakeNew(c, p, type) => Ledger(fs') /\ EntriesStay
      BY <2>1, MakeNewKeeps
    <3>2. CreateExisting(c, p) => Ledger(fs') /\ EntriesStay
      BY <2>1, CreateExistingKeeps
    <3>3. CreateRefused(c, p) \/ MkDirRefused(c, p) => fs' = fs
      BY DEF CreateRefused, MkDirRefused, ReplyError
    <3> QED
      BY <2>2, <2>3, <3>1, <3>2, <3>3 DEF Create, MkDir
  <2>4. ASSUME NEW p \in Paths, Unlink(c, p)
        PROVE  Ledger(fs') /\ EntriesStay
    BY <2>1, <2>4, UnlinkKeeps
  <2>5. ASSUME NEW p \in Paths, RmDir(c, p)
        PROVE  Ledger(fs') /\ EntriesStay
    BY <2>1, <2>5, RmDirKeeps
  <2>6. ASSUME NEW p \in Paths, ChDir(c, p) \/ Open(c, p) \/ Stat(c, p)
        PROVE  Ledger(fs') /\ EntriesStay
    <3>1. fs' = fs
      BY <2>6 DEF ChDir, Open, Stat, Lookup, ReplyError, ReplyWith
    <3> QED
      BY <2>2, <3>1
  <2>7. ASSUME NEW old \in Paths, NEW new \in Paths, Link(c, old, new)
        PROVE  Ledger(fs') /\ EntriesStay
    BY <2>1, <2>7, LinkKeeps
  <2> QED
    BY <1>4, <2>3, <2>4, <2>5, <2>6, <2>7, Zenon DEF Request
<1> QED
  BY <1>1, <1>2, <1>3, <1>4 DEF Next

SessionInv == IInv /\ (boots = 0 => Ledger(fs))

(* The ledger is kept until the server is first restarted.                  *)
THEOREM SessionInvariance == Spec => []SessionInv
<1>1. Init => SessionInv
  BY InitSound, FreshLedger DEF SessionInv
<1>2. SessionInv /\ [Next]_vars => SessionInv'
  BY StepSound, SessionStep DEF SessionInv
<1> QED
  BY <1>1, <1>2, PTL DEF Spec

(* Until the first restart no block has two users: data and indirect blocks *)
(* of all inodes, the free ones included, are pairwise different and cannot *)
(* be handed out.                                                           *)
THEOREM OneUserPerBlock == Spec => []SessionExclusive
<1>1. SessionInv => SessionExclusive
  BY DEF SessionInv, Ledger, Alone, Holds, SessionExclusive, BlocksNamedBy
<1> QED
  BY <1>1, SessionInvariance, PTL

(* Until the first restart no directory shrinks, and a request changes one  *)
(* entry of one directory at most, by clearing it.                          *)
THEOREM EntriesSurvive == Spec => EntriesKept
<1>1. SessionInv /\ [Next]_vars =>
        [boots' = 0 =>
           /\ \A n \in Inodes : StaysDirectory(n) => fs'.inodes[n].size >= fs.inodes[n].size
           /\ \A e, f \in ChangedEntries : e = f
           /\ \A e \in ChangedEntries : fs'.blocks[fs.inodes[e[1]].direct[0]][e[2]] = NoEntry]_vars
  BY SessionStep DEF SessionInv, EntriesStay
<1> QED
  BY <1>1, SessionInvariance, PTL DEF Spec, EntriesKept
=============================================================================
