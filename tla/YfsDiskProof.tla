---------------------------- MODULE YfsDiskProof ----------------------------
(***************************************************************************)
(* Lemmas about the operators of YfsDisk and YfsDir, for every layout that *)
(* satisfies LayoutAssumption.                                             *)
(***************************************************************************)
EXTENDS YfsDir, FiniteSetTheorems, WellFoundedInduction, TLAPS

(* Every nonempty set of natural numbers has a least member, so a scan that *)
(* can hit something stops at First.                                        *)
LEMMA FirstOfNat ==
  ASSUME NEW S, S \subseteq Nat, S # {}
  PROVE  /\ First(S) \in S
         /\ \A j \in S : First(S) <= j
<1>1. IsWellFoundedOn(OpToRel(<, Nat), Nat)
  BY NatLessThanWellFounded
<1>2. PICK m \in S : \A y \in S : ~ (<<y, m>> \in OpToRel(<, Nat))
  BY <1>1, WFMin
<1>3. ASSUME NEW j \in S, j < m
      PROVE  FALSE
  <2>1. <<j, m>> \in Nat \X Nat
    OBVIOUS
  <2>2. <<j, m>> \in OpToRel(<, Nat)
    BY <2>1, <1>3, Zenon DEF OpToRel
  <2> QED
    BY <2>2, <1>2
<1>4. \A j \in S : m <= j
  BY <1>3
<1> QED
  BY <1>4 DEF First

(* The numbers of the layout are where they are used.                       *)
LEMMA LayoutFacts ==
  /\ ROOTINODE \in Offered /\ Offered \subseteq Inodes
  /\ 0 \in Blocks /\ RootBlock \in Blocks /\ InodeBlocks \subseteq Blocks
  /\ RootBlock \notin InodeBlocks /\ RootBlock # 0 /\ 0 \notin InodeBlocks
  /\ 0 \in Directs /\ Directs \subseteq Blocks
  /\ 0 \in Slots /\ 1 \in Slots
  /\ 0 \notin Offered /\ ERROR \notin Blocks /\ ERROR \notin Offered
<1>1. \A k \in Inodes : Considered(k) \in Inodes
  BY LayoutAssumption DEF Inodes, Considered
<1>2. ROOTINODE \in Inodes /\ Considered(ROOTINODE) = ROOTINODE
  BY LayoutAssumption DEF Inodes, Considered, ROOTINODE
<1>3. ROOTINODE \in Offered /\ Offered \subseteq Inodes
  BY <1>1, <1>2 DEF Offered
<1>4. 0 \notin Inodes /\ ERROR \notin Inodes /\ ERROR \notin Blocks
  BY DEF Inodes, ERROR, Blocks
<1>5. 0 \in Blocks /\ RootBlock \in Blocks /\ InodeBlocks \subseteq Blocks
  BY LayoutAssumption DEF Blocks, RootBlock, InodeBlocks
<1>6. RootBlock \notin InodeBlocks /\ RootBlock # 0 /\ 0 \notin InodeBlocks
  BY LayoutAssumption DEF RootBlock, InodeBlocks
<1>7. 0 \in Directs /\ Directs \subseteq Blocks /\ 0 \in Slots /\ 1 \in Slots
  BY LayoutAssumption DEF Directs, Blocks, Slots
<1> QED
  BY <1>3, <1>4, <1>5, <1>6, <1>7

(* The slot and the direct[] index of every entry an inode can have.        *)
LEMMA EntryPlace ==
  ASSUME NEW size \in 0 .. MaxSize
  PROVE  size \div EntriesPerBlock \in Directs /\ size % EntriesPerBlock \in Slots
BY LayoutAssumption

(* A directory grows exactly when the entry just written was the last of    *)
(* its block.                                                               *)
LEMMA GrowsAtTheEnd ==
  ASSUME NEW size \in Nat, (size + 1) % EntriesPerBlock = 0
  PROVE  (size % EntriesPerBlock) + 1 = EntriesPerBlock
<1> DEFINE m == EntriesPerBlock
           q == size \div m
           r == size % m
           t == (size + 1) \div m
<1>1. m \in Nat /\ m >= 3
  BY LayoutAssumption
<1>2. size = m * q + r /\ r \in 0 .. m - 1 /\ q \in Int
  BY <1>1
<1>3. size + 1 = m * t /\ t \in Int
  BY <1>1
<1>4. m * (t - q) = r + 1
  BY <1>1, <1>2, <1>3
<1>5. t - q >= 1
  BY <1>1, <1>2, <1>3, <1>4
<1>6. t - q < 2
  BY <1>1, <1>2, <1>3, <1>4
<1> QED
  BY <1>1, <1>2, <1>3, <1>4, <1>5, <1>6

----------------------------------------------------------------------------
(* Types.  Every helper maps volumes to volumes.                            *)

LEMMA EmptyTypes == NoEntry \in Entry /\ EmptyBlock \in [Slots -> Entry]
<1>1. NoName \in Names
  BY LayoutAssumption
<1> QED
  BY <1>1 DEF NoEntry, EmptyBlock, Entry

LEMMA EntryTypes ==
  ASSUME NEW n \in Offered, NEW name \in Names
  PROVE  [inum |-> n, name |-> name] \in Entry
BY DEF Entry

LEMMA PointerTypes ==
  ASSUME NEW b \in Blocks
  PROVE  [inum |-> b, name |-> POINTER] \in Entry
BY DEF Entry

(* A block is found exactly when one is free and the count is not 0; it was *)
(* free, it is no longer, and the inode table and the queue stay as they    *)
(* were.                                                                    *)
LEMMA FindFreeBlockTypes ==
  ASSUME NEW v \in Volume
  PROVE  LET got == FindFreeBlock(v) IN
         /\ got.fs \in Volume
         /\ got.block \in Blocks \cup {ERROR}
         /\ got.fs.inodes = v.inodes /\ got.fs.nodes = v.nodes
         /\ got.block = ERROR => got.fs = v
         /\ got.block # ERROR => /\ got.block \in v.free
                                 /\ got.fs.free = v.free \ {got.block}
                                 /\ got.fs.nfree = v.nfree - 1
<1> DEFINE b == First(v.free)
           got == FindFreeBlock(v)
<1>1. CASE v.nfree = 0 \/ v.free = {}
  <2>1. got = [fs |-> v, block |-> ERROR]
    BY <1>1 DEF FindFreeBlock
  <2> QED
    BY <2>1
<1>2. CASE ~ (v.nfree = 0 \/ v.free = {})
  <2>1. v.free \subseteq Blocks /\ Blocks \subseteq Nat
    BY LayoutAssumption DEF Volume, Blocks
  <2>2. b \in v.free /\ b \in Blocks /\ b # ERROR
    <3>1. b \in v.free
      BY <2>1, <1>2, FirstOfNat
    <3> QED
      BY <3>1, <2>1, LayoutFacts
  <2> HIDE DEF b
  <2> DEFINE taken   == [v EXCEPT !.free = v.free \ {b}]
             counted == [taken EXCEPT !.nfree = taken.nfree - 1]
             cleared == [counted EXCEPT !.blocks = [counted.blocks EXCEPT ![b] = EmptyBlock]]
  <2>3. /\ taken \in Volume /\ taken.inodes = v.inodes /\ taken.nodes = v.nodes
        /\ taken.free = v.free \ {b} /\ taken.nfree = v.nfree /\ taken.blocks = v.blocks
    BY DEF Volume
  <2>a. got = [fs |-> cleared, block |-> b]
    BY <1>2, <2>3, Zenon DEF FindFreeBlock, b
  <2> HIDE DEF taken
  <2>4. /\ counted \in Volume /\ counted.inodes = v.inodes /\ counted.nodes = v.nodes
        /\ counted.free = v.free \ {b} /\ counted.nfree = v.nfree - 1
        /\ counted.blocks = v.blocks
    BY <2>3 DEF Volume
  <2> HIDE DEF counted
  <2>5. /\ cleared \in Volume /\ cleared.inodes = v.inodes /\ cleared.nodes = v.nodes
        /\ cleared.free = v.free \ {b} /\ cleared.nfree = v.nfree - 1
    BY <2>2, <2>4, EmptyTypes DEF Volume
  <2> HIDE DEF cleared, got
  <2> QED
    BY <2>2, <2>5, <2>a DEF got
<1> QED
  BY <1>1, <1>2

(* Writing an inode changes that inode alone: all its fields become those   *)
(* of the copy, and direct[0] always does.                                  *)
LEMMA WriteInodeTypes ==
  ASSUME NEW v \in Volume, NEW n \in Inodes, NEW node \in Inode
  PROVE  LET w == WriteInodeToDisk(v, n, node) IN
         /\ w \in Volume
         /\ w.blocks = v.blocks /\ w.free = v.free /\ w.nfree = v.nfree /\ w.nodes = v.nodes
         /\ \A m \in Inodes \ {n} : w.inodes[m] = v.inodes[m]
         /\ w.inodes[n].type = node.type /\ w.inodes[n].size = node.size
         /\ w.inodes[n].nlink = node.nlink
         /\ w.inodes[n].indirect = node.indirect
         /\ w.inodes[n].direct[0] = node.direct[0]
         /\ \A i \in Directs : w.inodes[n].direct[i] \in {node.direct[i], v.inodes[n].direct[i]}
<1> DEFINE kept == [i \in Directs |-> IF i <= node.size \div EntriesPerBlock
                                      THEN node.direct[i] ELSE v.inodes[n].direct[i]]
           x == [node EXCEPT !.direct = kept]
           w == WriteInodeToDisk(v, n, node)
<1>1. node.direct \in [Directs -> Blocks] /\ v.inodes[n].direct \in [Directs -> Blocks]
  BY DEF Volume, Inode
<1>2. kept \in [Directs -> Blocks]
  BY <1>1
<1>3. 0 \in Directs /\ 0 <= node.size \div EntriesPerBlock
  <2>1. node.size \in 0 .. MaxSize
    BY DEF Inode
  <2>2. node.size \div EntriesPerBlock \in Directs
    BY <2>1, EntryPlace
  <2> QED
    BY <2>2, LayoutFacts DEF Directs
<1>4. kept[0] = node.direct[0]
  BY <1>3
<1>5. \A i \in Directs : kept[i] \in {node.direct[i], v.inodes[n].direct[i]}
  OBVIOUS
<1> HIDE DEF kept
<1>6. x \in Inode /\ x.direct = kept /\ x.type = node.type /\ x.size = node.size
      /\ x.nlink = node.nlink /\ x.indirect = node.indirect
  BY <1>2 DEF Inode
<1> HIDE DEF x
<1>7. w = [v EXCEPT !.inodes = [@ EXCEPT ![n] = x]]
  BY DEF WriteInodeToDisk, x, kept
<1> HIDE DEF w
<1>8. w \in Volume /\ w.inodes = [v.inodes EXCEPT ![n] = x]
      /\ w.blocks = v.blocks /\ w.free = v.free /\ w.nfree = v.nfree /\ w.nodes = v.nodes
  BY <1>6, <1>7 DEF Volume
<1>9. v.inodes \in [Inodes -> Inode]
  BY DEF Volume
<1> QED
  BY <1>4, <1>5, <1>6, <1>8, <1>9 DEF w

----------------------------------------------------------------------------
(* The inductive invariant, as predicates of volumes.                       *)

OneBlock(node) == \A i \in Directs \ {0} : node.direct[i] = 0
Owns(node)     == node.type # INODE_FREE /\ node.direct[0] # 0

(* Node as inode n owns no block that is free, belongs to the inode table   *)
(* or is owned by another inode.                                            *)
Fitting(v, n, node) ==
  Owns(node) =>
    /\ node.direct[0] \notin v.free \cup InodeBlocks
    /\ \A m \in Inodes \ {n} : Owns(v.inodes[m]) => v.inodes[m].direct[0] # node.direct[0]

Counted(v) == v.nfree >= Cardinality(v.free)

(* Inodes init() never offers stay free: Boot does not mark their blocks.   *)
Sound(v) ==
  /\ v \in Volume
  /\ Counted(v)
  /\ v.free \cap InodeBlocks = {}
  /\ \A n \in Inodes : OneBlock(v.inodes[n]) /\ Fitting(v, n, v.inodes[n])
  /\ \A n \in Inodes \ Offered : v.inodes[n].type = INODE_FREE

(* A set of blocks is finite, so that it can be counted.                    *)
LEMMA FreeFinite ==
  ASSUME NEW S \in SUBSET Blocks
  PROVE  IsFiniteSet(S) /\ Cardinality(S) \in Nat
<1>1. IsFiniteSet(Blocks)
  BY LayoutAssumption, FS_Interval DEF Blocks
<1>2. IsFiniteSet(S)
  BY <1>1, FS_Subset
<1> QED
  BY <1>2, FS_CardinalityType

(* A step that keeps the inode table and takes blocks off the free list     *)
(* keeps a volume sound, and keeps what fits it fitting.                    *)
LEMMA ShrinkSound ==
  ASSUME NEW v, NEW w, Sound(v), w \in Volume,
         w.inodes = v.inodes, w.free \subseteq v.free, Counted(w)
  PROVE  /\ Sound(w)
         /\ \A n \in Inodes : \A node : Fitting(v, n, node) => Fitting(w, n, node)
<1>1. \A n \in Inodes : \A node : Fitting(v, n, node) => Fitting(w, n, node)
  BY DEF Fitting
<1>2. \A n \in Inodes : OneBlock(w.inodes[n]) /\ Fitting(w, n, w.inodes[n])
  BY <1>1 DEF Sound
<1> QED
  BY <1>1, <1>2 DEF Sound

(* Taking a block keeps the volume sound, and every inode that fitted still *)
(* does: none in use named the block.                                       *)
LEMMA FindFreeBlockSound ==
  ASSUME NEW v, Sound(v)
  PROVE  LET got == FindFreeBlock(v) IN
         /\ Sound(got.fs)
         /\ got.fs.inodes = v.inodes /\ got.fs.nodes = v.nodes
         /\ got.fs.free \subseteq v.free
         /\ got.block \in Blocks \cup {ERROR}
         /\ got.block = ERROR => got.fs = v
         /\ got.block # ERROR => got.block \in v.free \ got.fs.free
         /\ \A n \in Inodes : \A node : Fitting(v, n, node) => Fitting(got.fs, n, node)
<1> DEFINE got == FindFreeBlock(v)
<1>1. v \in Volume /\ Counted(v)
  BY DEF Sound
<1>2. /\ got.fs \in Volume
      /\ got.block \in Blocks \cup {ERROR}
      /\ got.fs.inodes = v.inodes /\ got.fs.nodes = v.nodes
      /\ got.block = ERROR => got.fs = v
      /\ got.block # ERROR => /\ got.block \in v.free
                              /\ got.fs.free = v.free \ {got.block}
                              /\ got.fs.nfree = v.nfree - 1
  BY <1>1, FindFreeBlockTypes
<1> HIDE DEF got
<1>3. got.fs.free \subseteq v.free
  BY <1>2
<1>4. Counted(got.fs)
  <2>1. CASE got.block = ERROR
    BY <2>1, <1>1, <1>2
  <2>2. CASE got.block # ERROR
    <3>1. IsFiniteSet(v.free) /\ Cardinality(v.free) \in Nat /\ v.nfree \in Int
      BY <1>1, FreeFinite DEF Volume
    <3>2. Cardinality(v.free \ {got.block}) = Cardinality(v.free) - 1
      BY <2>2, <1>2, <3>1, FS_RemoveElement
    <3>3. v.nfree - 1 >= Cardinality(v.free) - 1
      BY <3>1, <1>1 DEF Counted
    <3> QED
      BY <2>2, <1>2, <3>2, <3>3 DEF Counted
  <2> QED
    BY <2>1, <2>2
<1>5. /\ Sound(got.fs)
      /\ \A n \in Inodes : \A node : Fitting(v, n, node) => Fitting(got.fs, n, node)
  BY <1>2, <1>3, <1>4, ShrinkSound
<1>6. got.block # ERROR => got.block \in v.free \ got.fs.free
  BY <1>2
<1> QED
  BY <1>2, <1>3, <1>5, <1>6 DEF got

(* An inode that fits can be written.                                       *)
LEMMA WriteInodeSound ==
  ASSUME NEW v, Sound(v), NEW n \in Offered, NEW node \in Inode,
         OneBlock(node), Fitting(v, n, node)
  PROVE  LET w == WriteInodeToDisk(v, n, node) IN
         /\ Sound(w)
         /\ w.blocks = v.blocks /\ w.free = v.free /\ w.nodes = v.nodes
         /\ \A m \in Inodes \ {n} : w.inodes[m] = v.inodes[m]
         /\ w.inodes[n].type = node.type
         /\ w.inodes[n].direct[0] = node.direct[0]
<1> DEFINE w == WriteInodeToDisk(v, n, node)
<1>1. v \in Volume /\ n \in Inodes
  BY LayoutFacts DEF Sound
<1>2. /\ w \in Volume
      /\ w.blocks = v.blocks /\ w.free = v.free /\ w.nfree = v.nfree /\ w.nodes = v.nodes
      /\ \A m \in Inodes \ {n} : w.inodes[m] = v.inodes[m]
      /\ w.inodes[n].type = node.type
      /\ w.inodes[n].direct[0] = node.direct[0]
      /\ \A i \in Directs : w.inodes[n].direct[i] \in {node.direct[i], v.inodes[n].direct[i]}
  BY <1>1, WriteInodeTypes
<1> HIDE DEF w
<1>3. Counted(w) /\ w.free \cap InodeBlocks = {}
  BY <1>2 DEF Sound, Counted
<1>4. \A m \in Inodes : OneBlock(w.inodes[m])
  BY <1>1, <1>2 DEF Sound, OneBlock
<1>5. Owns(w.inodes[n]) <=> Owns(node)
  BY <1>2 DEF Owns
<1>6. Fitting(w, n, w.inodes[n])
  BY <1>2, <1>5 DEF Fitting
<1>7. ASSUME NEW m \in Inodes \ {n}
      PROVE  Fitting(w, m, w.inodes[m])
  <2>1. Fitting(v, m, v.inodes[m]) /\ w.inodes[m] = v.inodes[m]
    BY <1>2 DEF Sound
  <2>2. Owns(v.inodes[m]) /\ Owns(node) => node.direct[0] # v.inodes[m].direct[0]
    BY DEF Fitting
  <2> QED
    BY <2>1, <2>2, <1>2, <1>5 DEF Fitting
<1>8. \A m \in Inodes \ Offered : w.inodes[m].type = INODE_FREE
  BY <1>2 DEF Sound
<1>9. Sound(w)
  BY <1>2, <1>3, <1>4, <1>6, <1>7, <1>8 DEF Sound
<1> QED
  BY <1>2, <1>9 DEF w

(* Contents of one block.                                                   *)
LEMMA PutBlockSound ==
  ASSUME NEW v, Sound(v), NEW b \in Blocks, NEW content \in [Slots -> Entry]
  PROVE  LET w == [v EXCEPT !.blocks = [@ EXCEPT ![b] = content]] IN
         /\ Sound(w)
         /\ w.inodes = v.inodes /\ w.free = v.free /\ w.nodes = v.nodes
<1> DEFINE w == [v EXCEPT !.blocks = [@ EXCEPT ![b] = content]]
<1>1. v \in Volume
  BY DEF Sound
<1>2. /\ w \in Volume /\ w.inodes = v.inodes /\ w.free = v.free
      /\ w.nfree = v.nfree /\ w.nodes = v.nodes
  BY <1>1 DEF Volume
<1> HIDE DEF w
<1>3. Counted(w)
  BY <1>2 DEF Sound, Counted
<1>4. Sound(w)
  BY <1>2, <1>3, ShrinkSound
<1> QED
  BY <1>2, <1>4 DEF w

(* Storing the pointer changes contents only.                               *)
LEMMA StorePointerSound ==
  ASSUME NEW v, Sound(v), NEW indirect \in Blocks \cup {ERROR},
         NEW buffer, indirect # ERROR => buffer \in [Slots -> Entry],
         NEW index \in Nat, SlotOfPointer(index) \in Slots,
         NEW block \in Blocks
  PROVE  LET w == StorePointer(v, indirect, buffer, index, block) IN
         /\ Sound(w)
         /\ w.inodes = v.inodes /\ w.free = v.free /\ w.nodes = v.nodes
<1> DEFINE w == StorePointer(v, indirect, buffer, index, block)
           content == [buffer EXCEPT ![SlotOfPointer(index)] =
                                       [inum |-> block, name |-> POINTER]]
<1>1. CASE indirect = ERROR
  <2>1. w = v
    BY <1>1 DEF StorePointer
  <2> QED
    BY <2>1
<1>2. CASE indirect # ERROR
  <2>2. content \in [Slots -> Entry]
    BY <1>2, PointerTypes
  <2>3. w = [v EXCEPT !.blocks = [@ EXCEPT ![indirect] = content]]
    BY <1>2 DEF StorePointer
  <2> HIDE DEF w, content
  <2> QED
    BY <1>2, <2>2, <2>3, PutBlockSound DEF w
<1> QED
  BY <1>1, <1>2

(* An inode that grows beyond direct[], as every directory does, changes in *)
(* the indirect field alone.                                                *)
LEMMA AddNewEmptyBlockSound ==
  ASSUME NEW v, Sound(v), NEW node \in Inode,
         NEW index \in Nat, ~ (index < NumDirect), SlotOfPointer(index) \in Slots
  PROVE  LET got == AddNewEmptyBlock(v, node, index) IN
         /\ Sound(got.fs)
         /\ got.fs.inodes = v.inodes /\ got.fs.nodes = v.nodes
         /\ got.fs.free \subseteq v.free
         /\ got.node \in Inode
         /\ got.node.direct = node.direct /\ got.node.type = node.type
         /\ got.node.size = node.size
         /\ \A n \in Inodes : \A x : Fitting(v, n, x) => Fitting(got.fs, n, x)
<1> DEFINE got   == AddNewEmptyBlock(v, node, index)
           ind   == IF node.indirect = 0 THEN FindFreeBlock(v)
                    ELSE [fs |-> v, block |-> node.indirect]
           grown == [node EXCEPT !.indirect = ind.block]
           new   == FindFreeBlock(ind.fs)
           stored == StorePointer(new.fs, ind.block, ind.fs.blocks[ind.block],
                                  index, new.block)
<1>1. got = IF (node.indirect = 0 /\ ind.block = ERROR) \/ new.block = ERROR
            THEN [fs |-> ind.fs, node |-> grown]
            ELSE [fs |-> stored, node |-> grown]
  BY Zenon DEF AddNewEmptyBlock
<1>2. /\ Sound(ind.fs) /\ ind.fs.inodes = v.inodes /\ ind.fs.nodes = v.nodes
      /\ ind.fs.free \subseteq v.free
      /\ ind.block \in Blocks \cup {ERROR}
      /\ \A n \in Inodes : \A x : Fitting(v, n, x) => Fitting(ind.fs, n, x)
  <2>1. CASE node.indirect = 0
    <3>1. ind = FindFreeBlock(v)
      BY <2>1
    <3> HIDE DEF ind
    <3> QED
      BY <3>1, FindFreeBlockSound
  <2>2. CASE node.indirect # 0
    <3>1. node.indirect \in Blocks \cup {ERROR}
      BY DEF Inode
    <3>2. ind = [fs |-> v, block |-> node.indirect]
      BY <2>2
    <3> HIDE DEF ind
    <3> QED
      BY <3>1, <3>2
  <2> QED
    BY <2>1, <2>2
<1> HIDE DEF ind
<1>3. /\ grown \in Inode /\ grown.direct = node.direct /\ grown.type = node.type
      /\ grown.size = node.size
  BY <1>2 DEF Inode
<1>4. /\ Sound(new.fs) /\ new.fs.inodes = v.inodes /\ new.fs.nodes = v.nodes
      /\ new.fs.free \subseteq v.free
      /\ new.block \in Blocks \cup {ERROR}
      /\ \A n \in Inodes : \A x : Fitting(v, n, x) => Fitting(new.fs, n, x)
  <2>1. /\ Sound(new.fs) /\ new.fs.inodes = ind.fs.inodes /\ new.fs.nodes = ind.fs.nodes
        /\ new.fs.free \subseteq ind.fs.free
        /\ new.block \in Blocks \cup {ERROR}
        /\ \A n \in Inodes : \A x : Fitting(ind.fs, n, x) => Fitting(new.fs, n, x)
    BY <1>2, FindFreeBlockSound
  <2> HIDE DEF new
  <2> QED
    BY <1>2, <2>1
<1> HIDE DEF new, grown
<1>5. CASE (node.indirect = 0 /\ ind.block = ERROR) \/ new.block = ERROR
  <2>1. got = [fs |-> ind.fs, node |-> grown]
    BY <1>1, <1>5
  <2> HIDE DEF got
  <2>2. got.fs = ind.fs /\ got.node = grown
    BY <2>1
  <2> QED
    BY <2>2, <1>2, <1>3 DEF got
<1>6. CASE ~ ((node.indirect = 0 /\ ind.block = ERROR) \/ new.block = ERROR)
  <2>1. got = [fs |-> stored, node |-> grown]
    BY <1>1, <1>6
  <2>2. ind.block # ERROR => ind.fs.blocks[ind.block] \in [Slots -> Entry]
    BY <1>2 DEF Sound, Volume
  <2>3. new.block \in Blocks
    BY <1>4, <1>6
  <2>4. Sound(stored) /\ stored.inodes = new.fs.inodes /\ stored.free = new.fs.free
        /\ stored.nodes = new.fs.nodes
    <3> DEFINE v1 == new.fs  i1 == ind.block  b1 == new.block  c1 == ind.fs.blocks[i1]
    <3>1. /\ Sound(v1) /\ i1 \in Blocks \cup {ERROR} /\ b1 \in Blocks
          /\ i1 # ERROR => c1 \in [Slots -> Entry]
      BY <1>2, <1>4, <2>2, <2>3
    <3> HIDE DEF v1, i1, b1, c1
    <3>2. LET w == StorePointer(v1, i1, c1, index, b1) IN
          /\ Sound(w)
          /\ w.inodes = v1.inodes /\ w.free = v1.free /\ w.nodes = v1.nodes
      BY <3>1, StorePointerSound, Zenon
    <3> QED
      BY <3>2 DEF v1, i1, b1, c1
  <2> HIDE DEF got, stored
  <2>5. got.fs = stored /\ got.node = grown
    BY <2>1
  <2>6. \A n \in Inodes : \A x : Fitting(new.fs, n, x) => Fitting(stored, n, x)
    BY <2>4 DEF Fitting
  <2> QED
    BY <2>4, <2>5, <2>6, <1>3, <1>4 DEF got
<1> QED
  BY <1>5, <1>6

(* An entry appended to a directory that fits leaves a directory that fits, *)
(* with the same blocks.                                                    *)
LEMMA WriteDirectorySound ==
  ASSUME NEW v, Sound(v), NEW n \in Offered, NEW node \in Inode,
         OneBlock(node), Fitting(v, n, node), node.size < MaxSize,
         NEW inum \in Offered, NEW name \in Names
  PROVE  LET got == WriteDirectoryToInode(v, node, n, inum, name) IN
         /\ Sound(got.fs)
         /\ got.fs.nodes = v.nodes /\ got.fs.free \subseteq v.free
         /\ \A m \in Inodes \ {n} : got.fs.inodes[m] = v.inodes[m]
         /\ got.fs.inodes[n].type = node.type
         /\ got.fs.inodes[n].direct[0] = node.direct[0]
         /\ got.node \in Inode /\ OneBlock(got.node) /\ Fitting(got.fs, n, got.node)
         /\ got.node.type = node.type /\ got.node.size = node.size + 1
         /\ got.node.direct = node.direct
<1> DEFINE got     == WriteDirectoryToInode(v, node, n, inum, name)
           slot    == node.size % EntriesPerBlock
           sector  == node.direct[node.size \div EntriesPerBlock]
           content == [v.blocks[sector] EXCEPT ![slot] = [inum |-> inum, name |-> name]]
           sized   == [node EXCEPT !.size = node.size + 1]
           grown   == IF sized.size % EntriesPerBlock = 0
                      THEN AddNewEmptyBlock(v, sized, slot + 1)
                      ELSE [fs |-> v, node |-> sized]
           put     == [grown.fs EXCEPT !.blocks = [@ EXCEPT ![sector] = content]]
<1>1. got = [fs |-> WriteInodeToDisk(put, n, grown.node), node |-> grown.node]
  BY Zenon DEF WriteDirectoryToInode
<1>2. node.size \in 0 .. MaxSize /\ node.direct \in [Directs -> Blocks] /\ MaxSize \in Nat
  BY LayoutAssumption DEF Inode
<1>3. slot \in Slots /\ sector \in Blocks
  BY <1>2, EntryPlace
<1>4. content \in [Slots -> Entry]
  <2>1. v.blocks[sector] \in [Slots -> Entry]
    BY <1>3 DEF Sound, Volume
  <2> QED
    BY <2>1, <1>3, EntryTypes
<1>5. /\ sized \in Inode /\ sized.direct = node.direct /\ sized.type = node.type
      /\ sized.size = node.size + 1
  BY <1>2 DEF Inode
<1>6. sized.size % EntriesPerBlock = 0 => slot + 1 = EntriesPerBlock
  BY <1>2, <1>5, GrowsAtTheEnd
<1> HIDE DEF slot, sector, content, sized
<1>7. /\ Sound(grown.fs) /\ grown.fs.inodes = v.inodes /\ grown.fs.nodes = v.nodes
      /\ grown.fs.free \subseteq v.free
      /\ grown.node \in Inode
      /\ grown.node.direct = node.direct /\ grown.node.type = node.type
      /\ grown.node.size = node.size + 1
      /\ \A m \in Inodes : \A x : Fitting(v, m, x) => Fitting(grown.fs, m, x)
  <2>1. CASE sized.size % EntriesPerBlock = 0
    <3>1. grown = AddNewEmptyBlock(v, sized, EntriesPerBlock)
      BY <2>1, <1>6
    <3>2. EntriesPerBlock \in Nat /\ ~ (EntriesPerBlock < NumDirect) /\ SlotOfPointer(EntriesPerBlock) \in Slots
      BY LayoutAssumption
    <3> HIDE DEF grown
    <3> QED
      BY <3>1, <3>2, <1>5, AddNewEmptyBlockSound
  <2>2. CASE sized.size % EntriesPerBlock # 0
    <3>1. grown = [fs |-> v, node |-> sized]
      BY <2>2
    <3> HIDE DEF grown
    <3>2. grown.fs = v /\ grown.node = sized
      BY <3>1
    <3> QED
      BY <3>2, <1>5
  <2> QED
    BY <2>1, <2>2
<1> HIDE DEF grown
<1>8. Sound(put) /\ put.inodes = v.inodes /\ put.free = grown.fs.free /\ put.nodes = v.nodes
  BY <1>3, <1>4, <1>7, PutBlockSound
<1> HIDE DEF put
<1>9. n \in Inodes
  BY LayoutFacts
<1>10. OneBlock(grown.node) /\ Fitting(put, n, grown.node)
  <2>1. Fitting(grown.fs, n, node)
    BY <1>7, <1>9
  <2> QED
    BY <2>1, <1>7, <1>8 DEF OneBlock, Fitting, Owns
<1> DEFINE w == WriteInodeToDisk(put, n, grown.node)
<1>11. /\ Sound(w)
       /\ w.free = put.free /\ w.nodes = put.nodes
       /\ \A m \in Inodes \ {n} : w.inodes[m] = put.inodes[m]
       /\ w.inodes[n].type = grown.node.type
       /\ w.inodes[n].direct[0] = grown.node.direct[0]
  BY <1>7, <1>8, <1>10, WriteInodeSound
<1>12. got.fs = w /\ got.node = grown.node
  BY <1>1
<1> HIDE DEF w, got
<1>13. Fitting(w, n, grown.node)
  BY <1>10, <1>11 DEF Fitting
<1> QED
  BY <1>7, <1>8, <1>10, <1>11, <1>12, <1>13 DEF got

(* A block an inode takes from the free list belongs to nobody.             *)
LEMMA TakenFits ==
  ASSUME NEW v, Sound(v), NEW w, w.inodes = v.inodes, NEW n \in Inodes, NEW node,
         node.direct[0] \in v.free \ w.free
  PROVE  Fitting(w, n, node)
<1>1. v.free \cap InodeBlocks = {}
  BY DEF Sound
<1>2. \A m \in Inodes : Owns(v.inodes[m]) => v.inodes[m].direct[0] \notin v.free
  BY DEF Sound, Fitting
<1> QED
  BY <1>1, <1>2 DEF Fitting

(* The copy setNewInode starts from, once it has a block.                   *)
StartOf(v, n, type) ==
  [v.inodes[n] EXCEPT !.type = type, !.nlink = 1, !.reuse = 0, !.size = 0,
                      !.direct = [@ EXCEPT ![0] = FindFreeBlock(v).block]]

(* "." is written into it, and then "..".                                   *)
WithDot(v, n, type) ==
  WriteDirectoryToInode(FindFreeBlock(v).fs, StartOf(v, n, type), n, n, Dot)

(* setNewInode in its parts: the zeroed block, ".", "..".                   *)
LEMMA SetNewInodeParts ==
  ASSUME NEW v, NEW n, NEW parent, NEW type
  PROVE  SetNewInode(v, n, type, parent) =
           IF FindFreeBlock(v).block = ERROR THEN FindFreeBlock(v).fs
           ELSE WriteDirectoryToInode(WithDot(v, n, type).fs, WithDot(v, n, type).node,
                                      n, parent, DotDot).fs
BY Zenon DEF SetNewInode, WithDot, StartOf

(* The inode setNewInode begins with, of size 0 in its new block.           *)
LEMMA StartFits ==
  ASSUME NEW v, Sound(v), NEW n \in Offered, NEW type \in {INODE_DIRECTORY, INODE_REGULAR},
         FindFreeBlock(v).block # ERROR
  PROVE  LET node == StartOf(v, n, type) IN
         /\ node \in Inode /\ node.type = type /\ node.size = 0
         /\ node.indirect = v.inodes[n].indirect
         /\ node.direct[0] = FindFreeBlock(v).block
         /\ OneBlock(node) /\ Fitting(FindFreeBlock(v).fs, n, node)
<1> DEFINE node == StartOf(v, n, type)
           b    == FindFreeBlock(v).block
           typed  == [v.inodes[n] EXCEPT !.type = type]
           linked == [typed EXCEPT !.nlink = 1]
           used   == [linked EXCEPT !.reuse = 0]
           empty  == [used EXCEPT !.size = 0]
           placed == [empty EXCEPT !.direct = [empty.direct EXCEPT ![0] = b]]
<1>1. /\ FindFreeBlock(v).fs.inodes = v.inodes
      /\ b \in Blocks /\ b \in v.free \ FindFreeBlock(v).fs.free
  BY FindFreeBlockSound
<1> HIDE DEF b
<1>2. n \in Inodes /\ v.inodes[n] \in Inode /\ OneBlock(v.inodes[n]) /\ 0 \in Directs
  BY LayoutFacts DEF Sound, Volume
<1>3. /\ typed \in Inode /\ typed.type = type /\ typed.direct = v.inodes[n].direct
      /\ typed.indirect = v.inodes[n].indirect
  BY <1>2 DEF Inode
<1>4. node = placed
  BY <1>3, Zenon DEF StartOf, b
<1> HIDE DEF typed, node
<1>5. /\ linked \in Inode /\ linked.type = type /\ linked.direct = v.inodes[n].direct
      /\ linked.indirect = v.inodes[n].indirect
  BY <1>3 DEF Inode
<1> HIDE DEF linked
<1>6. /\ used \in Inode /\ used.type = type /\ used.direct = v.inodes[n].direct
      /\ used.indirect = v.inodes[n].indirect
  BY <1>5 DEF Inode
<1> HIDE DEF used
<1>7. /\ empty \in Inode /\ empty.type = type /\ empty.direct = v.inodes[n].direct
      /\ empty.indirect = v.inodes[n].indirect /\ empty.size = 0
  BY <1>6, LayoutAssumption DEF Inode
<1> HIDE DEF empty
<1>8. [empty.direct EXCEPT ![0] = b] \in [Directs -> Blocks]
  BY <1>1, <1>2, <1>7 DEF Inode
<1>9. /\ placed \in Inode /\ placed.type = type /\ placed.size = 0
      /\ placed.indirect = v.inodes[n].indirect
      /\ placed.direct = [v.inodes[n].direct EXCEPT ![0] = b]
  BY <1>7, <1>8 DEF Inode
<1> HIDE DEF placed
<1>10. node.direct[0] = b /\ OneBlock(node)
  BY <1>2, <1>4, <1>9 DEF OneBlock, Inode
<1>11. Fitting(FindFreeBlock(v).fs, n, node)
  BY <1>1, <1>2, <1>10, TakenFits
<1> QED
  BY <1>4, <1>9, <1>10, <1>11 DEF node, b

(* The same inode with "." appended.                                        *)
LEMMA DotFits ==
  ASSUME NEW v, Sound(v), NEW n \in Offered, NEW type \in {INODE_DIRECTORY, INODE_REGULAR},
         FindFreeBlock(v).block # ERROR
  PROVE  LET self == WithDot(v, n, type) IN
         /\ Sound(self.fs)
         /\ self.fs.nodes = v.nodes /\ self.fs.free \subseteq v.free
         /\ \A m \in Inodes \ {n} : self.fs.inodes[m] = v.inodes[m]
         /\ self.node \in Inode /\ OneBlock(self.node) /\ Fitting(self.fs, n, self.node)
         /\ self.node.type = type /\ self.node.size = 1
         /\ self.node.direct[0] = FindFreeBlock(v).block
<1> DEFINE self == WithDot(v, n, type)
           node == StartOf(v, n, type)
           v1   == FindFreeBlock(v).fs
<1>1. /\ Sound(v1) /\ v1.inodes = v.inodes /\ v1.nodes = v.nodes /\ v1.free \subseteq v.free
  BY FindFreeBlockSound
<1>2. /\ node \in Inode /\ node.type = type /\ node.size = 0
      /\ node.direct[0] = FindFreeBlock(v).block
      /\ OneBlock(node) /\ Fitting(v1, n, node)
  BY StartFits
<1>3. self = WriteDirectoryToInode(v1, node, n, n, Dot)
  BY DEF WithDot
<1>4. Dot \in Names /\ node.size < MaxSize
  BY <1>2, LayoutAssumption
<1> HIDE DEF v1, node, self
<1>5. /\ Sound(self.fs)
      /\ self.fs.nodes = v1.nodes /\ self.fs.free \subseteq v1.free
      /\ \A m \in Inodes \ {n} : self.fs.inodes[m] = v1.inodes[m]
      /\ self.node \in Inode /\ OneBlock(self.node) /\ Fitting(self.fs, n, self.node)
      /\ self.node.type = node.type /\ self.node.size = node.size + 1
      /\ self.node.direct = node.direct
  BY <1>1, <1>2, <1>3, <1>4, WriteDirectorySound
<1> QED
  BY <1>1, <1>2, <1>5 DEF self

(* setNewInode changes inode n alone, and gives it a block that was free;   *)
(* without a free block it changes nothing.                                 *)
LEMMA SetNewInodeSound ==
  ASSUME NEW v, Sound(v), NEW n \in Offered, NEW parent \in Offered,
         NEW type \in {INODE_DIRECTORY, INODE_REGULAR}
  PROVE  LET w == SetNewInode(v, n, type, parent) IN
         /\ Sound(w)
         /\ w.nodes = v.nodes /\ w.free \subseteq v.free
         /\ \A m \in Inodes \ {n} : w.inodes[m] = v.inodes[m]
         /\ w.inodes = v.inodes \/ w.inodes[n].direct[0] \in v.free
<1> DEFINE w    == SetNewInode(v, n, type, parent)
           got  == FindFreeBlock(v)
           v1   == WithDot(v, n, type).fs
           x    == WithDot(v, n, type).node
           both == WriteDirectoryToInode(v1, x, n, parent, DotDot)
<1>1. w = IF got.block = ERROR THEN got.fs ELSE both.fs
  BY SetNewInodeParts
<1>2. /\ Sound(got.fs) /\ got.fs.inodes = v.inodes /\ got.fs.nodes = v.nodes
      /\ got.fs.free \subseteq v.free
      /\ got.block # ERROR => got.block \in v.free
  BY FindFreeBlockSound
<1>3. CASE got.block = ERROR
  <2>1. w = got.fs
    BY <1>1, <1>3
  <2> HIDE DEF w, got
  <2> QED
    BY <2>1, <1>2 DEF w
<1>4. CASE got.block # ERROR
  <2>1. /\ Sound(v1) /\ v1.nodes = v.nodes /\ v1.free \subseteq v.free
        /\ \A m \in Inodes \ {n} : v1.inodes[m] = v.inodes[m]
        /\ x \in Inode /\ OneBlock(x) /\ Fitting(v1, n, x)
        /\ x.size = 1 /\ x.direct[0] = got.block
    BY <1>4, DotFits
  <2>2. w = both.fs
    BY <1>1, <1>4
  <2>3. DotDot \in Names /\ 1 < MaxSize
    BY LayoutAssumption
  <2> HIDE DEF v1, x, w
  <2>4. /\ Sound(both.fs)
        /\ both.fs.nodes = v1.nodes /\ both.fs.free \subseteq v1.free
        /\ \A m \in Inodes \ {n} : both.fs.inodes[m] = v1.inodes[m]
        /\ both.fs.inodes[n].direct[0] = x.direct[0]
    BY <2>1, <2>3, WriteDirectorySound
  <2> HIDE DEF both, got
  <2> QED
    BY <2>1, <2>2, <2>4, <1>2, <1>4 DEF w
<1> QED
  BY <1>3, <1>4

----------------------------------------------------------------------------
(* The queue of free inodes, and the end of an inode. *)

(* A queue that getFreeInode can serve.                                     *)
LEMMA GetFreeInodeSound ==
  ASSUME NEW v, Sound(v), ~ GetFreeInodeFails(v)
  PROVE  /\ Sound(GetFreeInode(v)) /\ Head(v.nodes) \in Offered
         /\ GetFreeInode(v).inodes = v.inodes /\ GetFreeInode(v).free = v.free
<1>1. v \in Volume /\ v.nodes \in Seq(Offered) /\ Len(v.nodes) \in Nat
  BY DEF Sound, Volume
<1>2. v.nodes # << >>
  BY <1>1 DEF GetFreeInodeFails
<1>3. Tail(v.nodes) \in Seq(Offered) /\ Head(v.nodes) \in Offered
  BY <1>1, <1>2
<1> DEFINE rest == Tail(v.nodes)
           w == [v EXCEPT !.nodes = rest]
<1>4. w = GetFreeInode(v)
  BY DEF GetFreeInode
<1> HIDE DEF rest
<1>5. w \in Volume /\ w.inodes = v.inodes /\ w.free = v.free /\ w.nfree = v.nfree
  BY <1>1, <1>3 DEF Volume, rest
<1> HIDE DEF w
<1>6. Counted(w)
  BY <1>5 DEF Sound, Counted
<1>7. Sound(w)
  BY <1>5, <1>6, ShrinkSound
<1> QED
  BY <1>3, <1>4, <1>5, <1>7

(* The queue takes another inode; nothing else changes.                     *)
LEMMA AddFreeInodeSound ==
  ASSUME NEW v, Sound(v), NEW n \in Offered
  PROVE  /\ Sound(AddFreeInode(v, n))
         /\ AddFreeInode(v, n).inodes = v.inodes /\ AddFreeInode(v, n).free = v.free
         /\ AddFreeInode(v, n).blocks = v.blocks
<1> DEFINE longer == Append(v.nodes, n)
           w == [v EXCEPT !.nodes = longer]
<1>1. v \in Volume /\ longer \in Seq(Offered)
  BY DEF Sound, Volume
<1>2. w = AddFreeInode(v, n)
  BY DEF AddFreeInode
<1> HIDE DEF longer
<1>3. /\ w \in Volume /\ w.inodes = v.inodes /\ w.free = v.free /\ w.nfree = v.nfree
      /\ w.blocks = v.blocks
  BY <1>1 DEF Volume
<1> HIDE DEF w
<1>4. Counted(w)
  BY <1>3 DEF Sound, Counted
<1>5. Sound(w)
  BY <1>3, <1>4, ShrinkSound
<1> QED
  BY <1>2, <1>3, <1>5

(* Indices in place of block numbers: with one block each, the only index   *)
(* given back is 0, the boot block, which nobody owns.                      *)
LEMMA BlocksGivenBackBoot ==
  ASSUME NEW node, OneBlock(node)
  PROVE  BlocksGivenBack(node) \subseteq {0}
BY DEF OneBlock, BlocksGivenBack

(* What freeInode gives back is the boot block at most.                     *)
LEMMA AddFreeBlocksSound ==
  ASSUME NEW v, Sound(v), NEW bs \in SUBSET {0}
  PROVE  LET w == AddFreeBlocks(v, bs) IN
         /\ Sound(w)
         /\ w.inodes = v.inodes /\ w.free = v.free \cup bs
         /\ w.blocks = v.blocks /\ w.nodes = v.nodes
<1> DEFINE listed  == [v EXCEPT !.free = v.free \cup bs]
           counted == [listed EXCEPT !.nfree = listed.nfree + Cardinality(bs)]
<1>1. v \in Volume /\ v.free \in SUBSET Blocks /\ bs \in SUBSET Blocks /\ 0 \notin InodeBlocks
  BY LayoutFacts DEF Sound, Volume
<1>2. /\ IsFiniteSet(bs) /\ Cardinality(bs) \in Nat
      /\ IsFiniteSet(v.free) /\ Cardinality(v.free) \in Nat
      /\ Cardinality(v.free \cap bs) \in Nat
  <2>1. v.free \cap bs \in SUBSET Blocks
    BY <1>1
  <2> QED
    BY <1>1, <2>1, FreeFinite
<1>3. /\ listed \in Volume /\ listed.inodes = v.inodes /\ listed.free = v.free \cup bs
      /\ listed.nfree = v.nfree /\ listed.blocks = v.blocks /\ listed.nodes = v.nodes
  BY <1>1 DEF Volume
<1>4. AddFreeBlocks(v, bs) = counted
  BY <1>3, Zenon DEF AddFreeBlocks
<1> HIDE DEF listed
<1>5. /\ counted \in Volume /\ counted.inodes = v.inodes /\ counted.free = v.free \cup bs
      /\ counted.nfree = v.nfree + Cardinality(bs)
      /\ counted.blocks = v.blocks /\ counted.nodes = v.nodes
  BY <1>2, <1>3 DEF Volume
<1> HIDE DEF counted
<1>6. Cardinality(v.free \cup bs) =
        Cardinality(v.free) + Cardinality(bs) - Cardinality(v.free \cap bs)
  BY <1>2, FS_Union
<1>7. Counted(counted)
  <2>1. v.nfree >= Cardinality(v.free) /\ v.nfree \in Int
    BY DEF Sound, Counted, Volume
  <2> QED
    BY <1>2, <1>5, <1>6, <2>1 DEF Counted
<1>8. counted.free \cap InodeBlocks = {}
  BY <1>1, <1>5 DEF Sound
<1>9. \A n \in Inodes : OneBlock(counted.inodes[n]) /\ Fitting(counted, n, counted.inodes[n])
  <2> TAKE n \in Inodes
  <2>1. OneBlock(v.inodes[n]) /\ Fitting(v, n, v.inodes[n])
    BY DEF Sound
  <2> QED
    BY <2>1, <1>5 DEF Fitting, Owns
<1>10. \A n \in Inodes \ Offered : counted.inodes[n].type = INODE_FREE
  BY <1>5 DEF Sound
<1> QED
  BY <1>4, <1>5, <1>7, <1>8, <1>9, <1>10 DEF Sound

(* prepFree makes an inode free and leaves its block numbers.               *)
LEMMA PrepFreeTypes ==
  ASSUME NEW node \in Inode
  PROVE  /\ PrepFree(node) \in Inode /\ PrepFree(node).type = INODE_FREE
         /\ PrepFree(node).direct = node.direct /\ PrepFree(node).indirect = node.indirect
<1> DEFINE gone   == PrepFree(node)
           typed  == [node EXCEPT !.type = INODE_FREE]
           linked == [typed EXCEPT !.nlink = 0]
           used   == [linked EXCEPT !.reuse = linked.reuse + 1]
           empty  == [used EXCEPT !.size = 0]
<1>1. /\ typed \in Inode /\ typed.type = INODE_FREE /\ typed.direct = node.direct
      /\ typed.reuse = node.reuse /\ typed.indirect = node.indirect
  BY DEF Inode
<1> HIDE DEF typed
<1>2. /\ linked \in Inode /\ linked.type = INODE_FREE /\ linked.direct = node.direct
      /\ linked.reuse = node.reuse /\ linked.indirect = node.indirect
  BY <1>1 DEF Inode
<1>3. gone = empty
  BY <1>1, <1>2, Zenon DEF PrepFree, typed
<1> HIDE DEF linked, gone
<1>4. /\ used \in Inode /\ used.type = INODE_FREE /\ used.direct = node.direct
      /\ used.indirect = node.indirect
  BY <1>2 DEF Inode
<1> HIDE DEF used
<1>5. /\ empty \in Inode /\ empty.type = INODE_FREE /\ empty.direct = node.direct
      /\ empty.indirect = node.indirect
  BY <1>4, LayoutAssumption DEF Inode
<1> HIDE DEF empty
<1> QED
  BY <1>3, <1>5 DEF gone

(* freeInode keeps every directory's contents and every other inode, and    *)
(* the freed one names the blocks it had.                                   *)
LEMMA FreeInodeSound ==
  ASSUME NEW v, Sound(v), NEW n \in Offered
  PROVE  LET w == FreeInode(v, n) IN
         /\ Sound(w)
         /\ w.blocks = v.blocks /\ w.free \subseteq v.free \cup {0}
         /\ \A m \in Inodes \ {n} : w.inodes[m] = v.inodes[m]
         /\ w.inodes[n].type = INODE_FREE
         /\ w.inodes[n].direct[0] = v.inodes[n].direct[0]
         /\ w.inodes[n].indirect = v.inodes[n].indirect
<1> DEFINE w     == FreeInode(v, n)
           node  == v.inodes[n]
           bs    == BlocksGivenBack(node)
           freed == AddFreeBlocks(v, bs)
           gone  == PrepFree(node)
           put   == WriteInodeToDisk(freed, n, gone)
<1>1. w = AddFreeInode(put, n)
  BY DEF FreeInode
<1>2. n \in Inodes /\ node \in Inode /\ OneBlock(node)
  BY LayoutFacts DEF Sound, Volume
<1>3. gone \in Inode /\ gone.direct = node.direct /\ gone.type = INODE_FREE
      /\ gone.indirect = node.indirect
  BY <1>2, PrepFreeTypes
<1> HIDE DEF gone
<1>4. bs \subseteq {0}
  BY <1>2, BlocksGivenBackBoot
<1> HIDE DEF bs
<1>5. /\ Sound(freed)
      /\ freed.inodes = v.inodes /\ freed.free = v.free \cup bs
      /\ freed.blocks = v.blocks
  BY <1>4, AddFreeBlocksSound
<1> HIDE DEF freed
<1>6. OneBlock(gone) /\ Fitting(freed, n, gone)
  BY <1>2, <1>3 DEF OneBlock, Fitting, Owns
<1>7. /\ Sound(put)
      /\ put.blocks = freed.blocks /\ put.free = freed.free
      /\ \A m \in Inodes \ {n} : put.inodes[m] = freed.inodes[m]
      /\ put.inodes[n].type = INODE_FREE /\ put.inodes[n].direct[0] = node.direct[0]
  BY <1>3, <1>5, <1>6, WriteInodeSound
<1>a. put.inodes[n].indirect = node.indirect
  <2>1. freed \in Volume
    BY <1>5 DEF Sound
  <2> QED
    BY <1>2, <1>3, <2>1, WriteInodeTypes
<1> HIDE DEF put
<1>8. /\ Sound(w) /\ w.inodes = put.inodes /\ w.free = put.free /\ w.blocks = put.blocks
  BY <1>1, <1>7, AddFreeInodeSound
<1> HIDE DEF w
<1> QED
  BY <1>4, <1>5, <1>7, <1>8, <1>a DEF w

(* Truncating a file writes its inode back with size 0.                     *)
LEMMA ResetInodeSizeSound ==
  ASSUME NEW v, Sound(v), NEW n \in Offered
  PROVE  LET w == ResetInodeSize(v, n) IN
         /\ Sound(w)
         /\ w.free = v.free /\ w.nodes = v.nodes
         /\ \A m \in Inodes : /\ w.inodes[m].type = v.inodes[m].type
                              /\ w.inodes[m].direct[0] = v.inodes[m].direct[0]
<1> DEFINE w    == ResetInodeSize(v, n)
           node == [v.inodes[n] EXCEPT !.size = 0]
<1>1. n \in Inodes /\ v.inodes[n] \in Inode /\ OneBlock(v.inodes[n])
      /\ Fitting(v, n, v.inodes[n])
  BY LayoutFacts DEF Sound, Volume
<1>2. /\ node \in Inode /\ node.direct = v.inodes[n].direct /\ node.type = v.inodes[n].type
  BY <1>1, LayoutAssumption DEF Inode
<1>3. w = WriteInodeToDisk(v, n, node)
  BY DEF ResetInodeSize
<1> HIDE DEF node
<1>4. OneBlock(node) /\ Fitting(v, n, node)
  BY <1>1, <1>2 DEF OneBlock, Fitting, Owns
<1> HIDE DEF w
<1>5. /\ Sound(w) /\ w.free = v.free /\ w.nodes = v.nodes
      /\ \A m \in Inodes \ {n} : w.inodes[m] = v.inodes[m]
      /\ w.inodes[n].type = node.type
      /\ w.inodes[n].direct[0] = node.direct[0]
  BY <1>2, <1>3, <1>4, WriteInodeSound
<1> QED
  BY <1>2, <1>5 DEF w

----------------------------------------------------------------------------
(* Scans of a directory and walks along a path. *)

(* Every entry a scan looks at is one: its place is within the volume.      *)
LEMMA EntryAtTypes ==
  ASSUME NEW v \in Volume, NEW node \in Inode, NEW i \in 0 .. node.size - 1
  PROVE  /\ i \div EntriesPerBlock \in Directs /\ i % EntriesPerBlock \in Slots
         /\ node.direct[i \div EntriesPerBlock] \in Blocks
         /\ EntryAt(v, node, i) \in Entry
<1>1. node.size \in 0 .. MaxSize /\ node.direct \in [Directs -> Blocks] /\ MaxSize \in Nat
  BY LayoutAssumption DEF Inode
<1>2. i \in 0 .. MaxSize
  BY <1>1
<1>3. i \div EntriesPerBlock \in Directs /\ i % EntriesPerBlock \in Slots
  BY <1>2, EntryPlace
<1>4. node.direct[i \div EntriesPerBlock] \in Blocks
  BY <1>1, <1>3
<1> DEFINE d == i \div EntriesPerBlock  s == i % EntriesPerBlock
<1>5. EntryAt(v, node, i) = v.blocks[node.direct[d]][s]
  BY DEF EntryAt
<1>6. d \in Directs /\ s \in Slots /\ node.direct[d] \in Blocks
  BY <1>3, <1>4
<1> HIDE DEF d, s
<1>7. v.blocks[node.direct[d]][s] \in Entry
  BY <1>6 DEF Volume
<1> QED
  BY <1>3, <1>4, <1>5, <1>7

(* A lookup by a name finds an inode number init() can offer or nothing: a  *)
(* pointer, which is no such number, never carries a name.                  *)
LEMMA FindDirectoryEntryTypes ==
  ASSUME NEW v \in Volume, NEW node \in Inode, NEW name \in Names
  PROVE  /\ FindDirectoryEntry(v, node, name) \in Offered \cup {ERROR}
         /\ FindDirectoryEntry(v, node, name) # ERROR =>
              \E i \in Named(v, node, name) :
                EntryAt(v, node, i).inum = FindDirectoryEntry(v, node, name)
<1> DEFINE i == First(Named(v, node, name))
<1>1. CASE node.type = INODE_DIRECTORY /\ Named(v, node, name) # {}
  <2>1. Named(v, node, name) \subseteq Held(v, node) /\ Held(v, node) \subseteq 0 .. node.size - 1
    BY DEF Named, Held
  <2>2. Named(v, node, name) \subseteq Nat
    BY <2>1 DEF Inode
  <2>3. i \in Named(v, node, name)
    BY <2>2, <1>1, FirstOfNat
  <2>4. i \in 0 .. node.size - 1 /\ EntryAt(v, node, i).inum # 0
        /\ EntryAt(v, node, i).name = name
    BY <2>3 DEF Named, Held
  <2>5. EntryAt(v, node, i) \in Entry
    BY <2>4, EntryAtTypes
  <2>6. name # POINTER /\ name # TEXT
    BY LayoutAssumption
  <2>7. EntryAt(v, node, i).inum \in Offered
    BY <2>4, <2>5, <2>6 DEF Entry, Text
  <2>8. FindDirectoryEntry(v, node, name) = EntryAt(v, node, i).inum
    BY <1>1 DEF FindDirectoryEntry
  <2> QED
    BY <2>3, <2>7, <2>8
<1>2. CASE ~ (node.type = INODE_DIRECTORY /\ Named(v, node, name) # {})
  <2>1. FindDirectoryEntry(v, node, name) = ERROR
    BY <1>2 DEF FindDirectoryEntry
  <2> QED
    BY <2>1
<1> QED
  BY <1>1, <1>2

(* The names of a path that a walk looks up.                                *)
LEMMA PathNames ==
  ASSUME NEW p \in Path, Len(p.toks) > 1
  PROVE  Len(p.toks) - 1 \in 1 .. Len(p.toks) - 1
<1>1. p.toks \in Seq(Names \ {NoName}) /\ Len(p.toks) \in Nat
  BY DEF Path
<1> QED
  BY <1>1

(* findParent and checkPath answer with an inode that is offered, or ERROR. *)
LEMMA FindParentTypes ==
  ASSUME NEW v, NEW p \in Path, NEW dir \in Offered
  PROVE  FindParent(v, p, dir) \in Offered \cup {ERROR}
<1>1. Start(p, dir) \in Offered
  BY LayoutFacts DEF Start
<1>2. Len(p.toks) \in Nat
  BY DEF Path
<1>3. CASE Len(p.toks) <= 1
  BY <1>1, <1>3 DEF FindParent
<1>4. CASE ~ (Len(p.toks) <= 1) /\ Walks(v, p, dir) = {}
  BY <1>4 DEF FindParent
<1>5. CASE ~ (Len(p.toks) <= 1) /\ Walks(v, p, dir) # {}
  <2> DEFINE w == CHOOSE x \in Walks(v, p, dir) : TRUE
  <2>1. w \in Walks(v, p, dir)
    BY <1>5
  <2>2. FindParent(v, p, dir) = w[Len(p.toks) - 1]
    BY <1>5 DEF FindParent
  <2> HIDE DEF w
  <2>3. w \in [1 .. Len(p.toks) - 1 -> Offered]
    BY <2>1 DEF Walks
  <2>4. Len(p.toks) - 1 \in 1 .. Len(p.toks) - 1
    BY <1>2, <1>5, PathNames
  <2> QED
    BY <2>2, <2>3, <2>4
<1> QED
  BY <1>3, <1>4, <1>5

LEMMA CheckPathTypes ==
  ASSUME NEW v \in Volume, NEW p \in Path, LastName(p) \in Names, NEW dir \in Offered
  PROVE  CheckPath(v, p, dir) \in Offered \cup {ERROR}
<1>1. \A n \in Offered : v.inodes[n] \in Inode
  BY LayoutFacts DEF Volume
<1>2. CASE JustName(p, Dot)
  BY <1>2 DEF CheckPath
<1>3. CASE ~ JustName(p, Dot) /\ JustName(p, DotDot)
  <2>1. DotDot \in Names
    BY LayoutAssumption
  <2>2. FindDirectoryEntry(v, v.inodes[dir], DotDot) \in Offered \cup {ERROR}
    BY <1>1, <2>1, FindDirectoryEntryTypes
  <2> QED
    BY <1>3, <2>2 DEF CheckPath
<1>4. CASE ~ JustName(p, Dot) /\ ~ JustName(p, DotDot)
  <2> DEFINE parent == FindParent(v, p, dir)
  <2>1. parent \in Offered \cup {ERROR}
    BY FindParentTypes
  <2>2. CheckPath(v, p, dir) = IF parent = ERROR THEN ERROR
                               ELSE FindDirectoryEntry(v, v.inodes[parent], LastName(p))
    BY <1>4, Zenon DEF CheckPath
  <2> HIDE DEF parent
  <2>3. parent # ERROR => FindDirectoryEntry(v, v.inodes[parent], LastName(p)) \in Offered \cup {ERROR}
    BY <1>1, <2>1, FindDirectoryEntryTypes
  <2> QED
    BY <2>2, <2>3
<1> QED
  BY <1>2, <1>3, <1>4

(* Clearing an entry changes one slot of one block.                         *)
LEMMA FreeDirectoryEntrySound ==
  ASSUME NEW v, Sound(v), NEW node \in Inode, NEW n, ~ FreeDirectoryEntryFails(v, node, n)
  PROVE  LET w == FreeDirectoryEntry(v, node, n) IN
         /\ Sound(w)
         /\ w.inodes = v.inodes /\ w.free = v.free /\ w.nodes = v.nodes
         /\ LET i == First(Numbered(v, node, n)) IN
            \A b \in Blocks : \A s \in Slots :
              w.blocks[b][s] = IF b = node.direct[i \div EntriesPerBlock] /\ s = i % EntriesPerBlock
                               THEN NoEntry ELSE v.blocks[b][s]
<1> DEFINE w       == FreeDirectoryEntry(v, node, n)
           i       == First(Numbered(v, node, n))
           sector  == node.direct[i \div EntriesPerBlock]
           slot    == i % EntriesPerBlock
           content == [v.blocks[sector] EXCEPT ![slot] = NoEntry]
<1>1. Numbered(v, node, n) # {} /\ Numbered(v, node, n) \subseteq 0 .. node.size - 1
  BY DEF FreeDirectoryEntryFails, Numbered, Held
<1>2. i \in 0 .. node.size - 1
  <2>1. Numbered(v, node, n) \subseteq Nat
    BY <1>1 DEF Inode
  <2> QED
    BY <1>1, <2>1, FirstOfNat
<1>3. v \in Volume
  BY DEF Sound
<1>4. sector \in Blocks /\ slot \in Slots
  BY <1>2, <1>3, EntryAtTypes
<1>5. w = [v EXCEPT !.blocks = [@ EXCEPT ![sector] = content]]
  BY DEF FreeDirectoryEntry
<1> HIDE DEF i, sector, slot, w
<1>6. content \in [Slots -> Entry]
  BY <1>3, <1>4, EmptyTypes DEF Volume
<1>7. \A b \in Blocks : \A s \in Slots :
        w.blocks[b][s] = IF b = sector /\ s = slot THEN NoEntry ELSE v.blocks[b][s]
  <2>1. v.blocks \in [Blocks -> [Slots -> Entry]]
    BY <1>3 DEF Volume
  <2>2. w.blocks = [v.blocks EXCEPT ![sector] = content]
    BY <1>3, <1>5 DEF Volume
  <2> QED
    BY <1>4, <2>1, <2>2
<1> HIDE DEF content
<1>8. Sound(w) /\ w.inodes = v.inodes /\ w.free = v.free /\ w.nodes = v.nodes
  BY <1>4, <1>5, <1>6, PutBlockSound
<1> QED
  BY <1>7, <1>8, Zenon DEF w, i, sector, slot

----------------------------------------------------------------------------
(* Starting the server over a disk on which no two inodes own one block.    *)

DiskSound(inodes) ==
  /\ inodes \in [Inodes -> Inode]
  /\ \A n \in Inodes :
       /\ OneBlock(inodes[n])
       /\ Owns(inodes[n]) =>
            /\ n \in Offered
            /\ inodes[n].direct[0] \notin InodeBlocks
            /\ \A m \in Inodes \ {n} :
                 Owns(inodes[m]) => inodes[m].direct[0] # inodes[n].direct[0]
       /\ n \notin Offered => inodes[n].type = INODE_FREE

(* The part of a sound volume that is on the disk, which outlives the       *)
(* server.                                                                  *)
LEMMA SoundDisk ==
  ASSUME NEW v, Sound(v)
  PROVE  DiskSound(v.inodes)
BY DEF Sound, DiskSound, Fitting, Owns, Volume

(* The disk mkyfs writes is sound.                                          *)
LEMMA FreshSound ==
  /\ DiskSound(FreshInodes)
  /\ FreshBlocks \in [Blocks -> [Slots -> Entry]]
<1>1. ASSUME NEW n \in Inodes
      PROVE  /\ FreshInodes[n] \in Inode /\ OneBlock(FreshInodes[n])
             /\ FreshInodes[n].direct[0] = IF n = ROOTINODE THEN RootBlock ELSE 0
             /\ n # ROOTINODE => FreshInodes[n].type = INODE_FREE
  <2>1. 0 \in Blocks /\ RootBlock \in Blocks /\ 0 \in Directs
    BY LayoutFacts
  <2>2. 2 \in 0 .. MaxSize /\ 0 \in 0 .. MaxSize
    BY LayoutAssumption
  <2>3. CASE n = ROOTINODE
    <3>1. FreshInodes[n] =
            [type |-> INODE_DIRECTORY, nlink |-> 2, reuse |-> 1, size |-> 2,
             direct |-> [i \in Directs |-> IF i = 0 THEN RootBlock ELSE 0], indirect |-> 0]
      BY <2>3 DEF FreshInodes
    <3> QED
      BY <2>1, <2>2, <2>3, <3>1 DEF Inode, OneBlock
  <2>4. CASE n # ROOTINODE
    <3>1. FreshInodes[n] =
            [type |-> INODE_FREE, nlink |-> 0, reuse |-> 0, size |-> 0,
             direct |-> [i \in Directs |-> 0], indirect |-> 0]
      BY <2>4 DEF FreshInodes
    <3> QED
      BY <2>1, <2>2, <2>4, <3>1 DEF Inode, OneBlock
  <2> QED
    BY <2>3, <2>4
<1>2. ROOTINODE \in Offered /\ RootBlock \notin InodeBlocks
  BY LayoutFacts
<1>3. FreshInodes \in [Inodes -> Inode]
  <2>1. FreshInodes = [n \in Inodes |-> FreshInodes[n]]
    BY DEF FreshInodes
  <2> QED
    BY <1>1, <2>1
<1>4. DiskSound(FreshInodes)
  BY <1>1, <1>2, <1>3 DEF DiskSound, Owns
<1>5. ASSUME NEW b \in Blocks
      PROVE  FreshBlocks[b] \in [Slots -> Entry]
  <2>1. EmptyBlock \in [Slots -> Entry]
    BY EmptyTypes
  <2> DEFINE dot == [inum |-> ROOTINODE, name |-> Dot]
             dotdot == [inum |-> ROOTINODE, name |-> DotDot]
             root == [EmptyBlock EXCEPT ![0] = dot, ![1] = dotdot]
             one  == [EmptyBlock EXCEPT ![0] = dot]
  <2>2. dot \in Entry /\ dotdot \in Entry
    <3>1. Dot \in Names /\ DotDot \in Names
      BY LayoutAssumption
    <3> QED
      BY <1>2, <3>1, EntryTypes
  <2>3. FreshBlocks[b] = IF b # RootBlock THEN EmptyBlock ELSE root
    BY DEF FreshBlocks
  <2> HIDE DEF dot, dotdot
  <2>4. one \in [Slots -> Entry]
    BY <2>1, <2>2
  <2>5. root = [one EXCEPT ![1] = dotdot]
    BY Zenon
  <2> HIDE DEF one, root
  <2>6. root \in [Slots -> Entry]
    BY <2>2, <2>4, <2>5
  <2> QED
    BY <2>1, <2>3, <2>6
<1>6. FreshBlocks \in [Blocks -> [Slots -> Entry]]
  <2>1. FreshBlocks = [b \in Blocks |-> FreshBlocks[b]]
    BY DEF FreshBlocks
  <2> QED
    BY <1>5, <2>1
<1> QED
  BY <1>4, <1>6

(* Every inode init() can offer is looked at where it is stored, even if    *)
(* the over-read comes first.                                               *)
LEMMA LookedAt ==
  ASSUME NEW n \in Offered
  PROVE  \E k \in Inodes : ~ Overread(k) /\ Considered(k) = n
<1>1. PICK k \in Inodes : n = Considered(k)
  BY DEF Offered
<1>2. CASE ~ Overread(k)
  BY <1>1, <1>2
<1>3. CASE Overread(k)
  <2>1. k = InodesPerBlock /\ n = k
    BY <1>1, <1>3, LayoutAssumption DEF Overread, Considered, Inodes
  <2>2. k + 1 \in Inodes /\ Considered(k + 1) = n /\ ~ Overread(k + 1)
    BY <2>1, LayoutAssumption, TableAssumption DEF Overread, Considered, Inodes
  <2> QED
    BY <2>2
<1> QED
  BY <1>2, <1>3

(* A server that starts from a sound disk builds a sound volume, whatever   *)
(* its over-read finds.                                                     *)
LEMMA BootSound ==
  ASSUME NEW inodes, DiskSound(inodes),
         NEW blocks \in [Blocks -> [Slots -> Entry]],
         NEW slotFree \in BOOLEAN, NEW stray,
         NEW looks \in InOrder(FreeLooks(inodes, slotFree))
  PROVE  Sound(Boot(inodes, blocks, slotFree, stray, looks))
<1> DEFINE marked == MarkedUsed(inodes, slotFree, stray)
           free   == Blocks \ ({0} \cup InodeBlocks \cup marked)
           nfree  == NumBlocks - Cardinality(InodeBlocks)
           nodes  == [i \in 1 .. Len(looks) |-> Considered(looks[i])]
           w      == Boot(inodes, blocks, slotFree, stray, looks)
<1>1. w = [inodes |-> inodes, blocks |-> blocks, free |-> free, nfree |-> nfree, nodes |-> nodes]
  BY DEF Boot
<1>2. inodes \in [Inodes -> Inode]
  BY DEF DiskSound
<1>3. free \in SUBSET Blocks /\ free \cap InodeBlocks = {} /\ InodeBlocks \in SUBSET Blocks
  BY LayoutFacts
<1>4. /\ IsFiniteSet(free) /\ Cardinality(free) \in Nat
      /\ IsFiniteSet(InodeBlocks) /\ Cardinality(InodeBlocks) \in Nat
  BY <1>3, FreeFinite
<1>5. nfree \in Int /\ nfree >= Cardinality(free)
  <2>1. IsFiniteSet(Blocks) /\ Cardinality(Blocks) = NumBlocks
    BY LayoutAssumption, FS_Interval DEF Blocks
  <2>2. free \cup InodeBlocks \in SUBSET Blocks
    BY <1>3
  <2>3. Cardinality(free \cup InodeBlocks) <= NumBlocks
    BY <2>1, <2>2, FS_Subset
  <2>4. Cardinality(free \cup InodeBlocks) =
          Cardinality(free) + Cardinality(InodeBlocks) - Cardinality(free \cap InodeBlocks)
    BY <1>4, FS_Union
  <2>5. Cardinality(free \cap InodeBlocks) = 0
    BY <1>3, FS_EmptySet
  <2>6. NumBlocks \in Nat
    BY LayoutAssumption
  <2> HIDE DEF free
  <2> QED
    BY <1>4, <2>3, <2>4, <2>5, <2>6
<1>6. nodes \in Seq(Offered)
  <2> DEFINE S == FreeLooks(inodes, slotFree)
  <2>1. S \subseteq Inodes
    BY DEF FreeLooks
  <2>2. Cardinality(S) \in Nat
    <3>1. IsFiniteSet(Inodes)
      BY LayoutAssumption, FS_Interval DEF Inodes
    <3> HIDE DEF S
    <3> QED
      BY <2>1, <3>1, FS_Subset, FS_CardinalityType
  <2>3. looks \in [1 .. Cardinality(S) -> S]
    BY DEF InOrder
  <2> HIDE DEF S
  <2>4. Len(looks) = Cardinality(S)
    BY <2>2, <2>3
  <2>5. \A i \in 1 .. Len(looks) : Considered(looks[i]) \in Offered
    BY <2>1, <2>3, <2>4 DEF Offered
  <2>6. Len(looks) \in Nat
    BY <2>2, <2>4
  <2>7. nodes \in [1 .. Len(looks) -> Offered]
    BY <2>5
  <2> HIDE DEF nodes
  <2> QED
    BY <2>6, <2>7
<1>7. ASSUME NEW n \in Inodes, Owns(inodes[n])
      PROVE  inodes[n].direct[0] \in marked
  <2>1. PICK k \in Inodes : ~ Overread(k) /\ Considered(k) = n
    BY <1>7, LookedAt DEF DiskSound
  <2>2. 0 \in Directs /\ 0 <= inodes[n].size \div EntriesPerBlock
    <3>1. inodes[n].size \in 0 .. MaxSize
      BY <1>2 DEF Inode
    <3>2. inodes[n].size \div EntriesPerBlock \in Directs
      BY <3>1, EntryPlace
    <3> QED
      BY <3>2, LayoutFacts DEF Directs
  <2>3. inodes[n].direct[0] \in BlocksOf(inodes[Considered(k)])
    BY <2>1, <2>2 DEF BlocksOf
  <2> QED
    BY <2>1, <2>3, <1>7 DEF MarkedUsed, Owns
<1> HIDE DEF free, nfree, nodes, marked, w
<1>8. /\ w.inodes = inodes /\ w.free = free /\ w.nfree = nfree /\ w \in Volume
  BY <1>1, <1>2, <1>3, <1>5, <1>6 DEF Volume
<1>9. ASSUME NEW n \in Inodes
      PROVE  OneBlock(w.inodes[n]) /\ Fitting(w, n, w.inodes[n])
  BY <1>7, <1>8 DEF DiskSound, Fitting, free
<1>10. Counted(w)
  BY <1>5, <1>8 DEF Counted
<1>11. \A n \in Inodes \ Offered : w.inodes[n].type = INODE_FREE
  BY <1>8 DEF DiskSound
<1>12. Sound(w)
  BY <1>3, <1>8, <1>9, <1>10, <1>11 DEF Sound
<1> QED
  BY <1>12 DEF w
=============================================================================
