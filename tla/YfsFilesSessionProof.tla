----------------------- MODULE YfsFilesSessionProof -----------------------
(***************************************************************************)
(* What YfsFiles adds to the session before the first restart: SEEK, READ  *)
(* and WRITE keep the ledger of YfsSessionProof.  And what two requests    *)
(* leave alone in every session: SEEK the contents that sizes cover, and   *)
(* refusals every descriptor but one.                                      *)
(***************************************************************************)
EXTENDS YfsFilesProof, YfsSessionProof

----------------------------------------------------------------------------
(* What a SEEK takes. *)

(* FindFreeBlock takes the block it answers with, and zeroes only that.     *)
LEMMA FindFreeBlockTakes ==
  ASSUME NEW v \in Volume
  PROVE  LET got == FindFreeBlock(v) IN
         /\ v.free \ got.fs.free \subseteq {got.block}
         /\ Untouched(v, got.fs, v.free \ got.fs.free)
<1> DEFINE b   == First(v.free)
           got == FindFreeBlock(v)
<1>1. CASE v.nfree = 0 \/ v.free = {}
  <2>1. got = [fs |-> v, block |-> ERROR]
    BY <1>1 DEF FindFreeBlock
  <2> QED
    BY <2>1 DEF Untouched
<1>2. CASE ~ (v.nfree = 0 \/ v.free = {})
  <2>1. v.free \subseteq Nat
    BY LayoutAssumption DEF Volume, Blocks
  <2>2. b \in v.free
    BY <2>1, <1>2, FirstOfNat
  <2>3. /\ got.fs = [v EXCEPT !.free = @ \ {b}, !.nfree = @ - 1,
                              !.blocks = [@ EXCEPT ![b] = EmptyBlock]]
        /\ got.block = b
    BY <1>2 DEF FindFreeBlock
  <2> HIDE DEF b, got
  <2>4. got.fs.blocks = [v.blocks EXCEPT ![b] = EmptyBlock] /\ got.fs.free = v.free \ {b}
    BY <2>3 DEF Volume
  <2>5. v.blocks \in [Blocks -> [Slots -> Entry]]
    BY DEF Volume
  <2>6. v.free \ got.fs.free = {b}
    BY <2>2, <2>4
  <2>7. Untouched(v, got.fs, {b})
    BY <2>4, <2>5 DEF Untouched
  <2> QED
    BY <2>3, <2>6, <2>7 DEF got
<1> QED
  BY <1>1, <1>2

(* Of the inodes w differs from v in the indirect field of n at most, which *)
(* was 0 and names a block that w has taken; w has taken at most one and    *)
(* two, and its contents differ in what it took and in the indirect block.  *)
Takes(v, w, n, one, two) ==
  /\ w.free \subseteq v.free /\ v.free \ w.free \subseteq {one, two}
  /\ w.inodes = [v.inodes EXCEPT ![n] = [@ EXCEPT !.indirect = w.inodes[n].indirect]]
  /\ w.inodes[n].indirect # v.inodes[n].indirect =>
       v.inodes[n].indirect = 0 /\ w.inodes[n].indirect \in v.free \ w.free
  /\ Untouched(v, w, (v.free \ w.free) \cup {w.inodes[n].indirect})

(* The inode is as it was.                                                  *)
LEMMA TakesOnly ==
  ASSUME NEW v \in Volume, NEW n \in Inodes, NEW w, w.inodes = v.inodes,
         NEW one, NEW two, w.free \subseteq v.free, v.free \ w.free \subseteq {one, two},
         Untouched(v, w, v.free \ w.free)
  PROVE  Takes(v, w, n, one, two)
<1>1. v.inodes \in [Inodes -> Inode] /\ v.inodes[n] \in Inode
  BY DEF Volume
<1>2. v.inodes[n] = [v.inodes[n] EXCEPT !.indirect = v.inodes[n].indirect]
  BY <1>1 DEF Inode
<1>3. v.inodes = [v.inodes EXCEPT ![n] = [@ EXCEPT !.indirect = v.inodes[n].indirect]]
  BY <1>1, <1>2
<1> QED
  BY <1>3 DEF Takes, Untouched

(* The volume of a SEEK that grows inode n at index.                        *)
Grows(n, index, one, two) ==
  LET grown == AddNewEmptyBlock(fs, fs.inodes[n], index)
      w     == WriteInodeToDisk(grown.fs, n, grown.node)
  IN /\ GrowFails(fs.inodes[n], index) => Takes(fs, grown.fs, n, one, two)
     /\ ~ GrowFails(fs.inodes[n], index) => Takes(fs, w, n, one, two)

(* A directory slot that the size does not cover: the inode is written, but *)
(* without the new block.                                                   *)
LEMMA DirectTakes ==
  ASSUME Sound(fs), NEW n \in Offered, NEW index \in Directs,
         index > fs.inodes[n].size \div EntriesPerBlock
  PROVE  Grows(n, index, FindFreeBlock(fs).block, FindFreeBlock(fs).block)
<1> DEFINE node  == fs.inodes[n]
           got   == FindFreeBlock(fs)
           grown == AddNewEmptyBlock(fs, node, index)
           taken == [node EXCEPT !.direct = [@ EXCEPT ![index] = got.block]]
           w     == WriteInodeToDisk(grown.fs, n, grown.node)
<1>1. index < NumDirect /\ n \in Inodes /\ fs \in Volume
  BY Units, LayoutFacts DEF Directs, Sound
<1>2. GrowFails(node, index) <=> got.block = ERROR
  BY <1>1, Units DEF GrowFails, Directs
<1>3. grown = [fs |-> got.fs, node |-> IF got.block = ERROR THEN node ELSE taken]
  BY <1>1 DEF AddNewEmptyBlock
<1>4. /\ Sound(got.fs) /\ got.fs.inodes = fs.inodes /\ got.fs.free \subseteq fs.free
      /\ got.block \in Blocks \cup {ERROR}
      /\ fs.free \ got.fs.free \subseteq {got.block}
      /\ Untouched(fs, got.fs, fs.free \ got.fs.free)
  BY <1>1, FindFreeBlockSound, FindFreeBlockTakes
<1> HIDE DEF got
<1>5. Takes(fs, got.fs, n, got.block, got.block)
  BY <1>1, <1>4, TakesOnly
<1>6. grown.fs = got.fs
  BY <1>3
<1>7. ASSUME got.block # ERROR
      PROVE  Takes(fs, w, n, got.block, got.block)
  <2> DEFINE u == got.fs  b == got.block
             x == WriteInodeToDisk(u, n, [u.inodes[n] EXCEPT !.direct = [@ EXCEPT ![index] = b]])
  <2>1. w = x
    <3>1. grown.node = taken
      BY <1>3, <1>7
    <3>2. u.inodes[n] = node
      BY <1>4
    <3> QED
      BY <1>6, <3>1, <3>2
  <2>2. Sound(u) /\ b \in Blocks /\ index > u.inodes[n].size \div EntriesPerBlock
    BY <1>4, <1>7
  <2>3. x.blocks = u.blocks
    BY <2>2 DEF WriteInodeToDisk, Sound, Volume
  <2> HIDE DEF w
  <2>4. x.inodes = u.inodes /\ x.free = u.free
    <3> HIDE DEF u, b
    <3> QED
      BY <2>2, DirectBeyondSize
  <2> HIDE DEF x
  <2>5. w.inodes = fs.inodes /\ w.free = got.fs.free /\ w.blocks = got.fs.blocks
    BY <1>4, <2>1, <2>3, <2>4
  <2>6. Untouched(fs, w, fs.free \ w.free)
    BY <1>4, <2>5 DEF Untouched
  <2> QED
    BY <1>1, <1>4, <2>5, <2>6, TakesOnly
<1> HIDE DEF grown, w
<1> QED
  BY <1>2, <1>5, <1>6, <1>7 DEF got, grown, w, Grows

(* An index beyond direct[]: the indirect block, if there is none yet, and  *)
(* the new block.                                                           *)
LEMMA IndirectTakes ==
  ASSUME Sound(fs), NEW n \in Offered, NEW index \in Nat, ~ (index < NumDirect),
         SlotOfPointer(index) \in Slots
  PROVE  \E one, two : Grows(n, index, one, two)
<1> DEFINE node  == fs.inodes[n]
           ind   == IF node.indirect = 0 THEN FindFreeBlock(fs)
                    ELSE [fs |-> fs, block |-> node.indirect]
           named == [node EXCEPT !.indirect = ind.block]
           new   == FindFreeBlock(ind.fs)
           stored == StorePointer(new.fs, ind.block, ind.fs.blocks[ind.block],
                                  index, new.block)
           grown == AddNewEmptyBlock(fs, node, index)
           w     == WriteInodeToDisk(grown.fs, n, grown.node)
<1>1. n \in Inodes /\ fs \in Volume /\ node \in Inode
  BY LayoutFacts DEF Sound, Volume
<1>2. grown = IF (node.indirect = 0 /\ ind.block = ERROR) \/ new.block = ERROR
              THEN [fs |-> ind.fs, node |-> named]
              ELSE [fs |-> stored, node |-> named]
  BY Zenon DEF AddNewEmptyBlock
<1>3. GrowFails(node, index) <=> (node.indirect = 0 /\ ind.block = ERROR) \/ new.block = ERROR
  <2>1. CASE node.indirect = 0
    <3>1. ind = FindFreeBlock(fs)
      BY <2>1
    <3>2. GrowFails(node, index) <=>
            FindFreeBlock(fs).block = ERROR \/ FindFreeBlock(FindFreeBlock(fs).fs).block = ERROR
      BY <2>1, Units DEF GrowFails
    <3> HIDE DEF ind
    <3> QED
      BY <2>1, <3>1, <3>2
  <2>2. CASE node.indirect # 0
    <3>1. ind.fs = fs
      BY <2>2
    <3>2. GrowFails(node, index) <=> FindFreeBlock(fs).block = ERROR
      BY <2>2, Units DEF GrowFails
    <3> HIDE DEF ind
    <3> QED
      BY <2>2, <3>1, <3>2
  <2> QED
    BY <2>1, <2>2
<1>4. /\ Sound(ind.fs) /\ ind.fs.inodes = fs.inodes /\ ind.fs.free \subseteq fs.free
      /\ fs.free \ ind.fs.free \subseteq {ind.block}
      /\ Untouched(fs, ind.fs, fs.free \ ind.fs.free)
      /\ ind.block # node.indirect => node.indirect = 0
      /\ node.indirect = 0 /\ ind.block # ERROR => ind.block \in fs.free \ ind.fs.free
  <2>1. CASE node.indirect = 0
    <3>1. ind = FindFreeBlock(fs)
      BY <2>1
    <3> HIDE DEF ind
    <3> QED
      BY <1>1, <2>1, <3>1, FindFreeBlockSound, FindFreeBlockTakes
  <2>2. CASE node.indirect # 0
    <3>1. ind = [fs |-> fs, block |-> node.indirect]
      BY <2>2
    <3> HIDE DEF ind
    <3> QED
      BY <2>2, <3>1 DEF Untouched
  <2> QED
    BY <2>1, <2>2
<1>5. named.indirect = ind.block /\ named.direct = node.direct /\ named.size = node.size
  BY <1>1 DEF Inode
<1> HIDE DEF ind
<1>6. /\ Sound(new.fs) /\ new.fs.inodes = fs.inodes /\ new.fs.free \subseteq ind.fs.free
      /\ fs.free \ new.fs.free \subseteq {ind.block, new.block}
      /\ Untouched(fs, new.fs, fs.free \ new.fs.free)
  <2>1. /\ Sound(new.fs) /\ new.fs.inodes = ind.fs.inodes /\ new.fs.free \subseteq ind.fs.free
        /\ ind.fs.free \ new.fs.free \subseteq {new.block}
        /\ Untouched(ind.fs, new.fs, ind.fs.free \ new.fs.free)
    BY <1>4, FindFreeBlockSound, FindFreeBlockTakes DEF Sound
  <2> HIDE DEF new
  <2> QED
    BY <1>4, <2>1 DEF Untouched
<1>7. CASE GrowFails(node, index)
  <2>1. grown.fs = ind.fs
    BY <1>2, <1>3, <1>7
  <2> HIDE DEF grown, new, named
  <2>2. Takes(fs, grown.fs, n, ind.block, new.block)
    BY <1>1, <1>4, <2>1, TakesOnly
  <2> QED
    BY <1>7, <2>2 DEF grown, Grows
<1>8. CASE ~ GrowFails(node, index)
  <2>1. grown.fs = stored /\ grown.node = named
    BY <1>2, <1>3, <1>8
  <2>2. stored \in Volume /\ stored.free = new.fs.free /\ stored.inodes = fs.inodes
    <3>1. grown.fs \in Volume
      BY <1>1, AddNewEmptyBlockSound DEF Sound
    <3>2. stored.free = new.fs.free /\ stored.inodes = new.fs.inodes
      BY <1>6 DEF StorePointer, Sound, Volume
    <3> HIDE DEF stored, new, named, grown
    <3> QED
      BY <1>6, <2>1, <3>1, <3>2
  <2>3. Untouched(fs, stored, (fs.free \ new.fs.free) \cup {ind.block})
    <3>1. CASE ind.block = ERROR
      <4>1. stored = new.fs
        BY <3>1 DEF StorePointer
      <4> HIDE DEF stored, new
      <4> QED
        BY <1>6, <4>1 DEF Untouched
    <3>2. CASE ind.block # ERROR
      <4> DEFINE content == [ind.fs.blocks[ind.block] EXCEPT ![SlotOfPointer(index)] =
                               [inum |-> new.block, name |-> POINTER]]
      <4>1. stored = [new.fs EXCEPT !.blocks = [@ EXCEPT ![ind.block] = content]]
        BY <3>2 DEF StorePointer
      <4> HIDE DEF stored, content
      <4>2. /\ stored.blocks = [new.fs.blocks EXCEPT ![ind.block] = content]
            /\ new.fs.blocks \in [Blocks -> [Slots -> Entry]]
        BY <1>6, <4>1 DEF Sound, Volume
      <4> HIDE DEF new
      <4> QED
        BY <1>6, <4>2 DEF Untouched
    <3> QED
      BY <3>1, <3>2
  <2>4. node.indirect = 0 => ind.block \in fs.free \ new.fs.free
    BY <1>3, <1>4, <1>6, <1>8
  <2> DEFINE kept == [i \in Directs |-> IF i <= named.size \div EntriesPerBlock
                                       THEN named.direct[i] ELSE stored.inodes[n].direct[i]]
             put == WriteInodeToDisk(stored, n, named)
  <2>5. put = [stored EXCEPT !.inodes = [@ EXCEPT ![n] = [named EXCEPT !.direct = kept]]]
    BY DEF WriteInodeToDisk
  <2>6. [named EXCEPT !.direct = kept] = named
    <3>1. node.direct \in [Directs -> Blocks] /\ \A i \in Directs : kept[i] = node.direct[i]
      BY <1>1, <1>5, <2>2 DEF Inode
    <3>2. kept = node.direct
      BY <3>1
    <3> HIDE DEF kept
    <3> QED
      BY <1>1, <1>5, <3>2 DEF Inode
  <2>7. /\ put.free = new.fs.free /\ put.blocks = stored.blocks
        /\ put.inodes = [fs.inodes EXCEPT ![n] = [@ EXCEPT !.indirect = ind.block]]
    <3> DEFINE x == [named EXCEPT !.direct = kept]
    <3>1. x = [fs.inodes[n] EXCEPT !.indirect = ind.block]
      BY <2>6
    <3>2. put = [stored EXCEPT !.inodes = [@ EXCEPT ![n] = x]]
      BY <2>5
    <3> HIDE DEF x, put, stored, named, kept, new
    <3> QED
      BY <2>2, <3>1, <3>2 DEF Volume
  <2>8. w = put
    BY <2>1
  <2> HIDE DEF w, put, stored, named, grown, kept, new
  <2>9. put.inodes[n].indirect = ind.block
    BY <1>1, <2>7 DEF Volume, Inode
  <2>10. Takes(fs, put, n, ind.block, new.block)
    <3>1. Untouched(fs, put, (fs.free \ put.free) \cup {put.inodes[n].indirect})
      BY <2>3, <2>7, <2>9 DEF Untouched
    <3>2. put.inodes[n].indirect # fs.inodes[n].indirect =>
            fs.inodes[n].indirect = 0 /\ put.inodes[n].indirect \in fs.free \ put.free
      BY <1>4, <2>4, <2>7, <2>9
    <3> QED
      BY <1>4, <1>6, <2>7, <2>9, <3>1, <3>2 DEF Takes
  <2> QED
    BY <1>8, <2>8, <2>10 DEF w, grown, Grows
<1> QED
  BY <1>7, <1>8

(* The volume after a SEEK.                                                 *)
LEMMA SeekTakes ==
  ASSUME FilesInv, NEW c \in Clients, NEW d \in Descriptors, Seek(c, d)
  PROVE  fs' = fs \/ \E one, two : Takes(fs, fs', Inum(c, d), one, two)
<1> DEFINE n    == Inum(c, d)
           size == fs.inodes[n].size
<1>1. InUse(c, d)
  BY DEF Seek
<1>2. n \in Offered /\ Pos(c, d) \in Nat /\ Sound(fs) /\ size \in Nat
  BY <1>1, HeldFacts DEF Node
<1>3. PICK start \in Whences(c, d), offset \in Offsets :
        LET pos == start + offset IN
        \/ Refuse(fs)
        \/ AnswerAt(fs, c, d, pos)
        \/ /\ pos > HighestInBlock(size)
           /\ pos < EntriesPerBlock * Pointers \/ pos >= SeekLimit
           /\ SeekPastEnd(c, d, pos)
  BY DEF Seek, Node
<1> DEFINE pos == start + offset
           index == pos \div EntriesPerBlock
           grown == AddNewEmptyBlock(fs, fs.inodes[n], index)
           w     == WriteInodeToDisk(grown.fs, n, grown.node)
<1>4. pos \in Int
  <2>1. start \in Nat
    BY <1>2 DEF Whences, Node
  <2> QED
    BY <2>1, FileAssumption
<1>5. CASE Refuse(fs) \/ AnswerAt(fs, c, d, pos)
  BY <1>5 DEF Refuse, AnswerAt
<1>6. CASE /\ pos > HighestInBlock(size)
           /\ pos < EntriesPerBlock * Pointers \/ pos >= SeekLimit
           /\ SeekPastEnd(c, d, pos)
  <2>1. CASE pos >= SeekLimit
    <3>1. Refuse(fs)
      BY <1>6, <2>1 DEF SeekPastEnd
    <3> QED
      BY <3>1 DEF Refuse
  <2>2. CASE ~ (pos >= SeekLimit)
    <3>1. pos \in Nat
      BY <1>2, <1>4, <1>6, HighestTypes
    <3>2. /\ GrowFails(fs.inodes[n], index) => fs' = grown.fs
          /\ ~ GrowFails(fs.inodes[n], index) => fs' = w
      BY <1>6, <2>2 DEF SeekPastEnd, Node, Refuse, AnswerAt
    <3>3. /\ index \in Nat /\ index > size \div EntriesPerBlock
          /\ SlotOfPointer(index) \in Slots
      <4> HIDE DEF size, pos
      <4> QED
        BY <1>2, <1>6, <2>2, <3>1, SeekIndex
    <3> HIDE DEF n, index
    <3>4. ASSUME index < NumDirect
          PROVE  \E one, two : Grows(n, index, one, two)
      <4>1. index \in Directs
        BY <3>3, <3>4, Units DEF Directs
      <4> QED
        BY <1>2, <3>3, <4>1, DirectTakes
    <3>5. ASSUME ~ (index < NumDirect)
          PROVE  \E one, two : Grows(n, index, one, two)
      BY <1>2, <3>3, <3>5, IndirectTakes
    <3>6. PICK one, two : Grows(n, index, one, two)
      BY <3>4, <3>5
    <3>7. \/ GrowFails(fs.inodes[n], index) /\ Takes(fs, grown.fs, n, one, two)
          \/ ~ GrowFails(fs.inodes[n], index) /\ Takes(fs, w, n, one, two)
      BY <3>6 DEF Grows
    <3> HIDE DEF grown, w
    <3> QED
      BY <3>2, <3>7 DEF n
  <2> QED
    BY <2>1, <2>2
<1> QED
  BY <1>3, <1>5, <1>6 DEF size, n

(* What a SEEK takes was free, so it has no other user.                     *)
LEMMA TakesAlone ==
  ASSUME NEW v, Sound(v), Ledger(v), NEW n \in Inodes, NEW w,
         NEW one, NEW two, Takes(v, w, n, one, two)
  PROVE  Ledger(w)
<1> DEFINE x == v.inodes[n]  y == w.inodes[n]
<1>1. x \in Inode /\ v.inodes \in [Inodes -> Inode]
  BY DEF Sound, Volume
<1>2. /\ \A m \in Inodes \ {n} : w.inodes[m] = v.inodes[m]
      /\ y.direct = x.direct
  BY <1>1 DEF Takes, Inode
<1>3. /\ y.indirect # x.indirect => x.indirect = 0 /\ y.indirect \in v.free \ w.free
      /\ w.free \subseteq v.free
  BY DEF Takes
<1>4. Alone(v, n, x) /\ v.free \cap InodeBlocks = {}
  BY DEF Ledger, Sound
<1>5. x.direct[0] # ERROR
  BY <1>1, LayoutFacts DEF Inode
<1> HIDE DEF x, y
<1>6. Holds(y) \subseteq Holds(x) \cup (v.free \ w.free)
  BY <1>2, <1>3 DEF Holds
<1>7. Alone(w, n, y)
  <2>1. y.direct[0] # 0 => y.direct[0] # y.indirect
    BY <1>2, <1>3, <1>4, <1>5 DEF Alone, Holds
  <2>2. Holds(y) \cap (w.free \cup InodeBlocks) = {}
    BY <1>3, <1>4, <1>6 DEF Alone
  <2>3. ASSUME NEW m \in Inodes \ {n}
        PROVE  Holds(w.inodes[m]) \cap Holds(y) = {}
    <3>1. Holds(v.inodes[m]) \cap v.free = {} /\ Holds(v.inodes[m]) \cap Holds(x) = {}
      BY <1>4 DEF Ledger, Alone
    <3> QED
      BY <1>2, <1>6, <3>1
  <2> QED
    BY <2>1, <2>2, <2>3 DEF Alone
<1> QED
  BY <1>2, <1>3, <1>7, OneMoved DEF y

----------------------------------------------------------------------------
(* No block has two users, with open files. *)

FilesSessionInv == FilesInv /\ (boots = 0 => Ledger(fs))

(* Every step before the first restart keeps the ledger.                    *)
LEMMA FilesSessionStep ==
  ASSUME FilesSessionInv, [FilesNext]_fileVars, boots' = 0
  PROVE  Ledger(fs')
<1>1. IInv /\ FilesInv /\ (boots = 0 => Ledger(fs))
  BY DEF FilesSessionInv, FilesInv
<1>2. CASE [Next]_vars
  BY <1>1, <1>2, SessionStep
<1>3. ASSUME fs' = fs, boots' = boots
      PROVE  Ledger(fs')
  BY <1>1, <1>3
<1>4. ASSUME NEW c \in Clients, NEW d \in Descriptors, Seek(c, d)
      PROVE  Ledger(fs')
  <2>1. boots' = boots
    BY <1>4 DEF Seek, SeekPastEnd, Refuse, AnswerAt
  <2>2. Inum(c, d) \in Inodes /\ Sound(fs)
    BY <1>1, <1>4, HeldFacts, LayoutFacts DEF Seek
  <2>3. fs' = fs \/ \E one, two : Takes(fs, fs', Inum(c, d), one, two)
    BY <1>1, <1>4, SeekTakes
  <2> QED
    BY <1>1, <2>1, <2>2, <2>3, TakesAlone
<1>5. ASSUME NEW c \in Clients, NEW d \in Descriptors, Write(c, d)
      PROVE  Ledger(fs')
  <2>1. boots' = boots
    BY <1>5 DEF Write, Refuse, AnswerAt
  <2>2. fs' # fs => fs' = PutSector(fs, 0, fs'.blocks[0])
    BY <1>1, <1>5, WriteStep
  <2>3. fs \in Volume
    BY <1>1 DEF IInv, Sound
  <2>4. fs'.inodes = fs.inodes /\ fs'.free = fs.free
    BY <2>2, <2>3 DEF PutSector, Volume
  <2> QED
    BY <1>1, <2>1, <2>4, FewerFree
<1>6. ASSUME NEW c \in Clients, NEW d \in Descriptors, Read(c, d) \/ Close(c, d)
      PROVE  Ledger(fs')
  <2>1. fs' = fs /\ boots' = boots
    BY <1>6 DEF Read, Close, Refuse, AnswerAt, vars
  <2> QED
    BY <1>3, <2>1
<1>7. CASE UNCHANGED fileVars
  BY <1>2, <1>7 DEF fileVars
<1>8. ASSUME NEW c \in Clients, NEW p \in Paths, OpenFile(c, p) \/ CreateFile(c, p)
      PROVE  Ledger(fs')
  BY <1>2, <1>8 DEF OpenFile, CreateFile, Next, Request
<1>9. ASSUME NEW c \in Clients, NameRequest(c)
      PROVE  Ledger(fs')
  BY <1>2, <1>9 DEF NameRequest, Next, Request
<1>10. CASE Shutdown \/ FilesReboot
  BY <1>2, <1>10 DEF FilesReboot, Next
<1> QED
  BY <1>4, <1>5, <1>6, <1>7, <1>8, <1>9, <1>10, Zenon DEF FilesNext

(* The ledger of blocks holds before the first restart, file requests       *)
(* included.                                                                *)
THEOREM FilesSessionInvariance == FilesSpec => []FilesSessionInv
<1>1. FilesInit => FilesSessionInv
  BY FilesInitial, FreshLedger DEF FilesInit, FilesSessionInv
<1>2. FilesSessionInv /\ [FilesNext]_fileVars => FilesSessionInv'
  BY FilesStep, FilesSessionStep DEF FilesSessionInv
<1> QED
  BY <1>1, <1>2, PTL DEF FilesSpec

(* SEEK, READ and WRITE included, no block has two users before the first   *)
(* restart.                                                                 *)
THEOREM FilesOneUserPerBlock == FilesSpec => []SessionExclusive
<1>1. FilesSessionInv => SessionExclusive
  BY DEF FilesSessionInv, Ledger, Alone, Holds, SessionExclusive, BlocksNamedBy
<1> QED
  BY <1>1, FilesSessionInvariance, PTL

(* A SEEK, refused or not, takes two free blocks at most and changes        *)
(* nothing that a size covers, in every session.                            *)
THEOREM SeeksKeepContents == FilesSpec => SeekKeepsContents
<1> DEFINE Kept(c, d) ==
      LET n == Inum(c, d)
          taken == fs.free \ fs'.free
          changed == {b \in Blocks : fs'.blocks[b] # fs.blocks[b]}
      IN /\ Cardinality(taken) <= 2
         /\ fs'.inodes = [fs.inodes EXCEPT ![n] = [@ EXCEPT !.indirect = fs'.inodes[n].indirect]]
         /\ fs'.inodes[n].indirect # fs.inodes[n].indirect =>
              fs.inodes[n].indirect = 0 /\ fs'.inodes[n].indirect \in taken
         /\ changed \subseteq taken \cup {fs'.inodes[n].indirect}
<1>1. ASSUME FilesInv, NEW c \in Clients, NEW d \in Descriptors, fs' # fs, Seek(c, d)
      PROVE  Kept(c, d)
  <2>1. PICK one, two : Takes(fs, fs', Inum(c, d), one, two)
    BY <1>1, SeekTakes
  <2>2. Cardinality(fs.free \ fs'.free) <= 2
    <3>1. fs.free \ fs'.free \subseteq {one, two}
      BY <2>1 DEF Takes
    <3>2. /\ IsFiniteSet({one, two}) /\ Cardinality({one, two}) \in Nat
          /\ Cardinality({one, two}) <= 2
      <4>1. IsFiniteSet({one}) /\ Cardinality({one}) = 1
        BY FS_Singleton
      <4>2. {one, two} = {one} \cup {two}
        OBVIOUS
      <4>3. /\ IsFiniteSet({one} \cup {two})
            /\ Cardinality({one} \cup {two}) = 1 \/ Cardinality({one} \cup {two}) = 2
        BY <4>1, FS_AddElement
      <4> QED
        BY <4>2, <4>3
    <3>3. /\ Cardinality(fs.free \ fs'.free) <= Cardinality({one, two})
          /\ IsFiniteSet(fs.free \ fs'.free)
      BY <3>1, <3>2, FS_Subset
    <3>4. Cardinality(fs.free \ fs'.free) \in Nat
      BY <3>3, FS_CardinalityType
    <3> QED
      BY <3>2, <3>3, <3>4
  <2> QED
    BY <2>1, <2>2 DEF Takes, Untouched
<1>2. FilesInv /\ [FilesNext]_fileVars =>
        [\A c \in Clients, d \in Descriptors : fs' # fs /\ Seek(c, d) => Kept(c, d)]_fileVars
  BY <1>1
<1> QED
  BY <1>2, FilesInvariance, PTL DEF FilesSpec, SeekKeepsContents

----------------------------------------------------------------------------
(* Descriptors get lost by refusals only. *)

(* Open and Create take a descriptor that nobody holds; the process gets it *)
(* with an answer, and loses it without one.                                *)
LEMMA TakeLoses ==
  ASSUME FilesInv, NEW c \in Clients, Unused(c) # {}, TakeDescriptor(c)
  PROVE  /\ \A b \in Clients \ {c} : Lost(b)' = Lost(b)
         /\ Answered => Lost(c)' = Lost(c)
         /\ ~ Answered => \E d \in Descriptors : d \notin Lost(c) /\ Lost(c)' = Lost(c) \cup {d}
<1> DEFINE d == First(Unused(c))
           taken == [fds[c][d] EXCEPT !.used = TRUE, !.pos = 0]
           new == IF Answered THEN [taken EXCEPT !.inum = reply'] ELSE taken
<1>1. d \in Descriptors /\ ~ fds[c][d].used
  <2>1. Unused(c) \subseteq Nat
    BY FileAssumption DEF Unused, Descriptors
  <2>2. d \in Unused(c)
    BY <2>1, FirstOfNat
  <2> QED
    BY <2>2 DEF Unused
<1>2. fds' = [fds EXCEPT ![c] = [@ EXCEPT ![d] = new]]
  BY DEF TakeDescriptor
<1>3. held' = IF Answered THEN [held EXCEPT ![c] = @ \cup {d}] ELSE held
  BY DEF TakeDescriptor
<1> HIDE DEF d
<1>4. /\ fds \in [Clients -> [Descriptors -> Handle]] /\ held \in [Clients -> SUBSET Descriptors]
      /\ \A e \in held[c] : fds[c][e].used
  BY DEF FilesInv, FilesTyped, Handle
<1>5. new.used = TRUE
  <2>1. fds[c][d] \in Handle
    BY <1>1, <1>4
  <2>2. taken.used = TRUE /\ taken \in [used : BOOLEAN, inum : Offered \cup {ERROR}, pos : {0} \cup (0 .. MaxCursor)]
    BY <2>1 DEF Handle
  <2> HIDE DEF taken
  <2> QED
    BY <2>2
<1> HIDE DEF new
<1>6. /\ fds'[c][d].used
      /\ \A e \in Descriptors \ {d} : fds'[c][e] = fds[c][e]
      /\ \A b \in Clients \ {c} : fds'[b] = fds[b] /\ held'[b] = held[b]
  BY <1>1, <1>2, <1>3, <1>4, <1>5
<1>7. \A b \in Clients \ {c} : Lost(b)' = Lost(b)
  BY <1>6 DEF Lost
<1>8. ASSUME Answered
      PROVE  Lost(c)' = Lost(c)
  <2>1. held'[c] = held[c] \cup {d}
    BY <1>3, <1>4, <1>8
  <2> QED
    BY <1>1, <1>6, <2>1 DEF Lost
<1>9. ASSUME ~ Answered
      PROVE  d \notin Lost(c) /\ Lost(c)' = Lost(c) \cup {d}
  <2>1. held'[c] = held[c] /\ d \notin held[c]
    BY <1>1, <1>3, <1>4, <1>9
  <2> QED
    BY <1>1, <1>6, <2>1 DEF Lost
<1> QED
  BY <1>1, <1>7, <1>8, <1>9

(* A SEEK or a READ is refused, or answers with a position.                 *)
LEMMA Reaches ==
  ASSUME FilesInv, NEW c \in Clients, NEW d \in Descriptors, Seek(c, d) \/ Read(c, d)
  PROVE  \E volume : Refuse(volume) \/ \E pos \in Nat : AnswerAt(volume, c, d, pos)
<1>1. InUse(c, d)
  BY DEF Seek, Read
<1>2. Pos(c, d) \in Nat /\ Node(c, d).size \in Nat
  BY <1>1, HeldFacts
<1>3. HighestInBlock(Node(c, d).size) \in Nat
  BY <1>2, HighestTypes
<1>4. CASE Seek(c, d)
  <2>1. PICK start \in Whences(c, d), offset \in Offsets :
          LET pos == start + offset IN
          \/ Refuse(fs)
          \/ 0 <= pos /\ AnswerAt(fs, c, d, pos)
          \/ pos > HighestInBlock(Node(c, d).size) /\ SeekPastEnd(c, d, pos)
    BY <1>4 DEF Seek
  <2>2. start + offset \in Int
    BY <1>2, FileAssumption DEF Whences
  <2>3. CASE Refuse(fs)
    BY <2>3
  <2>4. CASE 0 <= start + offset /\ AnswerAt(fs, c, d, start + offset)
    BY <2>2, <2>4
  <2>5. CASE /\ start + offset > HighestInBlock(Node(c, d).size)
             /\ SeekPastEnd(c, d, start + offset)
    <3>1. start + offset \in Nat
      BY <1>3, <2>2, <2>5
    <3> DEFINE pos == start + offset
               grown == AddNewEmptyBlock(fs, Node(c, d), pos \div EntriesPerBlock)
               w == WriteInodeToDisk(grown.fs, Inum(c, d), grown.node)
    <3>2. Refuse(fs) \/ Refuse(grown.fs) \/ AnswerAt(w, c, d, pos)
      BY <2>5 DEF SeekPastEnd
    <3> HIDE DEF pos, grown, w
    <3> QED
      BY <3>1, <3>2 DEF pos
  <2> QED
    BY <2>1, <2>3, <2>4, <2>5
<1>5. CASE Read(c, d)
  <2>1. PICK count \in Counts :
          LET n == IF Pos(c, d) + count > Node(c, d).size THEN Node(c, d).size - Pos(c, d) ELSE count
          IN \/ Refuse(fs)
             \/ Pos(c, d) <= Node(c, d).size /\ AnswerAt(fs, c, d, Pos(c, d) + n)
    BY <1>5 DEF Read
  <2>2. count \in Nat
    BY FileAssumption, Units
  <2> DEFINE n == IF Pos(c, d) + count > Node(c, d).size THEN Node(c, d).size - Pos(c, d) ELSE count
  <2>3. Pos(c, d) <= Node(c, d).size => Pos(c, d) + n \in Nat
    BY <1>2, <2>2
  <2> HIDE DEF n
  <2> QED
    BY <2>1, <2>3 DEF n
<1> QED
  BY <1>4, <1>5

(* The calls that take no descriptor lose none.                             *)
LEMMA OthersLoseNone ==
  ASSUME FilesInv, NEW c \in Clients, NEW d \in Descriptors,
         \/ Close(c, d) \/ Seek(c, d) \/ Read(c, d) \/ Write(c, d)
  PROVE  \A b \in Clients : Lost(b)' = Lost(b)
<1>1. /\ fds \in [Clients -> [Descriptors -> Handle]] /\ held \in [Clients -> SUBSET Descriptors]
  BY DEF FilesInv, FilesTyped, Handle
<1>2. ASSUME NEW x \in Handle, x.used = fds[c][d].used, held' = held,
             fds' = [fds EXCEPT ![c] = [@ EXCEPT ![d] = x]]
      PROVE  \A b \in Clients : Lost(b)' = Lost(b)
  <2>1. \A b \in Clients : \A e \in Descriptors : fds'[b][e].used = fds[b][e].used
    BY <1>1, <1>2
  <2> QED
    BY <1>2, <2>1 DEF Lost
<1>3. CASE Close(c, d)
  <2> DEFINE x == [fds[c][d] EXCEPT !.used = FALSE]
  <2>1. fds' = [fds EXCEPT ![c] = [@ EXCEPT ![d] = x]]
    BY <1>3 DEF Close
  <2>2. x.used = FALSE
    <3>1. fds[c][d] \in Handle
      BY <1>1
    <3> QED
      BY <3>1 DEF Handle
  <2> HIDE DEF x
  <2>3. d \in held[c] /\ held' = [held EXCEPT ![c] = @ \ {d}]
    BY <1>3 DEF Close
  <2>4. /\ ~ fds'[c][d].used /\ held'[c] = held[c] \ {d}
        /\ \A e \in Descriptors \ {d} : fds'[c][e] = fds[c][e]
        /\ \A b \in Clients \ {c} : fds'[b] = fds[b] /\ held'[b] = held[b]
    BY <1>1, <2>1, <2>2, <2>3
  <2>5. Lost(c)' = Lost(c)
    BY <2>3, <2>4 DEF Lost
  <2> QED
    BY <2>4, <2>5 DEF Lost
<1>4. ASSUME NEW volume, Refuse(volume)
      PROVE  \A b \in Clients : Lost(b)' = Lost(b)
  BY <1>4 DEF Refuse, Lost
<1>5. ASSUME NEW volume, NEW pos, pos \in Nat, AnswerAt(volume, c, d, pos)
      PROVE  \A b \in Clients : Lost(b)' = Lost(b)
  <2> DEFINE x == [fds[c][d] EXCEPT !.pos = pos]
  <2>1. pos \in 0 .. MaxCursor
    BY <1>5, FileAssumption DEF AnswerAt
  <2>2. x \in Handle /\ x.used = fds[c][d].used
    <3>1. fds[c][d] \in Handle
      BY <1>1
    <3> QED
      BY <2>1, <3>1 DEF Handle
  <2>3. held' = held /\ fds' = [fds EXCEPT ![c] = [@ EXCEPT ![d] = x]]
    BY <1>5 DEF AnswerAt
  <2> QED
    BY <1>2, <2>2, <2>3
<1>6. CASE Seek(c, d) \/ Read(c, d)
  BY <1>6, <1>4, <1>5, Reaches
<1>7. CASE Write(c, d)
  BY <1>7, <1>4, <1>5, WriteReaches
<1> QED
  BY <1>3, <1>6, <1>7

(* Only a refused Open or Create, or one in which the server died, takes a  *)
(* descriptor away from its process, one at a time, and nothing before a    *)
(* restart gives it back.                                                   *)
THEOREM RefusalsLose == FilesSpec => LostByRefusalOnly
<1> DEFINE LosesOne(c) ==
      /\ boots' = boots => Lost(c) \subseteq Lost(c)'
      /\ Lost(c)' # Lost(c) /\ boots' = boots =>
           /\ Cardinality(Lost(c)') = Cardinality(Lost(c)) + 1
           /\ ~ Answered
<1>1. ASSUME \A c \in Clients : Lost(c)' = Lost(c)
      PROVE  \A c \in Clients : LosesOne(c)
  BY <1>1
<1>2. ASSUME FilesInv, FilesReboot
      PROVE  \A c \in Clients : LosesOne(c)
  <2>1. boots' # boots
    BY <1>2 DEF FilesReboot, Reboot, FilesInv, IInv
  <2> QED
    BY <2>1
<1>3. ASSUME FilesInv, NEW c \in Clients, NEW p \in Paths, OpenFile(c, p) \/ CreateFile(c, p)
      PROVE  \A b \in Clients : LosesOne(b)
  <2>1. Unused(c) # {} /\ TakeDescriptor(c)
    BY <1>3 DEF OpenFile, CreateFile
  <2>2. /\ \A b \in Clients \ {c} : Lost(b)' = Lost(b)
        /\ Answered => Lost(c)' = Lost(c)
        /\ ~ Answered => \E d \in Descriptors : d \notin Lost(c) /\ Lost(c)' = Lost(c) \cup {d}
    BY <1>3, <2>1, TakeLoses
  <2>3. ASSUME ~ Answered
        PROVE  LosesOne(c)
    <3>1. PICK d \in Descriptors : d \notin Lost(c) /\ Lost(c)' = Lost(c) \cup {d}
      BY <2>2, <2>3
    <3>2. IsFiniteSet(Lost(c))
      <4>1. IsFiniteSet(Descriptors)
        BY FileAssumption, FS_Interval DEF Descriptors
      <4> QED
        BY <4>1, FS_Subset DEF Lost
    <3>3. Cardinality(Lost(c) \cup {d}) = Cardinality(Lost(c)) + 1
      BY <3>1, <3>2, FS_AddElement
    <3> QED
      BY <2>3, <3>1, <3>3
  <2> QED
    BY <2>2, <2>3
<1>4. ASSUME FilesInv, NEW c \in Clients, NEW d \in Descriptors,
             \/ Close(c, d) \/ Seek(c, d) \/ Read(c, d) \/ Write(c, d)
      PROVE  \A b \in Clients : LosesOne(b)
  BY <1>1, <1>4, OthersLoseNone
<1>5. ASSUME UNCHANGED <<fds, held>>
      PROVE  \A b \in Clients : LosesOne(b)
  BY <1>1, <1>5 DEF Lost
<1>6. ASSUME FilesInv, FilesNext
      PROVE  \A b \in Clients : LosesOne(b)
  <2>1. ASSUME NEW c \in Clients, NameRequest(c)
        PROVE  \A b \in Clients : LosesOne(b)
    BY <1>5, <2>1 DEF NameRequest
  <2> HIDE DEF LosesOne
  <2> QED
    BY <1>2, <1>3, <1>4, <1>5, <1>6, <2>1 DEF FilesNext
<1>7. FilesInv /\ [FilesNext]_fileVars =>
        [\A c \in Clients :
           /\ boots' = boots => Lost(c) \subseteq Lost(c)'
           /\ Lost(c)' # Lost(c) /\ boots' = boots =>
                /\ Cardinality(Lost(c)') = Cardinality(Lost(c)) + 1
                /\ ~ Answered]_fileVars
  BY <1>6, Zenon
<1> QED
  BY <1>7, FilesInvariance, PTL DEF FilesSpec, LostByRefusalOnly
=============================================================================
