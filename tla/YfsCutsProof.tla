---------------------------- MODULE YfsCutsProof ----------------------------
(***************************************************************************)
(* What the volume is wherever the power goes: every cut of a request is a *)
(* sound volume, so the next server starts from one; and the paths of a    *)
(* volume that is not damaged show no more in between than before or after.*)
(*                                                                         *)
(* The second part compares volumes by what their paths show.  A cut that  *)
(* adds a name is either the volume the request ends with or AsBefore, one *)
(* whose directories hold what they held; a cut that clears one finds less *)
(* than before (FindsLess).                                                *)
(***************************************************************************)
EXTENDS YfsCuts, YfsSessionProof

----------------------------------------------------------------------------
(* The cuts of the helpers. *)

(* A directory cut while it grows differs in blocks that were free and in   *)
(* its indirect block.                                                      *)
LEMMA GrowCutsKeep ==
  ASSUME NEW v, Sound(v), NEW node \in Inode,
         NEW index \in Nat, ~ (index < NumDirect), SlotOfPointer(index) \in Slots,
         NEW u \in GrowCuts(v, node, index)
  PROVE  /\ Sound(u) /\ u.inodes = v.inodes /\ u.free \subseteq v.free
         /\ Untouched(v, u, v.free \cup ({node.indirect} \ {0}))
<1> DEFINE first  == FindFreeBlock(v).fs
           second == FindFreeBlock(first).fs
           grown  == AddNewEmptyBlock(v, node, index).fs
<1>1. u \in {grown, first, second}
  BY DEF GrowCuts
<1>2. /\ Sound(first) /\ first.inodes = v.inodes /\ first.free \subseteq v.free
      /\ Untouched(v, first, v.free)
  BY FindFreeBlockSound, FindFreeBlockKeeps DEF Sound
<1>3. /\ Sound(second) /\ second.inodes = first.inodes /\ second.free \subseteq first.free
      /\ Untouched(first, second, first.free)
  <2> HIDE DEF first
  <2> QED
    BY <1>2, FindFreeBlockSound, FindFreeBlockKeeps DEF Sound
<1>4. /\ Sound(grown) /\ grown.inodes = v.inodes /\ grown.free \subseteq v.free
      /\ Untouched(v, grown, v.free \cup ({node.indirect} \ {0}))
  BY AddNewEmptyBlockSound, GrowKeeps
<1> HIDE DEF first, second, grown
<1> QED
  BY <1>1, <1>2, <1>3, <1>4 DEF Untouched

(* The blocks an append may write to besides the one that gets the entry.   *)
Growth(v, node) ==
  IF (node.size + 1) % EntriesPerBlock = 0 THEN v.free \cup ({node.indirect} \ {0}) ELSE {}

(* An append cut before the inode is written: the entry behind the end of   *)
(* the directory may be there, and blocks taken that nothing names yet.     *)
MidAppend(v, u, node) ==
  /\ Sound(u) /\ u.inodes = v.inodes /\ u.free \subseteq v.free
  /\ Untouched(v, u, Growth(v, node) \cup {EndBlock(node)})
  /\ EndBlock(node) \notin Growth(v, node) =>
       \A s \in Slots \ {EndSlot(node)} :
         u.blocks[EndBlock(node)][s] = v.blocks[EndBlock(node)][s]

(* Wherever an append is cut, it is done or in the middle.                  *)
LEMMA EntryCutsMid ==
  ASSUME NEW v, Sound(v), NEW n \in Offered, NEW node \in Inode, node.size < MaxSize,
         NEW inum \in Offered, NEW name \in Names,
         NEW u \in EntryCuts(v, node, n, inum, name)
  PROVE  u = WriteDirectoryToInode(v, node, n, inum, name).fs \/ MidAppend(v, u, node)
<1> DEFINE slot    == EndSlot(node)
           sector  == EndBlock(node)
           content == [v.blocks[sector] EXCEPT ![slot] = [inum |-> inum, name |-> name]]
           sized   == [node EXCEPT !.size = node.size + 1]
           full    == sized.size % EntriesPerBlock = 0
           grown   == IF full THEN AddNewEmptyBlock(v, sized, slot + 1).fs ELSE v
           put     == [grown EXCEPT !.blocks = [@ EXCEPT ![sector] = content]]
<1>1. \/ u = WriteDirectoryToInode(v, node, n, inum, name).fs
      \/ u = put
      \/ full /\ u \in GrowCuts(v, sized, slot + 1)
  BY Zenon DEF EntryCuts, EndBlock, EndSlot
<1>2. node.size \in 0 .. MaxSize /\ node.direct \in [Directs -> Blocks] /\ MaxSize \in Nat
  BY LayoutAssumption DEF Inode
<1>3. slot \in Slots /\ sector \in Blocks
  BY <1>2, EntryPlace DEF EndBlock, EndSlot
<1>4. v.blocks[sector] \in [Slots -> Entry] /\ content \in [Slots -> Entry]
  <2>1. v.blocks[sector] \in [Slots -> Entry]
    BY <1>3 DEF Sound, Volume
  <2> QED
    BY <2>1, <1>3, EntryTypes
<1>5. sized \in Inode /\ sized.size = node.size + 1 /\ sized.indirect = node.indirect
  BY <1>2 DEF Inode
<1>6. full => slot + 1 = EntriesPerBlock
  BY <1>2, <1>5, GrowsAtTheEnd DEF EndSlot
<1>7. \A s \in Slots \ {slot} : content[s] = v.blocks[sector][s]
  BY <1>4
<1>8. full => Growth(v, node) = v.free \cup ({node.indirect} \ {0})
  BY <1>5 DEF Growth
<1>9. EntriesPerBlock \in Nat /\ ~ (EntriesPerBlock < NumDirect) /\ SlotOfPointer(EntriesPerBlock) \in Slots
  BY LayoutAssumption
<1> HIDE DEF slot, sector, content, sized, full
<1>10. full => /\ grown \in GrowCuts(v, sized, slot + 1)
               /\ \A w \in GrowCuts(v, sized, slot + 1) :
                    /\ Sound(w) /\ w.inodes = v.inodes /\ w.free \subseteq v.free
                    /\ Untouched(v, w, Growth(v, node))
  <2> SUFFICES ASSUME full
               PROVE  /\ grown \in GrowCuts(v, sized, slot + 1)
                      /\ \A w \in GrowCuts(v, sized, slot + 1) :
                           /\ Sound(w) /\ w.inodes = v.inodes /\ w.free \subseteq v.free
                           /\ Untouched(v, w, Growth(v, node))
    OBVIOUS
  <2>1. grown = AddNewEmptyBlock(v, sized, slot + 1).fs
    OBVIOUS
  <2> HIDE DEF grown
  <2>2. grown \in GrowCuts(v, sized, slot + 1)
    BY <2>1 DEF GrowCuts
  <2>3. slot + 1 \in Nat /\ ~ (slot + 1 < NumDirect) /\ SlotOfPointer(slot + 1) \in Slots
    BY <1>6, <1>9
  <2>4. ASSUME NEW w \in GrowCuts(v, sized, slot + 1)
        PROVE  /\ Sound(w) /\ w.inodes = v.inodes /\ w.free \subseteq v.free
               /\ Untouched(v, w, Growth(v, node))
    <3>1. /\ Sound(w) /\ w.inodes = v.inodes /\ w.free \subseteq v.free
          /\ Untouched(v, w, v.free \cup ({sized.indirect} \ {0}))
      BY <2>3, <1>5, GrowCutsKeep
    <3> QED
      BY <3>1, <1>5, <1>8
  <2> QED
    BY <2>2, <2>4
<1>11. /\ Sound(grown) /\ grown.inodes = v.inodes /\ grown.free \subseteq v.free
       /\ Untouched(v, grown, Growth(v, node))
  <2>1. CASE full
    BY <2>1, <1>10
  <2>2. CASE ~ full
    <3>1. grown = v
      BY <2>2
    <3> HIDE DEF grown
    <3> QED
      BY <3>1 DEF Untouched
  <2> QED
    BY <2>1, <2>2
<1> HIDE DEF grown
<1>12. MidAppend(v, put, node)
  <2>1. Sound(put) /\ put.inodes = grown.inodes /\ put.free = grown.free
    BY <1>3, <1>4, <1>11, PutBlockSound
  <2>2. grown.blocks \in [Blocks -> [Slots -> Entry]]
    BY <1>11 DEF Sound, Volume
  <2>3. put.blocks = [grown.blocks EXCEPT ![sector] = content]
    BY <1>11 DEF Sound, Volume
  <2> HIDE DEF put
  <2>4. Untouched(v, put, Growth(v, node) \cup {sector}) /\ put.blocks[sector] = content
    BY <1>3, <1>11, <2>2, <2>3 DEF Untouched
  <2> QED
    BY <1>7, <1>11, <2>1, <2>4 DEF MidAppend, sector, slot
<1>13. ASSUME full, u \in GrowCuts(v, sized, slot + 1)
       PROVE  MidAppend(v, u, node)
  BY <1>3, <1>10, <1>13 DEF MidAppend, Untouched, sector
<1> QED
  BY <1>1, <1>12, <1>13

(* An append that does not fill the block writes to that block only.        *)
LEMMA ShortAppend ==
  ASSUME NEW v, Sound(v), NEW n \in Offered, NEW node \in Inode, node.size < MaxSize,
         (node.size + 1) % EntriesPerBlock # 0,
         NEW inum \in Offered, NEW name \in Names
  PROVE  Untouched(v, WriteDirectoryToInode(v, node, n, inum, name).fs, {EndBlock(node)})
<1> DEFINE w       == WriteDirectoryToInode(v, node, n, inum, name).fs
           slot    == EndSlot(node)
           sector  == EndBlock(node)
           content == [v.blocks[sector] EXCEPT ![slot] = [inum |-> inum, name |-> name]]
           sized   == [node EXCEPT !.size = node.size + 1]
           grown   == IF sized.size % EntriesPerBlock = 0
                      THEN AddNewEmptyBlock(v, sized, slot + 1)
                      ELSE [fs |-> v, node |-> sized]
           put     == [grown.fs EXCEPT !.blocks = [@ EXCEPT ![sector] = content]]
<1>1. w = WriteInodeToDisk(put, n, grown.node)
  BY Zenon DEF WriteDirectoryToInode, EndBlock, EndSlot
<1>2. node.size \in 0 .. MaxSize /\ node.direct \in [Directs -> Blocks] /\ MaxSize \in Nat
  BY LayoutAssumption DEF Inode
<1>3. slot \in Slots /\ sector \in Blocks
  BY <1>2, EntryPlace DEF EndBlock, EndSlot
<1>4. content \in [Slots -> Entry]
  <2>1. v.blocks[sector] \in [Slots -> Entry]
    BY <1>3 DEF Sound, Volume
  <2> QED
    BY <2>1, <1>3, EntryTypes
<1>5. sized \in Inode /\ sized.size = node.size + 1
  BY <1>2 DEF Inode
<1> HIDE DEF slot, sector, content, sized, w
<1>6. grown.fs = v /\ grown.node = sized
  BY <1>5
<1> HIDE DEF grown
<1>7. put = [v EXCEPT !.blocks = [@ EXCEPT ![sector] = content]]
  BY <1>6
<1>8. Sound(put)
  BY <1>3, <1>4, <1>7, PutBlockSound
<1>9. put.blocks = [v.blocks EXCEPT ![sector] = content] /\ v.blocks \in [Blocks -> [Slots -> Entry]]
  BY <1>7 DEF Sound, Volume
<1> HIDE DEF put
<1>10. w.blocks = put.blocks
  <2>1. put \in Volume /\ n \in Inodes
    BY <1>8, LayoutFacts DEF Sound
  <2>2. w = WriteInodeToDisk(put, n, sized)
    BY <1>1, <1>6
  <2> QED
    BY <1>5, <2>1, <2>2, WriteInodeTypes
<1>11. Untouched(v, w, {sector})
  BY <1>9, <1>10 DEF Untouched
<1> QED
  BY <1>11 DEF w, sector

(* A volume with another inode n, and other contents of free blocks.        *)
AroundNew(v, u, n) ==
  /\ Sound(u) /\ u.free \subseteq v.free
  /\ \A m \in Inodes \ {n} : u.inodes[m] = v.inodes[m]
  /\ Untouched(v, u, v.free)

(* Such a volume stays one while "." or ".." goes into the new inode's      *)
(* block, which was free.                                                   *)
LEMMA ShortCutsAround ==
  ASSUME NEW v, NEW w, NEW n \in Offered, AroundNew(v, w, n),
         NEW node \in Inode, OneBlock(node), Fitting(w, n, node),
         node.size \in {0, 1}, node.direct[0] \in v.free,
         NEW inum \in Offered, NEW name \in Names,
         NEW u \in EntryCuts(w, node, n, inum, name) \cup
                   {WriteDirectoryToInode(w, node, n, inum, name).fs}
  PROVE  AroundNew(v, u, n)
<1> DEFINE got == WriteDirectoryToInode(w, node, n, inum, name)
<1>1. (node.size + 1) % EntriesPerBlock # 0 /\ node.size < MaxSize
  <2>1. 1 % EntriesPerBlock = 1 /\ 2 % EntriesPerBlock = 2
    BY LayoutAssumption
  <2>2. node.size + 1 \in {1, 2}
    OBVIOUS
  <2> QED
    BY <2>1, <2>2, LayoutAssumption
<1>2. EndBlock(node) \in v.free
  BY FirstEntries
<1>3. CASE u = got.fs
  <2>1. /\ Sound(got.fs) /\ got.fs.free \subseteq w.free
        /\ \A m \in Inodes \ {n} : got.fs.inodes[m] = w.inodes[m]
    BY <1>1, WriteDirectorySound DEF AroundNew
  <2>2. Untouched(w, got.fs, {EndBlock(node)})
    BY <1>1, ShortAppend DEF AroundNew
  <2> HIDE DEF got
  <2> QED
    BY <1>2, <1>3, <2>1, <2>2 DEF AroundNew, Untouched
<1>4. CASE MidAppend(w, u, node)
  <2>1. Growth(w, node) = {}
    BY <1>1 DEF Growth
  <2> QED
    BY <1>2, <1>4, <2>1 DEF MidAppend, AroundNew, Untouched
<1>5. u = got.fs \/ MidAppend(w, u, node)
  BY <1>1, EntryCutsMid DEF AroundNew
<1> QED
  BY <1>3, <1>4, <1>5

(* A new inode cut anywhere touches nothing that was in use.                *)
LEMMA NewInodeCutsAround ==
  ASSUME NEW v, Sound(v), NEW n \in Offered, NEW parent \in Offered,
         NEW type \in {INODE_DIRECTORY, INODE_REGULAR},
         NEW u \in NewInodeCuts(v, n, type, parent) \cup {SetNewInode(v, n, type, parent)}
  PROVE  AroundNew(v, u, n)
<1> DEFINE v1   == FindFreeBlock(v).fs
           b    == FindFreeBlock(v).block
           node == StartOf(v, n, type)
           self == WithDot(v, n, type)
           both == WriteDirectoryToInode(self.fs, self.node, n, parent, DotDot)
<1>1. /\ b = ERROR => u = v1
      /\ b # ERROR => \/ u = v1
                      \/ u \in EntryCuts(v1, node, n, n, Dot)
                      \/ u \in EntryCuts(self.fs, self.node, n, parent, DotDot) \cup {both.fs}
  <2>1. SetNewInode(v, n, type, parent) = IF b = ERROR THEN v1 ELSE both.fs
    BY SetNewInodeParts
  <2>2. NewInodeCuts(v, n, type, parent) =
          IF b = ERROR THEN {}
          ELSE {v1} \cup EntryCuts(v1, node, n, n, Dot)
                    \cup EntryCuts(self.fs, self.node, n, parent, DotDot)
    BY Zenon DEF NewInodeCuts, StartOf, WithDot
  <2> HIDE DEF v1, b, node, self, both
  <2> QED
    BY <2>1, <2>2
<1>2. ASSUME b # ERROR
      PROVE  /\ node \in Inode /\ node.size = 0 /\ node.direct[0] = b
             /\ OneBlock(node) /\ Fitting(v1, n, node)
             /\ self.node \in Inode /\ OneBlock(self.node) /\ Fitting(self.fs, n, self.node)
             /\ self.node.size = 1 /\ self.node.direct[0] = b
  BY <1>2, StartFits, DotFits
<1>3. self = WriteDirectoryToInode(v1, node, n, n, Dot)
  BY DEF WithDot
<1>4. Dot \in Names /\ DotDot \in Names
  BY LayoutAssumption
<1> HIDE DEF v1, b, node, self
<1>5. AroundNew(v, v1, n) /\ (b # ERROR => b \in v.free)
  BY FindFreeBlockSound, FindFreeBlockKeeps DEF AroundNew, Sound, v1, b
<1>6. ASSUME b # ERROR, NEW w \in EntryCuts(v1, node, n, n, Dot) \cup {self.fs}
      PROVE  AroundNew(v, w, n)
  BY <1>2, <1>3, <1>4, <1>5, <1>6, ShortCutsAround
<1>7. ASSUME b # ERROR,
             NEW w \in EntryCuts(self.fs, self.node, n, parent, DotDot) \cup {both.fs}
      PROVE  AroundNew(v, w, n)
  <2>1. AroundNew(v, self.fs, n)
    BY <1>6, <1>7
  <2> QED
    BY <1>2, <1>4, <1>5, <1>7, <2>1, ShortCutsAround
<1> QED
  BY <1>1, <1>5, <1>6, <1>7

(* An append from a copy that fits leaves a sound volume wherever it is     *)
(* cut.                                                                     *)
LEMMA EntryCutsSound ==
  ASSUME NEW v, Sound(v), NEW n \in Offered, NEW node \in Inode,
         OneBlock(node), Fitting(v, n, node), node.size < MaxSize,
         NEW inum \in Offered, NEW name \in Names,
         NEW u \in EntryCuts(v, node, n, inum, name)
  PROVE  Sound(u)
<1>1. u = WriteDirectoryToInode(v, node, n, inum, name).fs \/ MidAppend(v, u, node)
  BY EntryCutsMid
<1>2. Sound(WriteDirectoryToInode(v, node, n, inum, name).fs)
  BY WriteDirectorySound
<1> QED
  BY <1>1, <1>2 DEF MidAppend

----------------------------------------------------------------------------
(* The cuts of the requests. *)

(* The volume that CREATE and MKDIR add the name to, and those before it.   *)
NewInodeVolumes(c, p, type) ==
  LET taken == GetFreeInode(fs)
  IN NewInodeCuts(taken, Head(fs.nodes), type, Parent(c, p)) \cup
     {SetNewInode(taken, Head(fs.nodes), type, Parent(c, p))}

(* The name is added to a sound volume, from a copy of the parent's inode   *)
(* that fits it.                                                            *)
Adding(base, D, n, name) ==
  /\ Sound(base)
  /\ D \in Offered /\ n \in Offered /\ name \in Names
  /\ fs.inodes[D] \in Inode /\ OneBlock(fs.inodes[D]) /\ Fitting(base, D, fs.inodes[D])
  /\ fs.inodes[D].size < MaxSize

(* CREATE and MKDIR of a new name.                                          *)
LEMMA MakingNewAdds ==
  ASSUME IInv, NEW c \in Clients, NEW p \in Paths,
         NEW type \in {INODE_REGULAR, INODE_DIRECTORY},
         IsDirectory(Parent(c, p)), Fits(fs.inodes[Parent(c, p)]), ~ GetFreeInodeFails(fs)
  PROVE  /\ Adding(SetNewInode(GetFreeInode(fs), Head(fs.nodes), type, Parent(c, p)),
                   Parent(c, p), Head(fs.nodes), LastName(p))
         /\ \A u \in NewInodeVolumes(c, p, type) : AroundNew(fs, u, Head(fs.nodes))
<1> DEFINE D     == Parent(c, p)
           n     == Head(fs.nodes)
           taken == GetFreeInode(fs)
           set   == SetNewInode(taken, n, type, D)
<1>1. D \in Offered /\ LastName(p) \in Names
  BY Reads DEF IsDirectory
<1>2. /\ fs.inodes[D] \in Inode /\ OneBlock(fs.inodes[D]) /\ fs.inodes[D].size < MaxSize
  BY <1>1, SoundInode DEF Fits
<1>3. /\ Sound(taken) /\ n \in Offered
      /\ taken.inodes = fs.inodes /\ taken.free = fs.free
  BY GetFreeInodeSound DEF IInv
<1>4. taken.blocks = fs.blocks
  BY DEF GetFreeInode, IInv, Sound, Volume
<1>5. NewInodeVolumes(c, p, type) = NewInodeCuts(taken, n, type, D) \cup {set}
  BY DEF NewInodeVolumes
<1> HIDE DEF D, n, taken
<1>6. \A u \in NewInodeVolumes(c, p, type) : AroundNew(taken, u, n)
  BY <1>1, <1>3, <1>5, NewInodeCutsAround
<1>7. \A u \in NewInodeVolumes(c, p, type) : AroundNew(fs, u, n)
  BY <1>3, <1>4, <1>6 DEF AroundNew, Untouched
<1>8. Sound(set) /\ Fitting(set, D, taken.inodes[D])
  BY <1>1, <1>3, NewInodeFits
<1>9. Adding(set, D, n, LastName(p))
  BY <1>1, <1>2, <1>3, <1>8 DEF Adding
<1> QED
  BY <1>7, <1>9 DEF D, n, taken

(* An inode cut to size 0 keeps its type, and all others are as they were.  *)
LEMMA ResetInodeSizeKeeps ==
  ASSUME NEW v, Sound(v), NEW n \in Offered
  PROVE  LET w == ResetInodeSize(v, n) IN
         /\ Sound(w) /\ w.free = v.free /\ w.blocks = v.blocks
         /\ \A m \in Inodes : /\ w.inodes[m].type = v.inodes[m].type
                              /\ w.inodes[m].direct[0] = v.inodes[m].direct[0]
                              /\ m # n => w.inodes[m] = v.inodes[m]
<1> DEFINE node == [v.inodes[n] EXCEPT !.size = 0]
           w    == ResetInodeSize(v, n)
<1>1. v \in Volume /\ n \in Inodes /\ v.inodes[n] \in Inode
  BY LayoutFacts DEF Sound, Volume
<1>2. node \in Inode
  BY <1>1, LayoutAssumption DEF Inode
<1>3. w = WriteInodeToDisk(v, n, node)
  BY DEF ResetInodeSize
<1> HIDE DEF node
<1>4. w.blocks = v.blocks /\ \A m \in Inodes \ {n} : w.inodes[m] = v.inodes[m]
  BY <1>1, <1>2, <1>3, WriteInodeTypes
<1>5. /\ Sound(w) /\ w.free = v.free
      /\ \A m \in Inodes : /\ w.inodes[m].type = v.inodes[m].type
                           /\ w.inodes[m].direct[0] = v.inodes[m].direct[0]
  BY ResetInodeSizeSound
<1> HIDE DEF w
<1> QED
  BY <1>4, <1>5 DEF w

(* CREATE of a name that leads to a regular file.                           *)
LEMMA TruncatingAdds ==
  ASSUME IInv, NEW c \in Clients, NEW p \in Paths, Match(c, p) # ERROR,
         Fits(fs.inodes[Parent(c, p)])
  PROVE  Adding(ResetInodeSize(fs, Match(c, p)), Parent(c, p), Match(c, p), LastName(p))
<1> DEFINE D     == Parent(c, p)
           n     == Match(c, p)
           reset == ResetInodeSize(fs, n)
<1>1. n \in Offered /\ LastName(p) \in Names
  BY Reads
<1>2. D \in Offered
  BY Reads DEF Match, IsDirectory
<1>3. /\ fs.inodes[D] \in Inode /\ OneBlock(fs.inodes[D]) /\ fs.inodes[D].size < MaxSize
      /\ Fitting(fs, D, fs.inodes[D]) /\ D \in Inodes
  BY <1>2, SoundInode DEF Fits
<1> HIDE DEF D, n
<1>4. /\ Sound(reset) /\ reset.free = fs.free
      /\ \A m \in Inodes : /\ reset.inodes[m].type = fs.inodes[m].type
                           /\ reset.inodes[m].direct[0] = fs.inodes[m].direct[0]
  BY <1>1, ResetInodeSizeSound DEF IInv
<1> HIDE DEF reset
<1>5. Fitting(reset, D, fs.inodes[D])
  BY <1>3, <1>4 DEF Fitting, Owns
<1>6. Adding(reset, D, n, LastName(p))
  BY <1>1, <1>2, <1>3, <1>4, <1>5 DEF Adding
<1> QED
  BY <1>6 DEF D, n, reset

(* LINK: nothing is written before the entry.                               *)
LEMMA LinkingAdds ==
  ASSUME IInv, NEW c \in Clients, NEW old \in Paths, NEW new \in Paths,
         Linkable(c, old, new), Fits(fs.inodes[Parent(c, new)])
  PROVE  Adding(fs, Parent(c, new), Target(c, old), LastName(new))
<1>1. Target(c, old) \in Offered /\ Parent(c, new) \in Offered /\ LastName(new) \in Names
  BY Reads DEF Linkable
<1> QED
  BY <1>1, SoundInode DEF Fits, Adding, IInv

(* The next server starts from a sound volume wherever a request was cut.   *)
LEMMA AddingCutsSound ==
  ASSUME NEW base, NEW D, NEW n, NEW name, Adding(base, D, n, name),
         NEW u \in EntryCuts(base, fs.inodes[D], D, n, name)
  PROVE  Sound(u)
BY EntryCutsSound DEF Adding

(* The cuts of every request, with the conditions it is accepted under.     *)
LEMMA CutsSound ==
  ASSUME IInv, NEW c \in Clients, NEW request \in Pending(c), NEW u \in request.cuts
  PROVE  Sound(u)
<1>1. CASE request \in MakingNew(c)
  <2>1. PICK p \in {q \in Paths : /\ IsDirectory(Parent(c, q)) /\ Match(c, q) = ERROR
                                  /\ Fits(fs.inodes[Parent(c, q)]) /\ ~ GetFreeInodeFails(fs)},
             type \in {INODE_REGULAR, INODE_DIRECTORY} :
          request = [cuts |-> MakeNewCuts(c, p, type), done |-> NewFile(c, p, type)]
    BY <1>1 DEF MakingNew
  <2> DEFINE base == SetNewInode(GetFreeInode(fs), Head(fs.nodes), type, Parent(c, p))
  <2>2. /\ Adding(base, Parent(c, p), Head(fs.nodes), LastName(p))
        /\ \A w \in NewInodeVolumes(c, p, type) : AroundNew(fs, w, Head(fs.nodes))
    BY MakingNewAdds
  <2>3. u \in NewInodeVolumes(c, p, type) \cup
              EntryCuts(base, fs.inodes[Parent(c, p)], Parent(c, p), Head(fs.nodes), LastName(p))
    BY <2>1, Zenon DEF MakeNewCuts, NewInodeVolumes
  <2> HIDE DEF base
  <2> QED
    BY <2>2, <2>3, AddingCutsSound DEF AroundNew
<1>2. CASE request \in Truncating(c)
  <2>1. PICK p \in {q \in Paths : /\ Match(c, q) # ERROR
                                  /\ GetInodeType(fs, Match(c, q)) = INODE_REGULAR
                                  /\ Fits(fs.inodes[Parent(c, q)])} :
          request.cuts = {ResetInodeSize(fs, Match(c, p))} \cup
             EntryCuts(ResetInodeSize(fs, Match(c, p)), fs.inodes[Parent(c, p)], Parent(c, p),
                       Match(c, p), LastName(p))
    BY <1>2 DEF Truncating
  <2> DEFINE base == ResetInodeSize(fs, Match(c, p))
  <2>2. Adding(base, Parent(c, p), Match(c, p), LastName(p))
    BY TruncatingAdds
  <2> HIDE DEF base
  <2>3. \/ u = base
        \/ u \in EntryCuts(base, fs.inodes[Parent(c, p)], Parent(c, p), Match(c, p), LastName(p))
    BY <2>1 DEF base
  <2> QED
    BY <2>2, <2>3, AddingCutsSound DEF Adding
<1>3. CASE request \in Linking(c)
  <2>1. PICK pp \in {qq \in Paths \X Paths : /\ Linkable(c, qq[1], qq[2])
                                             /\ Fits(fs.inodes[Parent(c, qq[2])])
                                             /\ RoomToLink(Target(c, qq[1]))} :
          request.cuts = EntryCuts(fs, fs.inodes[Parent(c, pp[2])], Parent(c, pp[2]),
                                   Target(c, pp[1]), LastName(pp[2]))
    BY <1>3 DEF Linking
  <2>2. Adding(fs, Parent(c, pp[2]), Target(c, pp[1]), LastName(pp[2]))
    BY LinkingAdds
  <2> QED
    BY <2>1, <2>2, AddingCutsSound
<1>4. CASE request \in Unlinking(c)
  <2>1. PICK p \in {q \in Paths : Unlinkable(c, q) /\ RoomToFree /\ RoomToUnlink(Target(c, q))} :
          request.cuts = UnlinkCuts(c, p)
    BY <1>4 DEF Unlinking
  <2> DEFINE dir == fs.inodes[Parent(c, p)]
  <2>2. u = FreeDirectoryEntry(fs, dir, Target(c, p))
    BY <2>1 DEF UnlinkCuts
  <2>3. dir \in Inode /\ ~ FreeDirectoryEntryFails(fs, dir, Target(c, p)) /\ Sound(fs)
    BY Reads, SoundInode DEF Unlinkable, IInv
  <2> HIDE DEF dir
  <2> QED
    BY <2>2, <2>3, FreeDirectoryEntrySound
<1>5. CASE request \in Removing(c)
  <2>1. PICK p \in {q \in Paths : Removable(c, q) /\ RoomToFree} : request.cuts = {Removed(c, p)}
    BY <1>5 DEF Removing
  <2>2. Match(c, p) \in Offered
    BY Reads DEF Removable, Match, IsDirectory
  <2>3. u = FreeInode(fs, Match(c, p))
    BY <2>1 DEF Removed
  <2> QED
    BY <2>2, <2>3, FreeInodeSound DEF IInv
<1> QED
  BY <1>1, <1>2, <1>3, <1>4, <1>5 DEF Pending, NameChanging

(* A power cut takes the server down and leaves one of the cuts.            *)
LEMMA CutsStep == IInv /\ [CutsNext]_vars => IInv'
<1> SUFFICES ASSUME IInv, [CutsNext]_vars
             PROVE  IInv'
  OBVIOUS
<1>1. CASE [Next]_vars
  BY <1>1, StepSound
<1>2. ASSUME NEW c \in Clients, PowerCut(c)
      PROVE  IInv'
  <2>1. PICK request \in Pending(c) : fs' \in request.cuts
    BY <1>2 DEF PowerCut
  <2>2. Sound(fs')
    BY <2>1, CutsSound
  <2> QED
    BY <1>2, <2>2 DEF IInv, PowerCut
<1> QED
  BY <1>1, <1>2 DEF CutsNext

(* The volume stays sound through power cuts in the middle of requests.     *)
THEOREM CutsInvariance == CutsSpec => []IInv
<1>1. Init => IInv
  BY InitSound
<1>2. IInv /\ [CutsNext]_vars => IInv'
  BY CutsStep
<1> QED
  BY <1>1, <1>2, PTL DEF CutsSpec

(* Every field keeps its type wherever the power goes: a cut entry names an *)
(* inode that exists, a cut size stays in range.                            *)
THEOREM CutsTyping == CutsSpec => []TypeOK
<1>1. IInv => TypeOK
  BY DEF IInv, Sound, TypeOK
<1> QED
  BY <1>1, CutsInvariance, PTL

(* No two inodes in use own one data block and none can be handed out, even *)
(* after a power cut between any two sector writes and the restart after it.*)
THEOREM CutsExclusive == CutsSpec => []DataBlocksExclusive
  BY SoundExclusive, CutsInvariance, PTL

----------------------------------------------------------------------------
(* Lookups.  Two volumes are compared name by name, over a set S of inodes  *)
(* that no lookup leaves; no induction is needed, since the first step of a *)
(* walk that went wrong would be a lookup from a good inode.                *)

Look(v, d, name) == FindDirectoryEntry(v, v.inodes[d], name)

(* No lookup in u leaves S, and v finds what u finds or nothing.            *)
Closed(u, S) == \A d \in S : \A name \in Names : Look(u, d, name) \in S \cup {ERROR}
FindsLess(v, u, S) ==
  \A d \in S : \A name \in Names : Look(v, d, name) \in {ERROR, Look(u, d, name)}

(* Where step i of a walk looks.                                            *)
From(w, p, dir, i) == IF i = 1 THEN Start(p, dir) ELSE w[i - 1]

IsWalk(v, p, dir, w) ==
  /\ w \in [1 .. Len(p.toks) - 1 -> Offered]
  /\ \A i \in 1 .. Len(p.toks) - 1 : w[i] = Look(v, From(w, p, dir, i), p.toks[i])

(* A walk as Walks defines it, step by step.                                *)
LEMMA WalkSteps ==
  ASSUME NEW v, NEW p \in Path, NEW dir
  PROVE  /\ Len(p.toks) \in Nat
         /\ \A i \in 1 .. Len(p.toks) - 1 : p.toks[i] \in Names
         /\ \A w : w \in Walks(v, p, dir) <=> IsWalk(v, p, dir, w)
<1>1. p.toks \in Seq(Names)
  BY DEF Path
<1>2. Len(p.toks) \in Nat /\ \A i \in 1 .. Len(p.toks) - 1 : p.toks[i] \in Names
  BY <1>1
<1>3. ASSUME NEW w
      PROVE  w \in Walks(v, p, dir) <=> IsWalk(v, p, dir, w)
  BY Zenon DEF Walks, IsWalk, Look, From
<1> QED
  BY <1>2, <1>3

(* A walk in v is a walk in u, and there is one walk at most.               *)
LEMMA WalksAgree ==
  ASSUME NEW u, NEW v, NEW S, ROOTINODE \in S, Closed(u, S), FindsLess(v, u, S),
         NEW p \in Path, NEW dir \in S
  PROVE  /\ \A x \in Walks(v, p, dir) :
              /\ \A i \in 1 .. Len(p.toks) - 1 : x[i] \in S
              /\ x \in Walks(u, p, dir)
              /\ \A w \in Walks(u, p, dir) : w = x
<1> DEFINE I == 1 .. Len(p.toks) - 1
<1>1. Len(p.toks) \in Nat /\ \A i \in I : p.toks[i] \in Names
  BY WalkSteps
<1>2. Start(p, dir) \in S
  BY DEF Start
<1>3. ERROR \notin Offered
  BY LayoutFacts
<1> SUFFICES ASSUME NEW x \in Walks(v, p, dir)
             PROVE  /\ \A i \in I : x[i] \in S
                    /\ x \in Walks(u, p, dir)
                    /\ \A w \in Walks(u, p, dir) : w = x
  OBVIOUS
<1>4. x \in [I -> Offered] /\ \A i \in I : x[i] = Look(v, From(x, p, dir, i), p.toks[i])
  <2>1. IsWalk(v, p, dir, x)
    BY WalkSteps
  <2> QED
    BY <2>1 DEF IsWalk
<1>5. ASSUME NEW i \in I, From(x, p, dir, i) \in S
      PROVE  x[i] \in S /\ x[i] = Look(u, From(x, p, dir, i), p.toks[i])
  BY <1>1, <1>3, <1>4, <1>5 DEF Closed, FindsLess
<1>6. \A i \in I : x[i] \in S
  <2> DEFINE B == {i \in I : x[i] \notin S}
             k == First(B)
  <2> SUFFICES ASSUME B # {} PROVE FALSE
    OBVIOUS
  <2>1. B \subseteq Nat
    BY <1>1
  <2>2. k \in B /\ \A j \in B : k <= j
    BY <2>1, FirstOfNat
  <2> HIDE DEF k
  <2>3. From(x, p, dir, k) \in S
    <3>1. CASE k = 1
      BY <3>1, <1>2 DEF From
    <3>2. CASE k # 1
      <4>1. k - 1 \in I /\ k - 1 \notin B
        BY <3>2, <2>2, <1>1
      <4> QED
        BY <3>2, <4>1 DEF From
    <3> QED
      BY <3>1, <3>2
  <2> QED
    BY <2>2, <2>3, <1>5
<1>7. \A i \in I : From(x, p, dir, i) \in S
  <2> TAKE i \in I
  <2>1. CASE i = 1
    BY <2>1, <1>2 DEF From
  <2>2. CASE i # 1
    <3>1. i - 1 \in I
      BY <2>2, <1>1
    <3> QED
      BY <2>2, <3>1, <1>6 DEF From
  <2> QED
    BY <2>1, <2>2
<1>8. x \in Walks(u, p, dir)
  <2>1. IsWalk(u, p, dir, x)
    BY <1>4, <1>5, <1>7 DEF IsWalk
  <2> QED
    BY <2>1, WalkSteps
<1>9. ASSUME NEW w \in Walks(u, p, dir)
      PROVE  w = x
  <2>1. w \in [I -> Offered] /\ \A i \in I : w[i] = Look(u, From(w, p, dir, i), p.toks[i])
    <3>1. IsWalk(u, p, dir, w)
      BY WalkSteps
    <3> QED
      BY <3>1 DEF IsWalk
  <2> DEFINE B == {i \in I : w[i] # x[i]}
             k == First(B)
  <2>2. B = {}
    <3> SUFFICES ASSUME B # {} PROVE FALSE
      OBVIOUS
    <3>1. B \subseteq Nat
      BY <1>1
    <3>2. k \in B /\ \A j \in B : k <= j
      BY <3>1, FirstOfNat
    <3> HIDE DEF k
    <3>3. From(w, p, dir, k) = From(x, p, dir, k)
      <4>1. CASE k = 1
        BY <4>1 DEF From
      <4>2. CASE k # 1
        <5>1. k - 1 \in I /\ k - 1 \notin B
          BY <4>2, <3>2, <1>1
        <5> QED
          BY <4>2, <5>1 DEF From
      <4> QED
        BY <4>1, <4>2
    <3> QED
      BY <3>2, <3>3, <2>1, <1>5, <1>7
  <2> QED
    BY <1>4, <2>1, <2>2
<1> QED
  BY <1>6, <1>8, <1>9

(* The directory a path ends in: the same in both volumes, or none in v.    *)
LEMMA ParentsLess ==
  ASSUME NEW u, NEW v, NEW S, ROOTINODE \in S, Closed(u, S), FindsLess(v, u, S),
         NEW p \in Path, NEW dir \in S
  PROVE  /\ FindParent(v, p, dir) \in S \cup {ERROR}
         /\ FindParent(v, p, dir) \in {ERROR, FindParent(u, p, dir)}
<1>1. CASE Len(p.toks) <= 1
  BY <1>1 DEF FindParent, Start
<1>2. CASE ~ (Len(p.toks) <= 1) /\ Walks(v, p, dir) = {}
  BY <1>2 DEF FindParent
<1>3. CASE ~ (Len(p.toks) <= 1) /\ Walks(v, p, dir) # {}
  <2>1. PICK x : x = CHOOSE w \in Walks(v, p, dir) : TRUE
    OBVIOUS
  <2>2. x \in Walks(v, p, dir)
    BY <1>3, <2>1
  <2>3. /\ \A i \in 1 .. Len(p.toks) - 1 : x[i] \in S
        /\ x \in Walks(u, p, dir) /\ \A w \in Walks(u, p, dir) : w = x
    BY <2>2, WalksAgree
  <2>4. (CHOOSE w \in Walks(u, p, dir) : TRUE) = x
    BY <2>3
  <2>5. Len(p.toks) - 1 \in 1 .. Len(p.toks) - 1
    BY <1>3, WalkSteps
  <2>6. FindParent(v, p, dir) = x[Len(p.toks) - 1]
    BY <1>3, <2>1 DEF FindParent
  <2>7. FindParent(u, p, dir) = x[Len(p.toks) - 1]
    BY <1>3, <2>3, <2>4 DEF FindParent
  <2> QED
    BY <2>3, <2>5, <2>6, <2>7
<1> QED
  BY <1>1, <1>2, <1>3

(* A path leads in v where it leads in u, or nowhere.                       *)
LEMMA PathsLess ==
  ASSUME NEW u, NEW v, NEW S, ROOTINODE \in S, Closed(u, S), FindsLess(v, u, S),
         NEW p \in Path, LastName(p) \in Names, NEW dir \in S
  PROVE  /\ CheckPath(v, p, dir) \in S \cup {ERROR}
         /\ CheckPath(v, p, dir) \in {ERROR, CheckPath(u, p, dir)}
<1>1. CASE JustName(p, Dot)
  BY <1>1 DEF CheckPath
<1>2. CASE ~ JustName(p, Dot) /\ JustName(p, DotDot)
  <2>1. CheckPath(v, p, dir) = Look(v, dir, DotDot) /\ CheckPath(u, p, dir) = Look(u, dir, DotDot)
    BY <1>2 DEF CheckPath, Look
  <2>2. DotDot \in Names
    BY LayoutAssumption
  <2> QED
    BY <2>1, <2>2 DEF Closed, FindsLess
<1>3. CASE ~ JustName(p, Dot) /\ ~ JustName(p, DotDot)
  <2> DEFINE pv == FindParent(v, p, dir)
             pu == FindParent(u, p, dir)
  <2>1. /\ CheckPath(v, p, dir) = IF pv = ERROR THEN ERROR ELSE Look(v, pv, LastName(p))
        /\ CheckPath(u, p, dir) = IF pu = ERROR THEN ERROR ELSE Look(u, pu, LastName(p))
    BY <1>3, Zenon DEF CheckPath, Look
  <2>2. pv \in S \cup {ERROR} /\ pv \in {ERROR, pu}
    BY ParentsLess
  <2> HIDE DEF pv, pu
  <2> QED
    BY <2>1, <2>2 DEF Closed, FindsLess
<1> QED
  BY <1>1, <1>2, <1>3

----------------------------------------------------------------------------
(* Entries.  A directory whose entries are the same, or cleared, finds the  *)
(* same, or less.                                                           *)

SameEntriesIn(v, w, node) ==
  \A i \in 0 .. node.size - 1 : EntryAt(w, node, i) = EntryAt(v, node, i)

SomeCleared(v, w, node) ==
  \A i \in 0 .. node.size - 1 : EntryAt(w, node, i) \in {EntryAt(v, node, i), NoEntry}

(* One name, one inode.                                                     *)
OneInodeEach(v, node) ==
  \A i, j \in Held(v, node) :
    /\ EntryAt(v, node, i).name \in Names
    /\ EntryAt(v, node, j).name = EntryAt(v, node, i).name
    => EntryAt(v, node, j).inum = EntryAt(v, node, i).inum

(* The same entries, the same lookups.                                      *)
LEMMA SameEntriesFind ==
  ASSUME NEW v, NEW w, NEW node \in Inode, SameEntriesIn(v, w, node), NEW name
  PROVE  FindDirectoryEntry(w, node, name) = FindDirectoryEntry(v, node, name)
<1> DEFINE N == Named(v, node, name)
<1>1. Held(w, node) = Held(v, node)
  BY DEF Held, SameEntriesIn
<1>2. Named(w, node, name) = N
  BY <1>1 DEF Named, Held, SameEntriesIn
<1>3. CASE N # {}
  <2>1. N \subseteq 0 .. node.size - 1 /\ N \subseteq Nat
    BY DEF Named, Held, Inode
  <2>2. First(N) \in 0 .. node.size - 1
    BY <1>3, <2>1, FirstOfNat
  <2>3. EntryAt(w, node, First(N)) = EntryAt(v, node, First(N))
    BY <2>2 DEF SameEntriesIn
  <2> QED
    BY <1>2, <2>3 DEF FindDirectoryEntry
<1>4. CASE N = {}
  BY <1>2, <1>4 DEF FindDirectoryEntry
<1> QED
  BY <1>3, <1>4

(* Some entries cleared: with one inode to each name, a lookup finds the    *)
(* inode it found, or none.                                                 *)
LEMMA SomeClearedFind ==
  ASSUME NEW v, NEW w \in Volume, NEW node \in Inode, SomeCleared(v, w, node),
         OneInodeEach(v, node), NEW name \in Names
  PROVE  FindDirectoryEntry(w, node, name) \in {ERROR, FindDirectoryEntry(v, node, name)}
<1> SUFFICES ASSUME FindDirectoryEntry(w, node, name) # ERROR
             PROVE  FindDirectoryEntry(w, node, name) = FindDirectoryEntry(v, node, name)
  OBVIOUS
<1> DEFINE N == Named(v, node, name)
<1>1. PICK i \in Named(w, node, name) :
        EntryAt(w, node, i).inum = FindDirectoryEntry(w, node, name)
  BY FindDirectoryEntryTypes
<1>2. /\ i \in 0 .. node.size - 1
      /\ EntryAt(w, node, i).inum # 0 /\ EntryAt(w, node, i).name = name
  BY <1>1 DEF Named, Held
<1>3. EntryAt(w, node, i) = EntryAt(v, node, i)
  BY <1>2 DEF SomeCleared, NoEntry
<1>4. i \in N
  BY <1>2, <1>3 DEF Named, Held
<1>5. N \subseteq Held(v, node) /\ N \subseteq Nat
  BY DEF Named, Held, Inode
<1>6. First(N) \in N
  BY <1>4, <1>5, FirstOfNat
<1> DEFINE j == First(N)
<1>7. /\ i \in Held(v, node) /\ j \in Held(v, node)
      /\ EntryAt(v, node, i).name = name /\ EntryAt(v, node, j).name = name
  BY <1>4, <1>5, <1>6 DEF Named
<1> HIDE DEF j
<1>8. EntryAt(v, node, j).inum = EntryAt(v, node, i).inum
  BY <1>7 DEF OneInodeEach
<1>9. node.type = INODE_DIRECTORY
  BY DEF FindDirectoryEntry
<1>10. FindDirectoryEntry(v, node, name) = EntryAt(v, node, j).inum
  BY <1>4, <1>9 DEF FindDirectoryEntry, j
<1> QED
  BY <1>1, <1>3, <1>8, <1>10

(* Entries before the end: an earlier block, or an earlier slot.            *)
LEMMA BeforeTheEnd ==
  ASSUME NEW size \in Nat, NEW i \in 0 .. size - 1
  PROVE  /\ i \div EntriesPerBlock <= size \div EntriesPerBlock
         /\ i \div EntriesPerBlock = size \div EntriesPerBlock =>
              i % EntriesPerBlock # size % EntriesPerBlock
<1> DEFINE m == EntriesPerBlock
           q == size \div m
           r == size % m
           k == i \div m
           s == i % m
<1>1. m \in Nat /\ m >= 3
  BY LayoutAssumption
<1>2. size = m * q + r /\ r \in 0 .. m - 1 /\ q \in Int
  BY <1>1
<1>3. i = m * k + s /\ s \in 0 .. m - 1 /\ k \in Int
  BY <1>1
<1> HIDE DEF m, q, r, k, s
<1>4. k <= q
  <2> SUFFICES ASSUME k >= q + 1 PROVE FALSE
    BY <1>2, <1>3
  <2>1. m * k >= m * (q + 1)
    BY <1>1, <1>2, <1>3
  <2>2. m * (q + 1) = m * q + m
    BY <1>1, <1>2
  <2> QED
    BY <1>1, <1>2, <1>3, <2>1, <2>2
<1>5. k = q => s # r
  BY <1>2, <1>3
<1> QED
  BY <1>4, <1>5 DEF m, q, r, k, s

(* Two volumes that find the same show the same.                            *)
LEMMA SamePaths ==
  ASSUME NEW u, NEW v, NEW S, ROOTINODE \in S, Closed(u, S),
         \A d \in S : \A name \in Names : Look(v, d, name) = Look(u, d, name),
         NEW p \in Path, LastName(p) \in Names
  PROVE  /\ CheckPath(v, p, ROOTINODE) = CheckPath(u, p, ROOTINODE)
         /\ CheckPath(u, p, ROOTINODE) \in S \cup {ERROR}
<1>1. FindsLess(v, u, S) /\ FindsLess(u, v, S) /\ FindsLess(u, u, S) /\ Closed(v, S)
  BY DEF FindsLess, Closed
<1>2. CheckPath(v, p, ROOTINODE) \in {ERROR, CheckPath(u, p, ROOTINODE)}
  BY <1>1, PathsLess
<1>3. CheckPath(u, p, ROOTINODE) \in {ERROR, CheckPath(v, p, ROOTINODE)}
  BY <1>1, PathsLess
<1>4. CheckPath(u, p, ROOTINODE) \in S \cup {ERROR}
  BY <1>1, PathsLess
<1> QED
  BY <1>2, <1>3, <1>4

----------------------------------------------------------------------------
(* Undamaged volumes. *)

(* No lookup leaves the inodes in use, nor do the places where paths start. *)
LEMMA UndamagedLooks ==
  ASSUME IInv, Undamaged
  PROVE  /\ Closed(fs, InUse) /\ ROOTINODE \in InUse /\ InUse \subseteq Inodes
         /\ \A c \in Clients : cwd[c] \in InUse
         /\ \A d \in InUse : fs.inodes[d] \in Inode
         /\ \A d \in Inodes : fs.inodes[d].type = INODE_DIRECTORY =>
              d \in InUse /\ OneInodeEach(fs, fs.inodes[d])
<1>1. /\ ROOTINODE \in InUse /\ InUse \subseteq Inodes
      /\ \A c \in Clients : cwd[c] \in InUse
  BY DEF Undamaged, InUse
<1>2. fs \in Volume /\ \A d \in InUse : fs.inodes[d] \in Inode
  BY <1>1 DEF IInv, Sound, Volume
<1>3. ASSUME NEW d \in Inodes, fs.inodes[d].type = INODE_DIRECTORY
      PROVE  d \in InUse /\ OneInodeEach(fs, fs.inodes[d])
  BY <1>3 DEF Undamaged, NamesSound, OneInodeEach, InUse, GetInodeType, INODE_DIRECTORY, INODE_FREE
<1>4. Closed(fs, InUse)
  <2> SUFFICES ASSUME NEW d \in InUse, NEW name \in Names, Look(fs, d, name) # ERROR
               PROVE  Look(fs, d, name) \in InUse
    BY DEF Closed
  <2> DEFINE node == fs.inodes[d]
  <2>1. PICK i \in Named(fs, node, name) : EntryAt(fs, node, i).inum = Look(fs, d, name)
    BY <1>2, FindDirectoryEntryTypes DEF Look
  <2>2. i \in Held(fs, node) /\ EntryAt(fs, node, i).name = name
    BY <2>1 DEF Named
  <2>3. node.type = INODE_DIRECTORY
    BY DEF Look, FindDirectoryEntry
  <2>4. GetInodeType(fs, d) = INODE_DIRECTORY /\ d \in Inodes
    BY <1>1, <2>3 DEF GetInodeType
  <2> HIDE DEF node
  <2>5. EntryAt(fs, node, i).inum \in InUse
    BY <2>2, <2>4 DEF Undamaged, NamesSound, node
  <2> QED
    BY <2>1, <2>5
<1> QED
  BY <1>1, <1>2, <1>3, <1>4

(* A volume that shows what fs shows: the inodes in use are of the type     *)
(* they were, and the directories hold what they held.                      *)
AsBefore(u) ==
  \A n \in InUse :
    /\ u.inodes[n].type = fs.inodes[n].type
    /\ fs.inodes[n].type = INODE_DIRECTORY =>
         u.inodes[n] = fs.inodes[n] /\ SameEntriesIn(fs, u, fs.inodes[n])

(* Such a volume shows at every path what fs shows.                         *)
LEMMA AsBeforeShows ==
  ASSUME IInv, Undamaged, NEW u, AsBefore(u), NEW p \in Paths
  PROVE  /\ CheckPath(u, p, ROOTINODE) = CheckPath(fs, p, ROOTINODE)
         /\ Shown(u, p) = Shown(fs, p)
<1>1. /\ Closed(fs, InUse) /\ ROOTINODE \in InUse /\ \A d \in InUse : fs.inodes[d] \in Inode
  BY UndamagedLooks
<1>2. p \in Path /\ LastName(p) \in Names
  BY ClientAssumption
<1>3. ASSUME NEW d \in InUse, NEW name \in Names
      PROVE  Look(u, d, name) = Look(fs, d, name)
  <2>1. CASE fs.inodes[d].type = INODE_DIRECTORY
    <3>1. u.inodes[d] = fs.inodes[d] /\ SameEntriesIn(fs, u, fs.inodes[d])
      BY <2>1 DEF AsBefore
    <3> QED
      BY <1>1, <3>1, SameEntriesFind DEF Look
  <2>2. CASE fs.inodes[d].type # INODE_DIRECTORY
    BY <2>2 DEF AsBefore, Look, FindDirectoryEntry
  <2> QED
    BY <2>1, <2>2
<1>4. /\ CheckPath(u, p, ROOTINODE) = CheckPath(fs, p, ROOTINODE)
      /\ CheckPath(fs, p, ROOTINODE) \in InUse \cup {ERROR}
  BY <1>1, <1>2, <1>3, SamePaths
<1>5. Shown(u, p) = Shown(fs, p)
  BY <1>4 DEF Shown, GetInodeType, AsBefore
<1> QED
  BY <1>4, <1>5

(* The inodes in use are as they were, but for what only regular files lose.*)
SameNames(v) ==
  \A m \in InUse : /\ v.inodes[m].type = fs.inodes[m].type
                   /\ fs.inodes[m].type = INODE_DIRECTORY => v.inodes[m] = fs.inodes[m]

(* A volume before the name is added: free blocks may hold something else.  *)
Prepared(v) == SameNames(v) /\ v.free \subseteq fs.free /\ Untouched(fs, v, fs.free)

(* A volume while the name is being added to directory D: free blocks and   *)
(* D's indirect block may hold something else, and so may the entry behind  *)
(* D's last one.                                                            *)
Loose(D) == fs.free \cup ({fs.inodes[D].indirect} \ {0})

Spared(v, D) ==
  LET node == fs.inodes[D] IN
  /\ SameNames(v)
  /\ Untouched(fs, v, Loose(D) \cup {EndBlock(node)})
  /\ EndBlock(node) \notin Loose(D) =>
       \A s \in Slots \ {EndSlot(node)} :
         v.blocks[EndBlock(node)][s] = fs.blocks[EndBlock(node)][s]

(* No entry a directory holds is in the loose places: its block is in use,  *)
(* so it is not free, no other use's and no indirect block, and the entry   *)
(* is before the end.                                                       *)
LEMMA SparedShows ==
  ASSUME IInv, Undamaged, NEW D \in InUse, NEW v, Spared(v, D)
  PROVE  AsBefore(v)
<1> DEFINE end == EndBlock(fs.inodes[D])
           K(n, i) == <<n, i \div EntriesPerBlock>>
<1>1. \A n \in InUse : fs.inodes[n] \in Inode
  BY UndamagedLooks
<1>2. fs \in Volume /\ SameNames(v)
  BY DEF IInv, Sound, Spared
<1>3. ASSUME NEW n \in InUse, NEW i \in 0 .. fs.inodes[n].size - 1
      PROVE  EntryAt(v, fs.inodes[n], i) = EntryAt(fs, fs.inodes[n], i)
  <2> DEFINE node == fs.inodes[n]
             k    == i \div EntriesPerBlock
             s    == i % EntriesPerBlock
             b    == node.direct[k]
             last == fs.inodes[D].size \div EntriesPerBlock
  <2>1. k \in Directs /\ s \in Slots /\ b \in Blocks
    BY <1>1, <1>2, EntryAtTypes
  <2>2. node.size \in Nat
    BY <1>1 DEF Inode
  <2>3. k <= node.size \div EntriesPerBlock
    BY <2>2, BeforeTheEnd
  <2>4. <<n, k>> \in Uses /\ BlockOf(<<n, k>>) = b
    BY <2>1, <2>3 DEF Uses, BlockOf
  <2>5. <<D, last>> \in Uses /\ BlockOf(<<D, last>>) = end
    <3>1. last \in Directs
      BY <1>1, EntryPlace DEF Inode
    <3>2. last <= last
      BY <3>1, LayoutAssumption DEF Directs
    <3> QED
      BY <3>1, <3>2 DEF Uses, BlockOf, EndBlock
  <2>6. b \notin Loose(D) /\ end \notin Loose(D)
    BY <2>4, <2>5 DEF Undamaged, BlocksSound, Loose
  <2>7. CASE b # end
    <3>1. v.blocks[b] = fs.blocks[b]
      BY <2>1, <2>6, <2>7 DEF Spared, Untouched
    <3> QED
      BY <3>1 DEF EntryAt
  <2>8. CASE b = end
    <3>1. <<n, k>> = <<D, last>>
      BY <2>4, <2>5, <2>8 DEF Undamaged, BlocksSound
    <3>2. n = D /\ k = node.size \div EntriesPerBlock
      BY <3>1
    <3>3. s # node.size % EntriesPerBlock
      BY <2>2, <3>2, BeforeTheEnd
    <3>4. s # EndSlot(fs.inodes[D])
      BY <3>2, <3>3 DEF EndSlot
    <3>5. v.blocks[b][s] = fs.blocks[b][s]
      BY <2>1, <2>6, <2>8, <3>4 DEF Spared
    <3> QED
      BY <3>5 DEF EntryAt
  <2> QED
    BY <2>7, <2>8
<1> QED
  BY <1>2, <1>3 DEF AsBefore, SameNames, SameEntriesIn

(* What precedes the entry shows nothing.                                   *)
LEMMA PreparedShows ==
  ASSUME IInv, Undamaged, NEW v, Prepared(v)
  PROVE  AsBefore(v)
<1>1. ROOTINODE \in InUse /\ fs.inodes[ROOTINODE] \in Inode
  BY UndamagedLooks
<1>2. EndBlock(fs.inodes[ROOTINODE]) \in Blocks
  BY <1>1, EntryPlace DEF EndBlock, Inode
<1>3. Spared(v, ROOTINODE)
  BY <1>2 DEF Prepared, Spared, Untouched, Loose
<1> QED
  BY <1>1, <1>3, SparedShows

(* Wherever an append is cut, it shows nothing, or is done.                 *)
LEMMA AddingShows ==
  ASSUME IInv, Undamaged, NEW base, NEW D \in InUse, NEW n, NEW name,
         Prepared(base), Adding(base, D, n, name),
         NEW u \in EntryCuts(base, fs.inodes[D], D, n, name)
  PROVE  u = WriteDirectoryToInode(base, fs.inodes[D], D, n, name).fs \/ AsBefore(u)
<1> DEFINE node == fs.inodes[D]
<1>1. u = WriteDirectoryToInode(base, node, D, n, name).fs \/ MidAppend(base, u, node)
  BY EntryCutsMid DEF Adding
<1>2. ASSUME MidAppend(base, u, node)
      PROVE  Spared(u, D)
  <2>1. Growth(base, node) \subseteq Loose(D)
    BY DEF Growth, Loose, Prepared
  <2>2. SameNames(u)
    BY <1>2 DEF MidAppend, Prepared, SameNames
  <2> HIDE DEF node
  <2>3. Untouched(fs, u, Loose(D) \cup {EndBlock(node)})
    <3> SUFFICES ASSUME NEW b \in Blocks \ (Loose(D) \cup {EndBlock(node)})
                 PROVE  u.blocks[b] = fs.blocks[b]
      BY DEF Untouched
    <3>1. u.blocks[b] = base.blocks[b]
      BY <1>2, <2>1 DEF MidAppend, Untouched
    <3>2. b \notin fs.free
      BY DEF Loose
    <3>3. base.blocks[b] = fs.blocks[b]
      BY <3>2 DEF Prepared, Untouched
    <3> QED
      BY <3>1, <3>3
  <2>4. ASSUME EndBlock(node) \notin Loose(D), NEW s \in Slots \ {EndSlot(node)}
        PROVE  u.blocks[EndBlock(node)][s] = fs.blocks[EndBlock(node)][s]
    <3>1. u.blocks[EndBlock(node)][s] = base.blocks[EndBlock(node)][s]
      BY <1>2, <2>1, <2>4 DEF MidAppend
    <3>2. EndBlock(node) \in Blocks \ fs.free
      <4>1. EndBlock(node) \in Blocks
        BY EntryPlace DEF EndBlock, Adding, Inode, node
      <4> QED
        BY <4>1, <2>4 DEF Loose
    <3>3. base.blocks[EndBlock(node)] = fs.blocks[EndBlock(node)]
      BY <3>2 DEF Prepared, Untouched
    <3> QED
      BY <3>1, <3>3
  <2> QED
    BY <2>2, <2>3, <2>4 DEF Spared, node
<1> QED
  BY <1>1, <1>2, SparedShows

----------------------------------------------------------------------------
(* The second write of the parent's inode at the end of CREATE and MKDIR    *)
(* puts back what the first one wrote.                                      *)
LEMMA WriteInodeTwice ==
  ASSUME NEW v \in Volume, NEW n \in Inodes, NEW node \in Inode
  PROVE  WriteInodeToDisk(WriteInodeToDisk(v, n, node), n, node) = WriteInodeToDisk(v, n, node)
<1> DEFINE w     == WriteInodeToDisk(v, n, node)
           Kept(x) == [i \in Directs |-> IF i <= node.size \div EntriesPerBlock
                                         THEN node.direct[i] ELSE x.direct[i]]
           once  == [node EXCEPT !.direct = Kept(v.inodes[n])]
           twice == [node EXCEPT !.direct = Kept(w.inodes[n])]
<1>1. w = [v EXCEPT !.inodes = [v.inodes EXCEPT ![n] = once]]
  BY Zenon DEF WriteInodeToDisk
<1>2. once.direct = Kept(v.inodes[n])
  BY DEF Inode
<1> HIDE DEF w
<1>3. WriteInodeToDisk(w, n, node) = [w EXCEPT !.inodes = [w.inodes EXCEPT ![n] = twice]]
  BY Zenon DEF WriteInodeToDisk
<1>4. w.inodes[n] = once /\ w.inodes = [v.inodes EXCEPT ![n] = once]
  <2> HIDE DEF once
  <2> QED
    BY <1>1 DEF Volume
<1>5. Kept(w.inodes[n]) = Kept(v.inodes[n])
  <2>1. w.inodes[n].direct = Kept(v.inodes[n])
    BY <1>2, <1>4
  <2> QED
    BY <2>1
<1>6. twice = once
  BY <1>5
<1> HIDE DEF once, twice
<1>7. [w.inodes EXCEPT ![n] = twice] = w.inodes
  BY <1>4, <1>6 DEF Volume
<1>8. [w EXCEPT !.inodes = w.inodes] = w
  BY <1>1 DEF Volume
<1> QED
  BY <1>3, <1>7, <1>8 DEF w

(* writeDirectoryToInode ends with a write of the inode it returns.         *)
LEMMA WriteDirectoryEnds ==
  ASSUME NEW v, Sound(v), NEW n \in Offered, NEW node \in Inode, node.size < MaxSize,
         NEW inum \in Offered, NEW name \in Names
  PROVE  LET got == WriteDirectoryToInode(v, node, n, inum, name) IN
         \E put \in Volume : got.fs = WriteInodeToDisk(put, n, got.node)
<1> DEFINE got     == WriteDirectoryToInode(v, node, n, inum, name)
           slot    == EndSlot(node)
           sector  == EndBlock(node)
           content == [v.blocks[sector] EXCEPT ![slot] = [inum |-> inum, name |-> name]]
           sized   == [node EXCEPT !.size = node.size + 1]
           grown   == IF sized.size % EntriesPerBlock = 0
                      THEN AddNewEmptyBlock(v, sized, slot + 1)
                      ELSE [fs |-> v, node |-> sized]
           put     == [grown.fs EXCEPT !.blocks = [@ EXCEPT ![sector] = content]]
<1>1. got.fs = WriteInodeToDisk(put, n, grown.node) /\ got.node = grown.node
  BY Zenon DEF WriteDirectoryToInode, EndBlock, EndSlot
<1>2. node.size \in 0 .. MaxSize /\ node.direct \in [Directs -> Blocks] /\ MaxSize \in Nat
  BY LayoutAssumption DEF Inode
<1>3. slot \in Slots /\ sector \in Blocks
  BY <1>2, EntryPlace DEF EndBlock, EndSlot
<1>4. content \in [Slots -> Entry]
  <2>1. v.blocks[sector] \in [Slots -> Entry]
    BY <1>3 DEF Sound, Volume
  <2> QED
    BY <2>1, <1>3, EntryTypes
<1>5. sized \in Inode /\ sized.size = node.size + 1
  BY <1>2 DEF Inode
<1>6. sized.size % EntriesPerBlock = 0 => slot + 1 = EntriesPerBlock
  BY <1>2, <1>5, GrowsAtTheEnd DEF EndSlot
<1> HIDE DEF slot, sector, content, sized
<1>7. Sound(grown.fs)
  <2>1. CASE sized.size % EntriesPerBlock = 0
    <3>1. grown = AddNewEmptyBlock(v, sized, EntriesPerBlock)
      BY <2>1, <1>6
    <3>2. EntriesPerBlock \in Nat /\ ~ (EntriesPerBlock < NumDirect) /\ SlotOfPointer(EntriesPerBlock) \in Slots
      BY LayoutAssumption
    <3> HIDE DEF grown
    <3> QED
      BY <3>1, <3>2, <1>5, AddNewEmptyBlockSound
  <2>2. CASE sized.size % EntriesPerBlock # 0
    BY <2>2
  <2> QED
    BY <2>1, <2>2
<1> HIDE DEF grown
<1>8. put \in Volume
  BY <1>3, <1>4, <1>7, PutBlockSound DEF Sound
<1> HIDE DEF put, got
<1>9. got.fs = WriteInodeToDisk(put, n, got.node)
  BY <1>1
<1> QED
  BY <1>8, <1>9 DEF got

(* So the volume the request ends with is the last cut of its append.       *)
LEMMA AddEntryOnce ==
  ASSUME NEW v, Sound(v), NEW node \in Inode, OneBlock(node), NEW c, NEW p,
         Parent(c, p) \in Offered, Fitting(v, Parent(c, p), node),
         node.size < MaxSize, LastName(p) \in Names, NEW n \in Offered
  PROVE  AddEntry(v, node, c, p, n) =
           WriteDirectoryToInode(v, node, Parent(c, p), n, LastName(p)).fs
<1> DEFINE D     == Parent(c, p)
           added == WriteDirectoryToInode(v, node, D, n, LastName(p))
<1>1. AddEntry(v, node, c, p, n) = WriteInodeToDisk(added.fs, D, added.node)
  BY DEF AddEntry
<1>2. PICK put \in Volume : added.fs = WriteInodeToDisk(put, D, added.node)
  BY WriteDirectoryEnds
<1>3. added.node \in Inode /\ D \in Inodes
  BY WriteDirectorySound, LayoutFacts
<1> HIDE DEF added, D
<1>4. WriteInodeToDisk(added.fs, D, added.node) = added.fs
  BY <1>2, <1>3, WriteInodeTwice
<1> QED
  BY <1>1, <1>4 DEF added, D

----------------------------------------------------------------------------
(* Requests that add a name. *)

(* Every cut shows what fs does or is what the request ends with.           *)
Unseen(request) == \A v \in request.cuts : v = request.done \/ AsBefore(v)

(* CREATE and MKDIR: the inode that gets its entries was not in use.        *)
LEMMA MakingNewUnseen ==
  ASSUME IInv, Undamaged, NEW c \in Clients, NEW request \in MakingNew(c)
  PROVE  Unseen(request) /\ Head(fs.nodes) \in Offered
<1>1. PICK p \in {q \in Paths : /\ IsDirectory(Parent(c, q)) /\ Match(c, q) = ERROR
                                /\ Fits(fs.inodes[Parent(c, q)]) /\ ~ GetFreeInodeFails(fs)},
           type \in {INODE_REGULAR, INODE_DIRECTORY} :
        request = [cuts |-> MakeNewCuts(c, p, type), done |-> NewFile(c, p, type)]
  BY DEF MakingNew
<1> DEFINE D    == Parent(c, p)
           n    == Head(fs.nodes)
           base == SetNewInode(GetFreeInode(fs), n, type, D)
           node == fs.inodes[D]
<1>2. /\ Adding(base, D, n, LastName(p))
      /\ \A w \in NewInodeVolumes(c, p, type) : AroundNew(fs, w, n)
  BY MakingNewAdds
<1>3. request.cuts \subseteq NewInodeVolumes(c, p, type) \cup EntryCuts(base, node, D, n, LastName(p))
  BY <1>1, Zenon DEF MakeNewCuts, NewInodeVolumes
<1>4. base \in NewInodeVolumes(c, p, type)
  BY Zenon DEF NewInodeVolumes
<1>5. request.done = AddEntry(base, node, c, p, n)
  BY <1>1 DEF NewFile
<1>6. D \in InUse
  BY <1>2, LayoutFacts DEF IsDirectory, InUse, Adding, INODE_DIRECTORY, INODE_FREE
<1>7. n \notin InUse
  <2>1. fs.nodes \in Seq(Offered) /\ Len(fs.nodes) > 1
    BY DEF IInv, Sound, Volume, GetFreeInodeFails
  <2>2. 1 \in DOMAIN fs.nodes /\ n = fs.nodes[1]
    BY <2>1
  <2> QED
    BY <2>2 DEF Undamaged
<1> HIDE DEF n, base, node
<1>8. ASSUME NEW w \in NewInodeVolumes(c, p, type)
      PROVE  Prepared(w) /\ AsBefore(w)
  <2>1. AroundNew(fs, w, n)
    BY <1>2
  <2>2. Prepared(w)
    BY <1>7, <2>1, UndamagedLooks DEF Prepared, SameNames, AroundNew
  <2> QED
    BY <2>2, PreparedShows
<1>9. request.done = WriteDirectoryToInode(base, node, D, n, LastName(p)).fs
  BY <1>2, <1>5, AddEntryOnce DEF Adding, node
<1>10. ASSUME NEW w \in EntryCuts(base, node, D, n, LastName(p))
       PROVE  w = request.done \/ AsBefore(w)
  BY <1>2, <1>4, <1>6, <1>8, <1>9, AddingShows DEF node
<1> QED
  BY <1>2, <1>3, <1>8, <1>10 DEF Unseen, Adding, n

(* CREATE of a regular file: what is cut to size 0 is no directory.         *)
LEMMA TruncatingUnseen ==
  ASSUME IInv, Undamaged, NEW c \in Clients, NEW request \in Truncating(c)
  PROVE  Unseen(request)
<1>1. PICK p \in {q \in Paths : /\ Match(c, q) # ERROR
                                /\ GetInodeType(fs, Match(c, q)) = INODE_REGULAR
                                /\ Fits(fs.inodes[Parent(c, q)])} :
        /\ request.cuts = {ResetInodeSize(fs, Match(c, p))} \cup
             EntryCuts(ResetInodeSize(fs, Match(c, p)), fs.inodes[Parent(c, p)], Parent(c, p),
                       Match(c, p), LastName(p))
        /\ request.done = Truncated(c, p)
  BY DEF Truncating
<1> DEFINE D    == Parent(c, p)
           n    == Match(c, p)
           base == ResetInodeSize(fs, n)
           node == fs.inodes[D]
<1>2. Adding(base, D, n, LastName(p))
  BY TruncatingAdds
<1>3. request.done = AddEntry(base, node, c, p, n)
  BY <1>1 DEF Truncated
<1>4. D \in InUse
  BY <1>2, LayoutFacts DEF Match, IsDirectory, InUse, Adding, INODE_DIRECTORY, INODE_FREE
<1>5. fs.inodes[n].type = INODE_REGULAR
  BY DEF GetInodeType
<1>6. request.cuts = {base} \cup EntryCuts(base, node, D, n, LastName(p))
  BY <1>1
<1> HIDE DEF n, node
<1>7. Prepared(base)
  <2>1. /\ base.free = fs.free /\ base.blocks = fs.blocks
        /\ \A m \in Inodes : /\ base.inodes[m].type = fs.inodes[m].type
                             /\ m # n => base.inodes[m] = fs.inodes[m]
    BY <1>2, ResetInodeSizeKeeps DEF Adding, IInv
  <2> HIDE DEF base
  <2> QED
    BY <1>5, <2>1, UndamagedLooks DEF Prepared, SameNames, Untouched, INODE_REGULAR, INODE_DIRECTORY
<1> HIDE DEF base
<1>8. AsBefore(base)
  BY <1>7, PreparedShows
<1>9. request.done = WriteDirectoryToInode(base, node, D, n, LastName(p)).fs
  BY <1>2, <1>3, AddEntryOnce DEF Adding, node
<1>10. ASSUME NEW w \in EntryCuts(base, node, D, n, LastName(p))
       PROVE  w = request.done \/ AsBefore(w)
  BY <1>2, <1>4, <1>7, <1>9, AddingShows DEF node
<1> QED
  BY <1>6, <1>8, <1>10 DEF Unseen

(* Lookups read nothing of an inode but its type, its size and its blocks,  *)
(* and of one that is no directory only that.                               *)
SameView(v, w, m) ==
  \/ v.inodes[m].type # INODE_DIRECTORY /\ w.inodes[m].type # INODE_DIRECTORY
  \/ /\ w.inodes[m].type = v.inodes[m].type /\ w.inodes[m].size = v.inodes[m].size
     /\ w.inodes[m].direct = v.inodes[m].direct

(* Such volumes show the same inode at every path.                          *)
LEMMA SameViewShows ==
  ASSUME NEW v, NEW w, Sound(v), w.blocks = v.blocks, \A m \in Offered : SameView(v, w, m),
         NEW p \in Paths
  PROVE  /\ CheckPath(w, p, ROOTINODE) = CheckPath(v, p, ROOTINODE)
         /\ CheckPath(v, p, ROOTINODE) \in Offered \cup {ERROR}
<1>1. ROOTINODE \in Offered /\ Offered \subseteq Inodes
  BY LayoutFacts
<1>2. v \in Volume /\ \A m \in Offered : v.inodes[m] \in Inode
  BY <1>1 DEF Sound, Volume
<1>3. Closed(v, Offered)
  BY <1>2, FindDirectoryEntryTypes DEF Closed, Look
<1>4. ASSUME NEW m \in Offered, NEW name \in Names
      PROVE  Look(w, m, name) = Look(v, m, name)
  <2> DEFINE x == v.inodes[m]
             y == w.inodes[m]
  <2>1. CASE x.type # INODE_DIRECTORY /\ y.type # INODE_DIRECTORY
    BY <2>1 DEF Look, FindDirectoryEntry
  <2>2. CASE y.type = x.type /\ y.size = x.size /\ y.direct = x.direct
    <3>1. \A i \in 0 .. x.size - 1 : EntryAt(w, y, i) = EntryAt(v, x, i)
      BY <2>2 DEF EntryAt
    <3>2. Held(w, y) = Held(v, x)
      BY <2>2, <3>1 DEF Held
    <3>3. Named(w, y, name) = Named(v, x, name)
      BY <3>1, <3>2 DEF Named, Held
    <3>4. Named(v, x, name) # {} => First(Named(v, x, name)) \in 0 .. x.size - 1
      <4>1. Named(v, x, name) \subseteq 0 .. x.size - 1 /\ Named(v, x, name) \subseteq Nat
        BY <1>2 DEF Named, Held, Inode
      <4> QED
        BY <4>1, FirstOfNat
    <3> QED
      BY <2>2, <3>1, <3>3, <3>4 DEF Look, FindDirectoryEntry
  <2> QED
    BY <2>1, <2>2 DEF SameView
<1> QED
  BY <1>1, <1>3, <1>4, ClientAssumption, SamePaths

(* LINK: what is left after the entry is the link count, which no path      *)
(* shows.                                                                   *)
LEMMA LinkingShows ==
  ASSUME IInv, Undamaged, NEW c \in Clients, NEW request \in Linking(c),
         NEW u \in request.cuts, NEW p \in Paths
  PROVE  Shown(u, p) \in {Shown(fs, p), Shown(request.done, p)}
<1>1. PICK pp \in {qq \in Paths \X Paths : /\ Linkable(c, qq[1], qq[2])
                                           /\ Fits(fs.inodes[Parent(c, qq[2])])
                                           /\ RoomToLink(Target(c, qq[1]))} :
        /\ request.cuts = EntryCuts(fs, fs.inodes[Parent(c, pp[2])], Parent(c, pp[2]),
                                    Target(c, pp[1]), LastName(pp[2]))
        /\ request.done = Linked(c, pp[1], pp[2])
  BY DEF Linking
<1> DEFINE D     == Parent(c, pp[2])
           n     == Target(c, pp[1])
           node  == fs.inodes[D]
           added == WriteDirectoryToInode(fs, node, D, n, LastName(pp[2])).fs
           more  == [added.inodes[n] EXCEPT !.nlink = added.inodes[n].nlink + 1]
           done  == WriteInodeToDisk(added, n, more)
<1>2. Adding(fs, D, n, LastName(pp[2]))
  BY LinkingAdds
<1>3. D \in InUse
  <2>1. cwd[c] \in InUse /\ ROOTINODE \in InUse /\ Closed(fs, InUse)
    BY UndamagedLooks
  <2>2. FindsLess(fs, fs, InUse)
    BY DEF FindsLess
  <2>3. FindParent(fs, pp[2], cwd[c]) \in InUse \cup {ERROR}
    BY <2>1, <2>2, ClientAssumption, ParentsLess
  <2> QED
    BY <2>3 DEF Parent, Linkable
<1>4. Prepared(fs)
  BY DEF Prepared, SameNames, Untouched
<1>5. u = added \/ AsBefore(u)
  BY <1>1, <1>2, <1>3, <1>4, AddingShows
<1>6. request.done = done
  BY <1>1, Zenon DEF Linked
<1>7. Sound(added) /\ n \in Offered
  BY <1>2, WriteDirectorySound DEF Adding
<1> HIDE DEF added, n
<1>8. CASE u = added
  <2>1. added \in Volume /\ n \in Inodes /\ added.inodes[n] \in Inode
    BY <1>7, LayoutFacts DEF Sound, Volume
  <2>2. /\ more \in Inode /\ more.direct = added.inodes[n].direct
        /\ more.type = added.inodes[n].type /\ more.size = added.inodes[n].size
    BY <2>1 DEF Inode
  <2> HIDE DEF more
  <2>3. /\ done \in Volume /\ done.blocks = added.blocks
        /\ \A m \in Inodes \ {n} : done.inodes[m] = added.inodes[m]
        /\ done.inodes[n].type = more.type /\ done.inodes[n].size = more.size
        /\ \A i \in Directs : done.inodes[n].direct[i] \in {more.direct[i], added.inodes[n].direct[i]}
    BY <2>1, <2>2, WriteInodeTypes
  <2> HIDE DEF done
  <2>4. done.inodes[n].direct = added.inodes[n].direct
    <3>1. /\ done.inodes[n].direct \in [Directs -> Blocks]
          /\ added.inodes[n].direct \in [Directs -> Blocks]
      BY <2>1, <2>3 DEF Volume, Inode
    <3> QED
      BY <2>2, <2>3, <3>1
  <2>5. \A m \in Inodes : done.inodes[m].type = added.inodes[m].type /\ SameView(added, done, m)
    BY <2>2, <2>3, <2>4 DEF SameView
  <2>6. /\ CheckPath(done, p, ROOTINODE) = CheckPath(added, p, ROOTINODE)
        /\ CheckPath(added, p, ROOTINODE) \in Offered \cup {ERROR}
    BY <1>7, <2>3, <2>5, LayoutFacts, SameViewShows
  <2>7. Shown(done, p) = Shown(added, p)
    BY <2>5, <2>6, LayoutFacts DEF Shown, GetInodeType
  <2> QED
    BY <1>6, <1>8, <2>7
<1>9. CASE AsBefore(u)
  BY <1>9, AsBeforeShows
<1> QED
  BY <1>5, <1>8, <1>9

----------------------------------------------------------------------------
(* Requests that clear a name. *)

(* Clearing an entry changes no other, of whatever directory it is read.    *)
LEMMA ClearsSome ==
  ASSUME NEW v, Sound(v), NEW dir \in Inode, NEW n, ~ FreeDirectoryEntryFails(v, dir, n),
         NEW node \in Inode
  PROVE  SomeCleared(v, FreeDirectoryEntry(v, dir, n), node)
<1> DEFINE w == FreeDirectoryEntry(v, dir, n)
           f == First(Numbered(v, dir, n))
<1>1. ClearsOne(v, w, dir.direct[f \div EntriesPerBlock], f % EntriesPerBlock)
  BY FreeDirectoryEntrySound DEF ClearsOne
<1> HIDE DEF w, f
<1>2. ASSUME NEW i \in 0 .. node.size - 1
      PROVE  EntryAt(w, node, i) \in {EntryAt(v, node, i), NoEntry}
  <2>1. /\ i \div EntriesPerBlock \in Directs /\ i % EntriesPerBlock \in Slots
        /\ node.direct[i \div EntriesPerBlock] \in Blocks
    BY EntryAtTypes DEF Sound
  <2> QED
    BY <1>1, <2>1 DEF ClearsOne, EntryAt
<1> QED
  BY <1>2 DEF SomeCleared, w

(* UNLINK: with the entry cleared, a path leads where it led or nowhere;    *)
(* the inode is no directory, so that freeing it leads no path elsewhere.   *)
LEMMA UnlinkingShows ==
  ASSUME IInv, Undamaged, NEW c \in Clients, NEW request \in Unlinking(c),
         NEW u \in request.cuts, NEW p \in Paths
  PROVE  Shown(u, p) \in {Shown(fs, p), Shown(request.done, p)}
<1>1. PICK q \in {r \in Paths : Unlinkable(c, r) /\ RoomToFree /\ RoomToUnlink(Target(c, r))} :
        request.cuts = UnlinkCuts(c, q) /\ request.done = Unlinked(c, q)
  BY DEF Unlinking
<1> DEFINE n    == Target(c, q)
           dir  == fs.inodes[Parent(c, q)]
           less == [fs.inodes[n] EXCEPT !.nlink = fs.inodes[n].nlink - 1]
           done == IF less.nlink = 0 THEN FreeInode(u, n) ELSE WriteInodeToDisk(u, n, less)
<1>2. u = FreeDirectoryEntry(fs, dir, n)
  BY <1>1 DEF UnlinkCuts
<1>3. request.done = done
  BY <1>1, <1>2, Zenon DEF Unlinked
<1>4. /\ n \in Offered /\ n \in Inodes /\ fs.inodes[n] \in Inode
      /\ fs.inodes[n].type # INODE_DIRECTORY
      /\ dir \in Inode /\ ~ FreeDirectoryEntryFails(fs, dir, n) /\ Sound(fs)
  BY Reads, SoundInode DEF Unlinkable, IsDirectory, GetInodeType, IInv
<1> HIDE DEF n, dir
<1>5. Sound(u) /\ u.inodes = fs.inodes
  BY <1>2, <1>4, FreeDirectoryEntrySound
<1>6. p \in Path /\ LastName(p) \in Names
  BY ClientAssumption
(* The cut shows what fs does, or nothing. *)
<1>7. ASSUME NEW d \in InUse, NEW name \in Names
      PROVE  Look(u, d, name) \in {ERROR, Look(fs, d, name)}
  <2>1. fs.inodes[d] \in Inode /\ d \in Inodes
    BY UndamagedLooks
  <2>2. CASE fs.inodes[d].type = INODE_DIRECTORY
    <3>1. OneInodeEach(fs, fs.inodes[d])
      BY <2>1, <2>2, UndamagedLooks
    <3>2. SomeCleared(fs, u, fs.inodes[d])
      BY <1>2, <1>4, <2>1, ClearsSome
    <3>3. u \in Volume
      BY <1>5 DEF Sound
    <3> QED
      BY <1>5, <2>1, <3>1, <3>2, <3>3, SomeClearedFind DEF Look
  <2>3. CASE fs.inodes[d].type # INODE_DIRECTORY
    BY <1>5, <2>3 DEF Look, FindDirectoryEntry
  <2> QED
    BY <2>2, <2>3
<1>8. CheckPath(u, p, ROOTINODE) \in {ERROR, CheckPath(fs, p, ROOTINODE)}
  <2>1. FindsLess(u, fs, InUse)
    BY <1>7 DEF FindsLess
  <2> QED
    BY <1>6, <2>1, UndamagedLooks, PathsLess
(* The end of the request shows what the cut does, as far as names go. *)
<1>9. less \in Inode /\ less.type = fs.inodes[n].type
  BY <1>4 DEF Inode
<1> HIDE DEF less
<1>10. /\ done.blocks = u.blocks
       /\ \A m \in Inodes \ {n} : done.inodes[m] = u.inodes[m]
       /\ done.inodes[n].type # INODE_DIRECTORY
  <2>1. /\ FreeInode(u, n).blocks = u.blocks
        /\ \A m \in Inodes \ {n} : FreeInode(u, n).inodes[m] = u.inodes[m]
        /\ FreeInode(u, n).inodes[n].type = INODE_FREE
    BY <1>4, <1>5, FreeInodeSound
  <2>2. /\ WriteInodeToDisk(u, n, less).blocks = u.blocks
        /\ \A m \in Inodes \ {n} : WriteInodeToDisk(u, n, less).inodes[m] = u.inodes[m]
        /\ WriteInodeToDisk(u, n, less).inodes[n].type = less.type
    <3>1. u \in Volume
      BY <1>5 DEF Sound
    <3> QED
      BY <3>1, <1>4, <1>9, WriteInodeTypes
  <2>3. CASE less.nlink = 0
    BY <2>1, <2>3 DEF INODE_FREE, INODE_DIRECTORY
  <2>4. CASE less.nlink # 0
    BY <1>4, <1>9, <2>2, <2>4
  <2> QED
    BY <2>3, <2>4
<1> HIDE DEF done
<1>11. \A m \in Offered : SameView(u, done, m)
  BY <1>4, <1>5, <1>10, LayoutFacts DEF SameView
<1>12. CheckPath(done, p, ROOTINODE) = CheckPath(u, p, ROOTINODE)
  BY <1>5, <1>10, <1>11, SameViewShows
<1>13. CASE CheckPath(u, p, ROOTINODE) = ERROR
  BY <1>3, <1>12, <1>13 DEF Shown
<1>14. CASE CheckPath(u, p, ROOTINODE) # ERROR
  BY <1>5, <1>8, <1>14 DEF Shown, GetInodeType
<1> QED
  BY <1>13, <1>14

(* RMDIR: with the inode freed, the paths through it lead nowhere, and the  *)
(* path to it leads to a free inode until the entry is cleared.             *)
LEMMA RemovingShows ==
  ASSUME IInv, Undamaged, NEW c \in Clients, NEW request \in Removing(c),
         NEW u \in request.cuts, NEW p \in Paths
  PROVE  Shown(u, p) \in {Shown(fs, p), Shown(request.done, p),
                          <<CheckPath(fs, p, ROOTINODE), INODE_FREE>>}
<1>1. PICK q \in {r \in Paths : Removable(c, r) /\ RoomToFree} :
        /\ request.cuts = {Removed(c, q)}
        /\ request.done = FreeDirectoryEntry(Removed(c, q), fs.inodes[Parent(c, q)], Match(c, q))
  BY DEF Removing
<1> DEFINE n    == Match(c, q)
           dir  == fs.inodes[Parent(c, q)]
           done == request.done
<1>2. u = Removed(c, q) /\ u = FreeInode(fs, n)
  BY <1>1 DEF Removed
<1>3. done = FreeDirectoryEntry(u, dir, n) /\ ~ FreeDirectoryEntryFails(u, dir, n)
  BY <1>1, <1>2, EntryStillThere
<1>4. n \in Offered /\ dir \in Inode /\ Sound(fs)
  BY Reads, SoundInode DEF Removable, Match, IsDirectory, IInv
<1> HIDE DEF n, dir, done
<1>5. /\ Sound(u) /\ u.blocks = fs.blocks /\ u.inodes[n].type = INODE_FREE
      /\ \A m \in Inodes \ {n} : u.inodes[m] = fs.inodes[m]
  BY <1>2, <1>4, FreeInodeSound
<1>6. Sound(done) /\ done.inodes = u.inodes
  BY <1>3, <1>4, <1>5, FreeDirectoryEntrySound
<1>7. p \in Path /\ LastName(p) \in Names
  BY ClientAssumption
<1>8. ASSUME NEW d \in InUse, NEW name \in Names
      PROVE  /\ Look(u, d, name) \in {ERROR, Look(fs, d, name)}
             /\ Look(done, d, name) \in {ERROR, Look(u, d, name)}
  <2>1. fs.inodes[d] \in Inode /\ d \in Inodes
    BY UndamagedLooks
  <2>2. CASE u.inodes[d].type # INODE_DIRECTORY
    BY <1>6, <2>2 DEF Look, FindDirectoryEntry
  <2>3. CASE u.inodes[d].type = INODE_DIRECTORY
    <3> DEFINE node == fs.inodes[d]
    <3>1. u.inodes[d] = node /\ done.inodes[d] = node /\ node.type = INODE_DIRECTORY
      BY <1>5, <1>6, <2>1, <2>3 DEF INODE_FREE, INODE_DIRECTORY
    <3>2. SameEntriesIn(fs, u, node)
      BY <1>5 DEF SameEntriesIn, EntryAt
    <3>3. Look(u, d, name) = Look(fs, d, name)
      BY <2>1, <3>1, <3>2, SameEntriesFind DEF Look
    <3>4. OneInodeEach(u, node)
      <4>1. OneInodeEach(fs, node)
        BY <2>1, <3>1, UndamagedLooks
      <4>2. \A i : EntryAt(u, node, i) = EntryAt(fs, node, i)
        BY <1>5 DEF EntryAt
      <4> HIDE DEF node
      <4> QED
        BY <4>1, <4>2 DEF OneInodeEach, Held
    <3>5. SomeCleared(u, done, node)
      BY <1>3, <1>4, <1>5, <2>1, ClearsSome
    <3>6. done \in Volume
      BY <1>6 DEF Sound
    <3>7. Look(done, d, name) \in {ERROR, Look(u, d, name)}
      BY <2>1, <3>1, <3>4, <3>5, <3>6, SomeClearedFind DEF Look
    <3> QED
      BY <3>3, <3>7
  <2> QED
    BY <2>2, <2>3
<1>9. FindsLess(u, fs, InUse) /\ FindsLess(done, u, InUse) /\ Closed(u, InUse)
  BY <1>8, UndamagedLooks DEF FindsLess, Closed
<1>10. /\ CheckPath(u, p, ROOTINODE) \in InUse \cup {ERROR}
       /\ CheckPath(u, p, ROOTINODE) \in {ERROR, CheckPath(fs, p, ROOTINODE)}
  BY <1>7, <1>9, UndamagedLooks, PathsLess
<1>11. CheckPath(done, p, ROOTINODE) \in {ERROR, CheckPath(u, p, ROOTINODE)}
  BY <1>7, <1>9, UndamagedLooks, PathsLess
<1>12. CASE CheckPath(u, p, ROOTINODE) = ERROR
  BY <1>11, <1>12 DEF Shown, done
<1>13. CASE CheckPath(u, p, ROOTINODE) # ERROR
  <2>1. CheckPath(u, p, ROOTINODE) \in Inodes
    BY <1>10, <1>13, UndamagedLooks
  <2> QED
    BY <1>5, <1>10, <1>13, <2>1 DEF Shown, GetInodeType
<1> QED
  BY <1>12, <1>13

----------------------------------------------------------------------------
(* All the requests that put their writes in the right order.               *)
LEMMA CutsShow ==
  ASSUME IInv, Undamaged, NEW c \in Clients, NEW request \in NameChanging(c),
         NEW u \in request.cuts, NEW p \in Paths
  PROVE  Shown(u, p) \in {Shown(fs, p), Shown(request.done, p)}
<1>1. CASE Unseen(request)
  BY <1>1, AsBeforeShows DEF Unseen
<1>2. CASE request \in MakingNew(c) \/ request \in Truncating(c)
  BY <1>1, <1>2, MakingNewUnseen, TruncatingUnseen
<1>3. CASE request \in Linking(c)
  BY <1>3, LinkingShows
<1>4. CASE request \in Unlinking(c)
  BY <1>4, UnlinkingShows
<1> QED
  BY <1>2, <1>3, <1>4 DEF NameChanging

(* Wherever the power goes, every path of an undamaged volume shows what it *)
(* showed before the request or what it would show after it; only RMDIR     *)
(* lets one lead to the freed inode in between.                             *)
THEOREM PathsStayAtomic == CutsSpec => []PathsAtomic
<1>1. IInv => PathsAtomic
  <2> SUFFICES ASSUME IInv, Undamaged, NEW c \in Clients, NEW p \in Paths
               PROVE  /\ \A request \in NameChanging(c) : \A v \in request.cuts :
                           Shown(v, p) \in {Shown(fs, p), Shown(request.done, p)}
                      /\ \A request \in Removing(c) : \A v \in request.cuts :
                           Shown(v, p) \in {Shown(fs, p), Shown(request.done, p),
                                            <<CheckPath(fs, p, ROOTINODE), INODE_FREE>>}
    BY DEF PathsAtomic
  <2> QED
    BY CutsShow, RemovingShows
<1> QED
  BY <1>1, CutsInvariance, PTL

(* A path that newly leads to the inode of a cut CREATE or MKDIR finds that *)
(* inode and its first block as the whole request would have left them.     *)
THEOREM NewNamesStayWhole == CutsSpec => []NewNamesWhole
<1>1. IInv => NewNamesWhole
  <2> SUFFICES ASSUME IInv, Undamaged, NEW c \in Clients, NEW request \in MakingNew(c),
                      NEW v \in request.cuts, NEW p \in Paths,
                      CheckPath(fs, p, ROOTINODE) = ERROR,
                      CheckPath(v, p, ROOTINODE) = Head(fs.nodes)
               PROVE  v = request.done
    BY DEF NewNamesWhole
  <2>1. v = request.done \/ AsBefore(v)
    BY MakingNewUnseen DEF Unseen
  <2>2. AsBefore(v) => CheckPath(v, p, ROOTINODE) = ERROR
    BY AsBeforeShows
  <2>3. Head(fs.nodes) # ERROR
    BY MakingNewUnseen, LayoutFacts
  <2> QED
    BY <2>1, <2>2, <2>3
<1> QED
  BY <1>1, CutsInvariance, PTL
=============================================================================
