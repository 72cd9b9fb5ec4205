------------------------------ MODULE YfsProof ------------------------------
(***************************************************************************)
(* Theorems about Yfs for every layout, any set of processes and any set   *)
(* of paths.  The inductive invariant is IInv; the lemmas about the        *)
(* helpers of the handlers are in YfsDiskProof.                            *)
(***************************************************************************)
EXTENDS Yfs, YfsDiskProof

IInv ==
  /\ Sound(fs)
  /\ server \in {"running", "down", "crashed"}
  /\ cwd \in [Clients -> Offered]
  /\ reply \in Offered \cup {0, ERMSG}
  /\ boots \in 0 .. MaxBoots

(* What a step may do to the volume besides keeping it sound.               *)
Effect ==
  /\ reply' = ERMSG => fs' = fs
  /\ boots' = boots => fs'.free \ fs.free \subseteq {0}

(* A reply of an inode number or 0 is not one of an error.                  *)
LEMMA NotErmsg == ERMSG \notin Offered \cup {0}
BY LayoutFacts DEF ERMSG, Inodes

(* How handlers end.                                                        *)
LEMMA Replies ==
  ASSUME IInv
  PROVE  /\ ReplyError => IInv' /\ Effect
         /\ Crash => IInv' /\ Effect
         /\ \A volume : \A data \in Offered \cup {0} :
              /\ ReplyWith(volume, data)
              /\ Sound(volume)
              /\ volume.free \subseteq fs.free \cup {0}
              => IInv' /\ Effect
<1>1. ReplyError => IInv' /\ Effect
  BY DEF IInv, ReplyError, Effect
<1>2. Crash => IInv' /\ Effect
  BY DEF IInv, Crash, Effect
<1>3. ASSUME NEW volume, NEW data \in Offered \cup {0}, ReplyWith(volume, data),
             Sound(volume), volume.free \subseteq fs.free \cup {0}
      PROVE  IInv' /\ Effect
  BY <1>3, NotErmsg DEF IInv, ReplyWith, Effect
<1> QED
  BY <1>1, <1>2, <1>3

(* The inodes a request reads.                                              *)
LEMMA Reads ==
  ASSUME IInv, NEW c \in Clients, NEW p \in Paths
  PROVE  /\ p \in Path /\ LastName(p) \in Names
         /\ Parent(c, p) \in Offered \cup {ERROR}
         /\ Target(c, p) \in Offered \cup {ERROR}
         /\ Match(c, p) \in Offered \cup {ERROR}
<1>1. p \in Path /\ LastName(p) \in Names
  BY ClientAssumption
<1>2. fs \in Volume /\ cwd[c] \in Offered
  BY DEF IInv, Sound
<1>3. Parent(c, p) \in Offered \cup {ERROR}
  BY <1>1, <1>2, FindParentTypes DEF Parent
<1>4. Target(c, p) \in Offered \cup {ERROR}
  BY <1>1, <1>2, CheckPathTypes DEF Target
<1>5. Match(c, p) \in Offered \cup {ERROR}
  <2>1. CASE IsDirectory(Parent(c, p))
    <3>1. Parent(c, p) \in Offered
      BY <1>3, <2>1 DEF IsDirectory
    <3>2. fs.inodes[Parent(c, p)] \in Inode
      BY <1>2, <3>1, LayoutFacts DEF Volume
    <3>3. FindDirectoryEntry(fs, fs.inodes[Parent(c, p)], LastName(p)) \in Offered \cup {ERROR}
      BY <1>1, <1>2, <3>2, FindDirectoryEntryTypes
    <3> QED
      BY <2>1, <3>3 DEF Match
  <2>2. CASE ~ IsDirectory(Parent(c, p))
    BY <2>2 DEF Match
  <2> QED
    BY <2>1, <2>2
<1> QED
  BY <1>1, <1>3, <1>4, <1>5

(* An inode on the disk of a sound volume.                                  *)
LEMMA SoundInode ==
  ASSUME IInv, NEW n \in Offered
  PROVE  /\ fs.inodes[n] \in Inode /\ OneBlock(fs.inodes[n])
         /\ Fitting(fs, n, fs.inodes[n]) /\ n \in Inodes
BY LayoutFacts DEF IInv, Sound, Volume

----------------------------------------------------------------------------
(* CREATE and MKDIR. *)

(* CREATE, MKDIR and LINK end with an entry in the parent; the copy of the  *)
(* parent must fit the disk.                                                *)
LEMMA AddEntrySound ==
  ASSUME NEW v, Sound(v), NEW node \in Inode, OneBlock(node), NEW c, NEW p,
         Parent(c, p) \in Offered, Fitting(v, Parent(c, p), node),
         node.size < MaxSize, LastName(p) \in Names, NEW n \in Offered
  PROVE  Sound(AddEntry(v, node, c, p, n)) /\ AddEntry(v, node, c, p, n).free \subseteq v.free
<1> DEFINE parent == Parent(c, p)
           name   == LastName(p)
           added  == WriteDirectoryToInode(v, node, parent, n, name)
           w      == WriteInodeToDisk(added.fs, parent, added.node)
<1>1. AddEntry(v, node, c, p, n) = w
  BY DEF AddEntry
<1>2. parent \in Offered /\ Fitting(v, parent, node) /\ name \in Names
  OBVIOUS
<1> HIDE DEF parent, name
<1>3. /\ Sound(added.fs) /\ added.fs.free \subseteq v.free
      /\ added.node \in Inode /\ OneBlock(added.node)
      /\ Fitting(added.fs, parent, added.node)
  BY <1>2, WriteDirectorySound
<1> HIDE DEF added
<1>4. Sound(w) /\ w.free = added.fs.free
  BY <1>2, <1>3, WriteInodeSound
<1> QED
  BY <1>1, <1>3, <1>4

(* The copy of the parent's inode read before the new inode was written     *)
(* still fits after it, even if both are one inode.                         *)
LEMMA StaleCopyFits ==
  ASSUME NEW v, Sound(v), NEW w, w.free \subseteq v.free, NEW n \in Inodes, NEW parent \in Inodes,
         \A m \in Inodes \ {n} : w.inodes[m] = v.inodes[m],
         w.inodes = v.inodes \/ w.inodes[n].direct[0] \in v.free
  PROVE  Fitting(w, parent, v.inodes[parent])
<1>1. Fitting(v, parent, v.inodes[parent])
  BY DEF Sound
<1>2. ASSUME Owns(v.inodes[parent]), NEW m \in Inodes \ {parent}, Owns(w.inodes[m])
      PROVE  w.inodes[m].direct[0] # v.inodes[parent].direct[0]
  <2>1. CASE w.inodes[m] = v.inodes[m]
    BY <1>1, <1>2, <2>1 DEF Fitting
  <2>2. CASE w.inodes[m] # v.inodes[m]
    <3>1. m = n /\ w.inodes[m].direct[0] \in v.free
      BY <2>2
    <3> QED
      BY <1>1, <1>2, <3>1 DEF Fitting
  <2> QED
    BY <2>1, <2>2
<1> QED
  BY <1>1, <1>2 DEF Fitting

(* The copy of the parent read before setNewInode still fits the disk after *)
(* it.                                                                      *)
LEMMA NewInodeFits ==
  ASSUME NEW v, Sound(v), NEW n \in Offered, NEW parent \in Offered,
         NEW type \in {INODE_DIRECTORY, INODE_REGULAR}
  PROVE  /\ Sound(SetNewInode(v, n, type, parent))
         /\ SetNewInode(v, n, type, parent).free \subseteq v.free
         /\ Fitting(SetNewInode(v, n, type, parent), parent, v.inodes[parent])
<1> DEFINE w == SetNewInode(v, n, type, parent)
<1>1. /\ Sound(w) /\ w.free \subseteq v.free
      /\ \A m \in Inodes \ {n} : w.inodes[m] = v.inodes[m]
      /\ w.inodes = v.inodes \/ w.inodes[n].direct[0] \in v.free
  BY SetNewInodeSound
<1> HIDE DEF w
<1>2. n \in Inodes /\ parent \in Inodes
  BY LayoutFacts
<1>3. Fitting(w, parent, v.inodes[parent])
  BY <1>1, <1>2, StaleCopyFits
<1> QED
  BY <1>1, <1>3 DEF w

LEMMA MakeNewStep ==
  ASSUME IInv, NEW c \in Clients, NEW p \in Paths,
         NEW type \in {INODE_DIRECTORY, INODE_REGULAR}, MakeNew(c, p, type)
  PROVE  IInv' /\ Effect
<1> DEFINE parent == Parent(c, p)
           node   == fs.inodes[parent]
           n      == Head(fs.nodes)
           taken  == GetFreeInode(fs)
           set    == SetNewInode(taken, n, type, parent)
           volume == AddEntry(set, node, c, p, n)
<1>1. CASE GetFreeInodeFails(fs) /\ Crash
  BY <1>1, Replies
<1>2. CASE ~ GetFreeInodeFails(fs) /\ ReplyWith(NewFile(c, p, type), Head(fs.nodes))
  <2>1. NewFile(c, p, type) = volume
    BY DEF NewFile
  <2>2. parent \in Offered /\ LastName(p) \in Names
    BY Reads DEF MakeNew, IsDirectory
  <2>3. /\ node \in Inode /\ OneBlock(node) /\ node.size < MaxSize
        /\ parent \in Inodes
    BY <2>2, SoundInode DEF MakeNew, Fits
  <2>4. /\ Sound(taken) /\ n \in Offered
        /\ taken.inodes = fs.inodes /\ taken.free = fs.free
    BY <1>2, GetFreeInodeSound DEF IInv
  <2> HIDE DEF taken, n
  <2>5. /\ Sound(set) /\ set.free \subseteq taken.free
        /\ Fitting(set, parent, taken.inodes[parent])
    BY <2>2, <2>4, NewInodeFits
  <2> HIDE DEF set
  <2>6. Fitting(set, parent, node)
    BY <2>4, <2>5
  <2> HIDE DEF node
  <2>7. Sound(volume) /\ volume.free \subseteq set.free
    BY <2>2, <2>3, <2>4, <2>5, <2>6, AddEntrySound
  <2>8. ReplyWith(volume, n)
    BY <1>2, <2>1 DEF n
  <2> HIDE DEF volume
  <2>9. volume.free \subseteq fs.free \cup {0}
    BY <2>4, <2>5, <2>7
  <2> QED
    BY <2>4, <2>7, <2>8, <2>9, Replies
<1> QED
  BY <1>1, <1>2 DEF MakeNew

LEMMA CreateExistingStep ==
  ASSUME IInv, NEW c \in Clients, NEW p \in Paths, CreateExisting(c, p)
  PROVE  IInv' /\ Effect
<1> DEFINE parent == Parent(c, p)
           node   == fs.inodes[parent]
           n      == Match(c, p)
           reset  == ResetInodeSize(fs, n)
           volume == AddEntry(reset, node, c, p, n)
<1>1. n \in Offered /\ LastName(p) \in Names
  BY Reads DEF CreateExisting
<1>2. parent \in Offered
  BY Reads DEF CreateExisting, Match, IsDirectory
<1>3. /\ node \in Inode /\ OneBlock(node) /\ node.size < MaxSize /\ parent \in Inodes
      /\ Fitting(fs, parent, node)
  BY <1>2, SoundInode DEF CreateExisting, Fits
<1>4. ReplyWith(volume, n)
  BY DEF CreateExisting, Truncated
<1> HIDE DEF n, node
<1>5. /\ Sound(reset) /\ reset.free = fs.free
      /\ \A m \in Inodes : /\ reset.inodes[m].type = fs.inodes[m].type
                           /\ reset.inodes[m].direct[0] = fs.inodes[m].direct[0]
  BY <1>1, ResetInodeSizeSound DEF IInv
<1> HIDE DEF reset
<1>6. Fitting(reset, parent, node)
  BY <1>3, <1>5 DEF Fitting, Owns
<1>7. Sound(volume) /\ volume.free \subseteq reset.free
  BY <1>1, <1>2, <1>3, <1>5, <1>6, AddEntrySound
<1> HIDE DEF volume
<1>8. volume.free \subseteq fs.free \cup {0}
  BY <1>5, <1>7
<1> QED
  BY <1>1, <1>4, <1>7, <1>8, Replies

----------------------------------------------------------------------------
(* LINK and UNLINK. *)

LEMMA LinkStep ==
  ASSUME IInv, NEW c \in Clients, NEW old \in Paths, NEW new \in Paths, Link(c, old, new)
  PROVE  IInv' /\ Effect
<1>1. CASE ~ Linkable(c, old, new) /\ ReplyError
  BY <1>1, Replies
<1>2. CASE /\ Linkable(c, old, new)
           /\ Fits(fs.inodes[Parent(c, new)])
           /\ ReplyWith(Linked(c, old, new), Target(c, old))
  <2> DEFINE n      == Target(c, old)
             parent == Parent(c, new)
             node   == fs.inodes[parent]
             name   == LastName(new)
             added  == WriteDirectoryToInode(fs, node, parent, n, name).fs
             more   == [added.inodes[n] EXCEPT !.nlink = added.inodes[n].nlink + 1]
             volume == WriteInodeToDisk(added, n, more)
  <2>1. n \in Offered /\ parent \in Offered /\ name \in Names
    BY <1>2, Reads DEF Linkable
  <2>2. /\ node \in Inode /\ OneBlock(node) /\ node.size < MaxSize
        /\ Fitting(fs, parent, node)
    BY <2>1, <1>2, SoundInode DEF Fits
  <2>3. ReplyWith(volume, n)
    BY <1>2, Zenon DEF Linked
  <2>4. Sound(fs)
    BY DEF IInv
  <2> HIDE DEF n, parent, node, name
  <2>5. Sound(added) /\ added.free \subseteq fs.free
    BY <2>1, <2>2, <2>4, WriteDirectorySound
  <2> HIDE DEF added
  <2>6. /\ added.inodes[n] \in Inode /\ OneBlock(added.inodes[n])
        /\ Fitting(added, n, added.inodes[n])
    BY <2>1, <2>5, LayoutFacts DEF Sound, Volume
  <2>7. more \in Inode /\ more.direct = added.inodes[n].direct /\ more.type = added.inodes[n].type
    BY <2>6 DEF Inode
  <2> HIDE DEF more
  <2>8. OneBlock(more) /\ Fitting(added, n, more)
    BY <2>6, <2>7 DEF OneBlock, Fitting, Owns
  <2>9. Sound(volume) /\ volume.free = added.free
    BY <2>1, <2>5, <2>7, <2>8, WriteInodeSound
  <2> HIDE DEF volume
  <2>10. volume.free \subseteq fs.free \cup {0}
    BY <2>5, <2>9
  <2> QED
    BY <2>1, <2>3, <2>9, <2>10, Replies
<1> QED
  BY <1>1, <1>2 DEF Link

LEMMA UnlinkStep ==
  ASSUME IInv, NEW c \in Clients, NEW p \in Paths, Unlink(c, p)
  PROVE  IInv' /\ Effect
<1>1. CASE ~ Unlinkable(c, p) /\ ReplyError
  BY <1>1, Replies
<1>2. CASE Unlinkable(c, p) /\ ReplyWith(Unlinked(c, p), Parent(c, p))
  <2> DEFINE n       == Target(c, p)
             parent  == Parent(c, p)
             dir     == fs.inodes[parent]
             cleared == FreeDirectoryEntry(fs, dir, n)
             node    == [fs.inodes[n] EXCEPT !.nlink = fs.inodes[n].nlink - 1]
             volume  == IF node.nlink = 0 THEN FreeInode(cleared, n)
                        ELSE WriteInodeToDisk(cleared, n, node)
  <2>1. n \in Offered /\ parent \in Offered
    BY <1>2, Reads DEF Unlinkable
  <2>2. dir \in Inode /\ ~ FreeDirectoryEntryFails(fs, dir, n) /\ Sound(fs)
    BY <1>2, <2>1, SoundInode DEF Unlinkable, IInv
  <2>3. ReplyWith(volume, parent)
    BY <1>2, Zenon DEF Unlinked
  <2>4. /\ fs.inodes[n] \in Inode /\ OneBlock(fs.inodes[n])
        /\ Fitting(fs, n, fs.inodes[n])
    BY <2>1, SoundInode
  <2> HIDE DEF n, parent, dir
  <2>5. node \in Inode /\ node.direct = fs.inodes[n].direct /\ node.type = fs.inodes[n].type
    BY <2>4 DEF Inode
  <2> HIDE DEF node
  <2>6. Sound(cleared) /\ cleared.inodes = fs.inodes /\ cleared.free = fs.free
    BY <2>2, FreeDirectoryEntrySound
  <2> HIDE DEF cleared
  <2>7. OneBlock(node) /\ Fitting(cleared, n, node)
    BY <2>4, <2>5, <2>6 DEF OneBlock, Fitting, Owns
  <2>8. Sound(volume) /\ volume.free \subseteq cleared.free \cup {0}
    <3>1. Sound(FreeInode(cleared, n)) /\ FreeInode(cleared, n).free \subseteq cleared.free \cup {0}
      BY <2>1, <2>6, FreeInodeSound
    <3>2. /\ Sound(WriteInodeToDisk(cleared, n, node))
          /\ WriteInodeToDisk(cleared, n, node).free = cleared.free
      BY <2>1, <2>5, <2>6, <2>7, WriteInodeSound
    <3> QED
      BY <3>1, <3>2
  <2> HIDE DEF volume
  <2> QED
    BY <2>1, <2>3, <2>6, <2>8, Replies
<1> QED
  BY <1>1, <1>2 DEF Unlink

----------------------------------------------------------------------------
(* RMDIR: the entry that the lookup found is still there when the inode has *)
(* been freed, so clearing it never fails.                                  *)

(* RMDIR finds the entry of the directory it has just freed: it looks in    *)
(* the copy of the parent read before.                                      *)
LEMMA EntryStillThere ==
  ASSUME IInv, NEW c \in Clients, NEW p \in Paths, Removable(c, p)
  PROVE  ~ FreeDirectoryEntryFails(Removed(c, p), fs.inodes[Parent(c, p)], Match(c, p))
<1> DEFINE node == fs.inodes[Parent(c, p)]
           name == LastName(p)
           n    == Match(c, p)
           w    == Removed(c, p)
<1>1. IsDirectory(Parent(c, p)) /\ n \in Offered /\ n # ERROR
  BY Reads, LayoutFacts DEF Removable, Match, IsDirectory
<1>2. n = FindDirectoryEntry(fs, node, name)
  BY <1>1 DEF Match
<1>3. node \in Inode /\ node.type = INODE_DIRECTORY /\ name \in Names /\ fs \in Volume /\ Sound(fs)
  BY <1>1, Reads, SoundInode DEF IsDirectory, GetInodeType, IInv, Sound
<1>4. w.blocks = fs.blocks
  <2>1. w = FreeInode(fs, n)
    BY DEF Removed
  <2> HIDE DEF w, n
  <2> QED
    BY <1>1, <1>3, <2>1, FreeInodeSound
<1> HIDE DEF node, name, n, w
<1>5. PICK i \in Named(fs, node, name) : EntryAt(fs, node, i).inum = n
  BY <1>1, <1>2, <1>3, FindDirectoryEntryTypes
<1>6. i \in 0 .. node.size - 1 /\ EntryAt(fs, node, i).inum # 0
  BY <1>5 DEF Named, Held
<1>7. EntryAt(w, node, i) = EntryAt(fs, node, i)
  BY <1>4 DEF EntryAt
<1>8. i \in Numbered(w, node, n)
  BY <1>5, <1>6, <1>7 DEF Numbered, Held
<1> QED
  BY <1>3, <1>8 DEF FreeDirectoryEntryFails, node, n, w

LEMMA RmDirStep ==
  ASSUME IInv, NEW c \in Clients, NEW p \in Paths, RmDir(c, p)
  PROVE  IInv' /\ Effect
<1>1. CASE ~ Removable(c, p) /\ ReplyError
  BY <1>1, Replies
<1>2. CASE Removable(c, p)
  <2> DEFINE parent  == fs.inodes[Parent(c, p)]
             n       == Match(c, p)
             removed == Removed(c, p)
             volume  == FreeDirectoryEntry(removed, parent, n)
  <2>1. ~ FreeDirectoryEntryFails(removed, parent, n)
    BY <1>2, EntryStillThere
  <2>2. ReplyWith(volume, 0)
    BY <1>2, <2>1 DEF RmDir
  <2>3. n \in Offered /\ Parent(c, p) \in Offered
    BY <1>2, Reads DEF Removable, Match, IsDirectory
  <2>4. parent \in Inode
    BY <2>3, SoundInode
  <2>5. removed = FreeInode(fs, n)
    BY DEF Removed
  <2> HIDE DEF parent, n, removed
  <2>6. Sound(removed) /\ removed.free \subseteq fs.free \cup {0}
    BY <2>3, <2>5, FreeInodeSound DEF IInv
  <2>7. Sound(volume) /\ volume.free = removed.free
    BY <2>1, <2>4, <2>6, FreeDirectoryEntrySound
  <2> HIDE DEF volume
  <2> QED
    BY <2>2, <2>6, <2>7, Replies
<1> QED
  BY <1>1, <1>2 DEF RmDir

----------------------------------------------------------------------------
(* The requests that leave the volume alone, and the server's start.        *)

LEMMA ReadOnlyStep ==
  ASSUME IInv, NEW c \in Clients, NEW p \in Paths,
         ChDir(c, p) \/ Open(c, p) \/ Stat(c, p)
  PROVE  IInv' /\ Effect
<1>1. CASE ChDir(c, p)
  <2>1. CASE ~ IsDirectory(Target(c, p))
    BY <1>1, <2>1, Replies DEF ChDir
  <2>2. CASE IsDirectory(Target(c, p))
    <3>1. Target(c, p) \in Offered
      BY <2>2, Reads DEF IsDirectory
    <3>2. /\ cwd' = [cwd EXCEPT ![c] = Target(c, p)] /\ reply' = Target(c, p)
          /\ UNCHANGED <<fs, server, boots>>
      BY <1>1, <2>2 DEF ChDir
    <3> QED
      BY <3>1, <3>2, NotErmsg DEF IInv, Effect
  <2> QED
    BY <2>1, <2>2
<1>2. CASE Open(c, p) \/ Stat(c, p)
  <2>1. CASE Target(c, p) = ERROR /\ ReplyError
    BY <2>1, Replies
  <2>2. CASE Target(c, p) # ERROR /\ ReplyWith(fs, Target(c, p))
    <3>1. Target(c, p) \in Offered
      BY <2>2, Reads
    <3> QED
      BY <2>2, <3>1, Replies DEF IInv
  <2> QED
    BY <1>2, <2>1, <2>2 DEF Open, Stat, Lookup
<1> QED
  BY <1>1, <1>2

LEMMA ShutdownStep ==
  ASSUME IInv, Shutdown
  PROVE  IInv' /\ Effect
BY NotErmsg DEF IInv, Shutdown, Effect, ERMSG

LEMMA RebootStep ==
  ASSUME IInv, Reboot
  PROVE  IInv' /\ Effect
<1>a. PICK slotFree \in BOOLEAN, stray \in SUBSET Stray :
        \E looks \in InOrder(FreeLooks(fs.inodes, slotFree)) :
          fs' = Boot(fs.inodes, fs.blocks, slotFree, stray, looks)
  BY DEF Reboot
<1>1. PICK looks \in InOrder(FreeLooks(fs.inodes, slotFree)) :
        fs' = Boot(fs.inodes, fs.blocks, slotFree, stray, looks)
  BY <1>a
<1>2. DiskSound(fs.inodes) /\ fs.blocks \in [Blocks -> [Slots -> Entry]]
  BY SoundDisk DEF IInv, Sound, Volume
<1>3. Sound(fs')
  BY <1>1, <1>2, BootSound
<1>4. boots' \in 0 .. MaxBoots /\ boots' # boots
  BY ClientAssumption DEF IInv, Reboot
<1>5. cwd' \in [Clients -> Offered]
  BY LayoutFacts DEF Reboot
<1> QED
  BY <1>3, <1>4, <1>5 DEF IInv, Reboot, Effect, ERMSG

LEMMA InitSound == Init => IInv
<1> SUFFICES ASSUME Init PROVE IInv
  OBVIOUS
<1>a. PICK slotFree \in BOOLEAN, stray \in SUBSET Stray :
        \E looks \in InOrder(FreeLooks(FreshInodes, slotFree)) :
          fs = Boot(FreshInodes, FreshBlocks, slotFree, stray, looks)
  BY DEF Init
<1>1. PICK looks \in InOrder(FreeLooks(FreshInodes, slotFree)) :
        fs = Boot(FreshInodes, FreshBlocks, slotFree, stray, looks)
  BY <1>a
<1>2. Sound(fs)
  BY <1>1, FreshSound, BootSound
<1>3. cwd \in [Clients -> Offered]
  BY LayoutFacts DEF Init
<1>4. 0 \in 0 .. MaxBoots
  BY ClientAssumption
<1> QED
  BY <1>2, <1>3, <1>4 DEF IInv, Init

(* Every step keeps the invariant and has no other effect than Effect.      *)
LEMMA StepSound == IInv /\ [Next]_vars => IInv' /\ (Effect \/ UNCHANGED vars)
<1> SUFFICES ASSUME IInv, [Next]_vars
             PROVE  IInv' /\ (Effect \/ UNCHANGED vars)
  OBVIOUS
<1>1. CASE UNCHANGED vars
  BY <1>1 DEF IInv, vars
<1>2. ASSUME NEW c \in Clients, Request(c)
      PROVE  IInv' /\ Effect
  <2>1. ASSUME NEW p \in Paths, Create(c, p) \/ MkDir(c, p)
        PROVE  IInv' /\ Effect
    <3>1. ReplyError => IInv' /\ Effect
      BY Replies
    <3>2. \A type \in {INODE_DIRECTORY, INODE_REGULAR} : MakeNew(c, p, type) => IInv' /\ Effect
      BY MakeNewStep
    <3>3. CreateExisting(c, p) => IInv' /\ Effect
      BY CreateExistingStep
    <3> QED
      BY <2>1, <3>1, <3>2, <3>3 DEF Create, MkDir, CreateRefused, MkDirRefused
  <2>2. ASSUME NEW p \in Paths, Unlink(c, p)
        PROVE  IInv' /\ Effect
    BY <2>2, UnlinkStep
  <2>3. ASSUME NEW p \in Paths, RmDir(c, p)
        PROVE  IInv' /\ Effect
    BY <2>3, RmDirStep
  <2>4. ASSUME NEW p \in Paths, ChDir(c, p) \/ Open(c, p) \/ Stat(c, p)
        PROVE  IInv' /\ Effect
    BY <2>4, ReadOnlyStep
  <2>5. ASSUME NEW old \in Paths, NEW new \in Paths, Link(c, old, new)
        PROVE  IInv' /\ Effect
    BY <2>5, LinkStep
  <2> QED
    BY <1>2, <2>1, <2>2, <2>3, <2>4, <2>5, Zenon DEF Request
<1>3. CASE Shutdown
  BY <1>3, ShutdownStep
<1>4. CASE Reboot
  BY <1>4, RebootStep
<1> QED
  BY <1>1, <1>2, <1>3, <1>4 DEF Next

----------------------------------------------------------------------------
(* The invariant holds in every reachable state.                            *)
THEOREM Invariance == Spec => []IInv
<1>1. Init => IInv
  BY InitSound
<1>2. IInv /\ [Next]_vars => IInv'
  BY StepSound
<1> QED
  BY <1>1, <1>2, PTL DEF Spec

(* Every field of the volume, of the processes and of the replies keeps its *)
(* type, through every request and restart.                                 *)
THEOREM Typing == Spec => []TypeOK
<1>1. IInv => TypeOK
  BY DEF IInv, Sound, TypeOK
<1> QED
  BY <1>1, Invariance, PTL

(* numFreeBlocks never falls below the number of free blocks.               *)
THEOREM CounterCovers == Spec => []CounterCoversFree
<1>1. IInv => CounterCoversFree
  BY DEF IInv, Sound, Counted, CounterCoversFree
<1> QED
  BY <1>1, Invariance, PTL

(* No directory ever gets a second direct block.                            *)
THEOREM OneBlockOnly == Spec => []OneBlockEach
<1>1. IInv => OneBlockEach
  BY DEF IInv, Sound, OneBlock, OneBlockEach
<1> QED
  BY <1>1, Invariance, PTL

(* Exclusive data blocks are part of a sound volume.                        *)
LEMMA SoundExclusive == IInv => DataBlocksExclusive
<1> SUFFICES ASSUME IInv PROVE DataBlocksExclusive
  OBVIOUS
<1>1. Sound(fs)
  BY DEF IInv
<1>2. \A n \in Inodes : n \in Owners <=> Owns(fs.inodes[n])
  BY DEF Owners, Owns
<1>3. ASSUME NEW n \in Owners
      PROVE  /\ fs.inodes[n].direct[0] \notin fs.free \cup InodeBlocks
             /\ \A m \in Owners : m # n => fs.inodes[m].direct[0] # fs.inodes[n].direct[0]
  <2>1. n \in Inodes /\ Owners \subseteq Inodes
    BY DEF Owners
  <2>2. Fitting(fs, n, fs.inodes[n])
    BY <1>1, <2>1 DEF Sound
  <2> QED
    BY <1>2, <2>1, <2>2 DEF Fitting
<1>4. fs.free \cap InodeBlocks = {}
  BY <1>1 DEF Sound
<1> QED
  BY <1>3, <1>4 DEF DataBlocksExclusive

(* No two inodes in use ever own one data block, no owned block is on the   *)
(* free list, and no block of the inode table is either.                    *)
THEOREM ExclusiveBlocks == Spec => []DataBlocksExclusive
  BY SoundExclusive, Invariance, PTL

(* A request that is answered with an error has changed nothing.            *)
THEOREM ErrorsChangeNothing == Spec => ErrorChangesNothing
<1>1. IInv /\ [Next]_vars => [reply' = ERMSG => fs' = fs]_vars
  BY StepSound DEF Effect
<1> QED
  BY <1>1, Invariance, PTL DEF Spec, ErrorChangesNothing

(* Between restarts the boot block is the only one that becomes free again. *)
THEOREM BootBlockOnly == Spec => OnlyBootBlockReturned
<1>1. IInv /\ [Next]_vars => [boots' = boots => fs'.free \ fs.free \subseteq {0}]_vars
  BY StepSound DEF Effect
<1> QED
  BY <1>1, Invariance, PTL DEF Spec, OnlyBootBlockReturned
=============================================================================
