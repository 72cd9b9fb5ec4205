-------------------------------- MODULE Yfs --------------------------------
(***************************************************************************)
(* The name-space requests of the file server yfs.c and the processes that *)
(* send them.  The server receives one message at a time, runs its handler *)
(* to the end and replies; the sender is blocked in Send until then.  One  *)
(* action is therefore one request: the guard is what the handler checks,  *)
(* the volume after it is what its helpers left on the disk and in memory. *)
(***************************************************************************)
EXTENDS YfsDir

CONSTANTS
  Clients,   \* the processes using the library
  Paths,     \* the path names they pass
  Stray,     \* blocks that heap bytes after init()'s sector buffer may name
  MaxBoots,  \* bound: how often the server is started again
  MaxLinks,  \* bound: how far a link count may go from 0
  MaxQueue   \* bound: how long the queue of free inodes may get

ERMSG == -2

ASSUME ClientAssumption ==
  /\ Paths \subseteq Path /\ \A p \in Paths : LastName(p) \in Names
  /\ Stray \subseteq Blocks
  /\ {MaxBoots, MaxLinks, MaxQueue} \subseteq Nat

VARIABLES
  fs,      \* the volume: the disk, and the free lists in memory
  server,  \* "running", "down" after SHUTDOWN, "crashed" after a bad access
  cwd,     \* each process's current_directory
  reply,   \* the data field of the last reply
  boots    \* how often the server was started again

vars == <<fs, server, cwd, reply, boots>>

Init ==
  \E slotFree \in BOOLEAN, stray \in SUBSET Stray :
  \E looks \in InOrder(FreeLooks(FreshInodes, slotFree)) :
    /\ fs = Boot(FreshInodes, FreshBlocks, slotFree, stray, looks)
    /\ server = "running"
    /\ cwd = [c \in Clients |-> ROOTINODE]
    /\ reply = 0
    /\ boots = 0

----------------------------------------------------------------------------
(* How a handler ends. *)

ReplyError ==
  /\ reply' = ERMSG
  /\ UNCHANGED <<fs, server, cwd, boots>>

ReplyWith(volume, data) ==
  /\ fs' = volume
  /\ reply' = data
  /\ UNCHANGED <<server, cwd, boots>>

Crash ==
  /\ server' = "crashed"
  /\ UNCHANGED <<fs, cwd, reply, boots>>

(* The bounds.  A request that would go over one is not taken.              *)
Fits(node)       == node.size < MaxSize
RoomToFree       == Len(fs.nodes) < MaxQueue
RoomToLink(n)    == fs.inodes[n].nlink < MaxLinks
RoomToUnlink(n)  == fs.inodes[n].nlink > - MaxLinks

Serving == server = "running"
IsDirectory(n) == n # ERROR /\ GetInodeType(fs, n) = INODE_DIRECTORY
Parent(c, p) == FindParent(fs, p, cwd[c])
Target(c, p) == CheckPath(fs, p, cwd[c])
Match(c, p) ==
  IF IsDirectory(Parent(c, p)) THEN FindDirectoryEntry(fs, fs.inodes[Parent(c, p)], LastName(p))
  ELSE ERROR

----------------------------------------------------------------------------
(* CREATE and MKDIR.  The parent's inode is read before anything is written *)
(* and written back from that copy at the end.                              *)

AddEntry(volume, node, c, p, n) ==
  LET added == WriteDirectoryToInode(volume, node, Parent(c, p), n, LastName(p))
  IN WriteInodeToDisk(added.fs, Parent(c, p), added.node)

NewFile(c, p, type) ==
  AddEntry(SetNewInode(GetFreeInode(fs), Head(fs.nodes), type, Parent(c, p)),
           fs.inodes[Parent(c, p)], c, p, Head(fs.nodes))

(* The common end of both handlers when the name is not there yet.          *)
MakeNew(c, p, type) ==
  /\ IsDirectory(Parent(c, p))
  /\ Match(c, p) = ERROR
  /\ Fits(fs.inodes[Parent(c, p)])
  /\ \/ GetFreeInodeFails(fs) /\ Crash
     \/ ~ GetFreeInodeFails(fs) /\ ReplyWith(NewFile(c, p, type), Head(fs.nodes))

(* A name that is there already and is a regular file: the file is cut to   *)
(* size 0, and the entry is written once more.                              *)
Truncated(c, p) ==
  AddEntry(ResetInodeSize(fs, Match(c, p)), fs.inodes[Parent(c, p)], c, p, Match(c, p))

CreateExisting(c, p) ==
  /\ Match(c, p) # ERROR
  /\ GetInodeType(fs, Match(c, p)) = INODE_REGULAR
  /\ Fits(fs.inodes[Parent(c, p)])
  /\ ReplyWith(Truncated(c, p), Match(c, p))

CreateRefused(c, p) ==
  /\ IsDirectory(Parent(c, p)) => /\ Match(c, p) # ERROR
                                  /\ GetInodeType(fs, Match(c, p)) # INODE_REGULAR
  /\ ReplyError

Create(c, p) ==
  /\ Serving
  /\ \/ MakeNew(c, p, INODE_REGULAR)
     \/ CreateExisting(c, p)
     \/ CreateRefused(c, p)

MkDirRefused(c, p) ==
  /\ IsDirectory(Parent(c, p)) => Match(c, p) # ERROR
  /\ ReplyError

MkDir(c, p) ==
  /\ Serving
  /\ \/ MakeNew(c, p, INODE_DIRECTORY)
     \/ MkDirRefused(c, p)

----------------------------------------------------------------------------
(* LINK: the new entry is written first, into whatever inode the walk ended *)
(* at, and the link count of the old file after it.                         *)

Linkable(c, old, new) ==
  /\ Target(c, old) # ERROR
  /\ ~ IsDirectory(Target(c, old))
  /\ Target(c, new) = ERROR
  /\ Parent(c, new) # ERROR

Linked(c, old, new) ==
  LET n == Target(c, old)
      parent == Parent(c, new)
      added == WriteDirectoryToInode(fs, fs.inodes[parent], parent, n, LastName(new)).fs
  IN WriteInodeToDisk(added, n, [added.inodes[n] EXCEPT !.nlink = @ + 1])

Link(c, old, new) ==
  /\ Serving
  /\ \/ ~ Linkable(c, old, new) /\ ReplyError
     \/ /\ Linkable(c, old, new)
        /\ Fits(fs.inodes[Parent(c, new)])
        /\ RoomToLink(Target(c, old))
        /\ ReplyWith(Linked(c, old, new), Target(c, old))

(* UNLINK: the entry to clear is looked for by inode number.               *)

Unlinkable(c, p) ==
  /\ Target(c, p) # ERROR
  /\ ~ IsDirectory(Target(c, p))
  /\ Parent(c, p) # ERROR
  /\ ~ FreeDirectoryEntryFails(fs, fs.inodes[Parent(c, p)], Target(c, p))

Unlinked(c, p) ==
  LET n == Target(c, p)
      cleared == FreeDirectoryEntry(fs, fs.inodes[Parent(c, p)], n)
      node == [fs.inodes[n] EXCEPT !.nlink = @ - 1]
  IN IF node.nlink = 0 THEN FreeInode(cleared, n) ELSE WriteInodeToDisk(cleared, n, node)

Unlink(c, p) ==
  /\ Serving
  /\ \/ ~ Unlinkable(c, p) /\ ReplyError
     \/ /\ Unlinkable(c, p)
        /\ RoomToFree
        /\ RoomToUnlink(Target(c, p))
        /\ ReplyWith(Unlinked(c, p), Parent(c, p))

----------------------------------------------------------------------------
(* RMDIR: the inode is freed before the parent's entry is looked for, in    *)
(* the copy of the parent's inode read before.                              *)

Removable(c, p) ==
  /\ ~ JustName(p, Dot) /\ ~ JustName(p, DotDot)
  /\ Target(c, p) # cwd[c]
  /\ IsDirectory(Match(c, p))
  /\ CheckEmpty(fs, Match(c, p))

Removed(c, p) == FreeInode(fs, Match(c, p))

(* Mutated: the parent's inode is read again after the child is freed.      *)
RmDirReread(c, p) ==
  /\ Serving
  /\ \/ ~ Removable(c, p) /\ ReplyError
     \/ /\ Removable(c, p)
        /\ RoomToFree
        /\ LET parent == Removed(c, p).inodes[Parent(c, p)]
               n == Match(c, p)
           IN IF FreeDirectoryEntryFails(Removed(c, p), parent, n)
              THEN fs' = Removed(c, p) /\ reply' = ERMSG /\ UNCHANGED <<server, cwd, boots>>
              ELSE ReplyWith(FreeDirectoryEntry(Removed(c, p), parent, n), 0)

RmDir(c, p) ==
  /\ Serving
  /\ \/ ~ Removable(c, p) /\ ReplyError
     \/ /\ Removable(c, p)
        /\ RoomToFree
        /\ LET parent == fs.inodes[Parent(c, p)]
               n == Match(c, p)
           IN IF FreeDirectoryEntryFails(Removed(c, p), parent, n)
              THEN fs' = Removed(c, p) /\ reply' = ERMSG /\ UNCHANGED <<server, cwd, boots>>
              ELSE ReplyWith(FreeDirectoryEntry(Removed(c, p), parent, n), 0)

----------------------------------------------------------------------------
(* Requests that change nothing on the volume. *)

ChDir(c, p) ==
  LET n == Target(c, p) IN
  /\ Serving
  /\ IF IsDirectory(n)
     THEN cwd' = [cwd EXCEPT ![c] = n] /\ reply' = n /\ UNCHANGED <<fs, server, boots>>
     ELSE ReplyError

Lookup(c, p) ==
  IF Target(c, p) = ERROR THEN ReplyError ELSE ReplyWith(fs, Target(c, p))

Open(c, p) == Serving /\ Lookup(c, p)

(* STAT also copies four fields of the inode into the message. *)
Stat(c, p) == Serving /\ Lookup(c, p)

Shutdown ==
  /\ Serving
  /\ server' = "down" /\ reply' = 0
  /\ UNCHANGED <<fs, cwd, boots>>

(* A new server over the same disk, and new processes.                      *)
Reboot ==
  /\ ~ Serving
  /\ boots < MaxBoots
  /\ \E slotFree \in BOOLEAN, stray \in SUBSET Stray :
     \E looks \in InOrder(FreeLooks(fs.inodes, slotFree)) :
       fs' = Boot(fs.inodes, fs.blocks, slotFree, stray, looks)
  /\ server' = "running"
  /\ cwd' = [c \in Clients |-> ROOTINODE]
  /\ reply' = 0
  /\ boots' = boots + 1

Request(c) ==
  \/ \E p \in Paths :
       \/ Create(c, p) \/ MkDir(c, p) \/ Unlink(c, p) \/ RmDir(c, p)
       \/ ChDir(c, p) \/ Open(c, p) \/ Stat(c, p)
  \/ \E old, new \in Paths : Link(c, old, new)

Next ==
  \/ \E c \in Clients : Request(c)
  \/ Shutdown
  \/ Reboot

Spec == Init /\ [][Next]_vars

----------------------------------------------------------------------------
(* Every field holds what its C type and the layout allow; inode numbers in *)
(* entries, queues and processes are ones init() can offer.                 *)
TypeOK ==
  /\ fs \in Volume
  /\ server \in {"running", "down", "crashed"}
  /\ cwd \in [Clients -> Offered]
  /\ reply \in Offered \cup {0, ERMSG}
  /\ boots \in 0 .. MaxBoots

(* numFreeBlocks never falls below the number of free blocks, so that       *)
(* findFreeBlock's test for 0 never refuses a block that is there.          *)
CounterCoversFree == fs.nfree >= Cardinality(fs.free)

(* The inodes in use that own a block other than the boot block.            *)
Owners == {n \in Inodes : fs.inodes[n].type # INODE_FREE /\ fs.inodes[n].direct[0] # 0}

(* Through every mix of requests and restarts, no two inodes in use have    *)
(* the same data block, none of these blocks can be handed out again, and   *)
(* no block of the inode table is ever one of them.                         *)
DataBlocksExclusive ==
  /\ \A m, n \in Owners : m # n => fs.inodes[m].direct[0] # fs.inodes[n].direct[0]
  /\ \A n \in Owners : fs.inodes[n].direct[0] \notin fs.free \cup InodeBlocks
  /\ fs.free \cap InodeBlocks = {}

(* A directory that outgrows its first block never gets a second direct     *)
(* block: writeDirectoryToInode asks for index EntriesPerBlock.             *)
OneBlockEach == \A n \in Inodes : \A i \in Directs \ {0} : fs.inodes[n].direct[i] = 0

(* Until the server is first restarted, no block has two users at all:      *)
(* data and indirect blocks, those that free inodes still name included,    *)
(* are pairwise different and cannot be handed out.                         *)
BlocksNamedBy(n) == {fs.inodes[n].direct[0], fs.inodes[n].indirect} \ {0, ERROR}

SessionExclusive ==
  boots = 0 =>
    \A n \in Inodes :
      /\ fs.inodes[n].direct[0] # 0 => fs.inodes[n].direct[0] # fs.inodes[n].indirect
      /\ BlocksNamedBy(n) \cap (fs.free \cup InodeBlocks) = {}
      /\ \A m \in Inodes \ {n} : BlocksNamedBy(m) \cap BlocksNamedBy(n) = {}

(* Until the server is first restarted, a directory that stays where it is  *)
(* does not shrink, and one request changes at most one of the entries that *)
(* such directories hold, by clearing it: appending, growing and truncating *)
(* disturb none.                                                            *)
StaysDirectory(n) ==
  /\ fs.inodes[n].type = INODE_DIRECTORY /\ fs'.inodes[n].type = INODE_DIRECTORY
  /\ fs.inodes[n].direct[0] # 0
  /\ fs'.inodes[n].direct[0] = fs.inodes[n].direct[0]

ChangedEntries ==
  {e \in Inodes \X Slots :
     LET b == fs.inodes[e[1]].direct[0] IN
     /\ StaysDirectory(e[1])
     /\ e[2] < fs.inodes[e[1]].size
     /\ fs'.blocks[b][e[2]] # fs.blocks[b][e[2]]}

EntriesKept ==
  [][boots' = 0 =>
       /\ \A n \in Inodes : StaysDirectory(n) => fs'.inodes[n].size >= fs.inodes[n].size
       /\ \A e, f \in ChangedEntries : e = f
       /\ \A e \in ChangedEntries : fs'.blocks[fs.inodes[e[1]].direct[0]][e[2]] = NoEntry]_vars

(* A request that is answered with an error has changed nothing, whatever   *)
(* it did before it failed (rmDirHandler frees the inode first).            *)
ErrorChangesNothing == [][reply' = ERMSG => fs' = fs]_vars

(* Between restarts the only block that ever becomes free again is the boot *)
(* block: prepFree gives back indices, and the only index in use is 0.      *)
OnlyBootBlockReturned == [][boots' = boots => fs'.free \ fs.free \subseteq {0}]_vars
=============================================================================
