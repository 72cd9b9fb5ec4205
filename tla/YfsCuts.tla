------------------------------ MODULE YfsCuts ------------------------------
(***************************************************************************)
(* Yfs with the machine stopped in the middle of a request.  The disk      *)
(* writes whole sectors; a request that changes the volume writes several, *)
(* one after the other, and nothing tells the next server how far it came. *)
(* For each helper, ...Cuts is the set of volumes after each of its sector *)
(* writes, in the order of the code, the last one included.                *)
(***************************************************************************)
EXTENDS Yfs

(* addNewEmptyBlock: findFreeBlock zeroes each block it takes, then the     *)
(* pointer is written.                                                      *)
GrowCuts(v, node, index) ==
  LET first  == FindFreeBlock(v).fs
      second == FindFreeBlock(first).fs
  IN {AddNewEmptyBlock(v, node, index).fs, first} \cup
     (IF index >= NumDirect /\ node.indirect = 0 THEN {second} ELSE {})

(* writeDirectoryToInode: growth, the sector with the entry, the inode.     *)
EntryCuts(v, node, n, inum, name) ==
  LET slot    == node.size % EntriesPerBlock
      sector  == node.direct[node.size \div EntriesPerBlock]
      content == [v.blocks[sector] EXCEPT ![slot] = [inum |-> inum, name |-> name]]
      sized   == [node EXCEPT !.size = @ + 1]
      full    == sized.size % EntriesPerBlock = 0
      grown   == IF full THEN AddNewEmptyBlock(v, sized, slot + 1).fs ELSE v
  IN {[grown EXCEPT !.blocks = [@ EXCEPT ![sector] = content]],
      WriteDirectoryToInode(v, node, n, inum, name).fs}
     \cup (IF full THEN GrowCuts(v, sized, slot + 1) ELSE {})

(* setNewInode: the zeroed block, "." and "..".                             *)
NewInodeCuts(v, n, type, parent) ==
  LET got  == FindFreeBlock(v)
      node == [v.inodes[n] EXCEPT !.type = type, !.nlink = 1, !.reuse = 0, !.size = 0,
                                  !.direct = [@ EXCEPT ![0] = got.block]]
      self == WriteDirectoryToInode(got.fs, node, n, n, Dot)
  IN IF got.block = ERROR THEN {}
     ELSE {got.fs} \cup EntryCuts(got.fs, node, n, n, Dot)
                   \cup EntryCuts(self.fs, self.node, n, parent, DotDot)

----------------------------------------------------------------------------
(* The requests that write, as the volumes they pass through and the one    *)
(* they end with.                                                           *)

(* Mutated: the entry is written before the inode it names.                 *)
MakeNewCutsEntryFirst(c, p, type) ==
  EntryCuts(GetFreeInode(fs), fs.inodes[Parent(c, p)], Parent(c, p), Head(fs.nodes), LastName(p))

MakeNewCuts(c, p, type) ==
  LET n == Head(fs.nodes)
      taken == GetFreeInode(fs)
  IN NewInodeCuts(taken, n, type, Parent(c, p)) \cup
     EntryCuts(SetNewInode(taken, n, type, Parent(c, p)), fs.inodes[Parent(c, p)],
               Parent(c, p), n, LastName(p))

MakingNew(c) ==
  {[cuts |-> MakeNewCuts(c, p, type), done |-> NewFile(c, p, type)] :
     p \in {q \in Paths : /\ IsDirectory(Parent(c, q)) /\ Match(c, q) = ERROR
                          /\ Fits(fs.inodes[Parent(c, q)]) /\ ~ GetFreeInodeFails(fs)},
     type \in {INODE_REGULAR, INODE_DIRECTORY}}

Truncating(c) ==
  {[cuts |-> {ResetInodeSize(fs, Match(c, p))} \cup
             EntryCuts(ResetInodeSize(fs, Match(c, p)), fs.inodes[Parent(c, p)], Parent(c, p),
                       Match(c, p), LastName(p)),
    done |-> Truncated(c, p)] :
     p \in {q \in Paths : /\ Match(c, q) # ERROR
                          /\ GetInodeType(fs, Match(c, q)) = INODE_REGULAR
                          /\ Fits(fs.inodes[Parent(c, q)])}}

Linking(c) ==
  {[cuts |-> EntryCuts(fs, fs.inodes[Parent(c, pp[2])], Parent(c, pp[2]), Target(c, pp[1]),
                       LastName(pp[2])),
    done |-> Linked(c, pp[1], pp[2])] :
     pp \in {qq \in Paths \X Paths : /\ Linkable(c, qq[1], qq[2])
                                     /\ Fits(fs.inodes[Parent(c, qq[2])])
                                     /\ RoomToLink(Target(c, qq[1]))}}

(* Mutated: the inode is freed before the entry is cleared.                 *)
UnlinkCutsInodeFirst(c, p) ==
  LET node == [fs.inodes[Target(c, p)] EXCEPT !.nlink = @ - 1]
  IN {IF node.nlink = 0 THEN FreeInode(fs, Target(c, p))
                        ELSE WriteInodeToDisk(fs, Target(c, p), node)}

(* UNLINK clears the entry and then writes the inode.                       *)
UnlinkCuts(c, p) == {FreeDirectoryEntry(fs, fs.inodes[Parent(c, p)], Target(c, p))}

Unlinking(c) ==
  {[cuts |-> UnlinkCuts(c, p), done |-> Unlinked(c, p)] :
     p \in {q \in Paths : Unlinkable(c, q) /\ RoomToFree /\ RoomToUnlink(Target(c, q))}}

(* RMDIR writes the freed inode and then clears the entry.                  *)
Removing(c) ==
  {[cuts |-> {Removed(c, p)},
    done |-> FreeDirectoryEntry(Removed(c, p), fs.inodes[Parent(c, p)], Match(c, p))] :
     p \in {q \in Paths : Removable(c, q) /\ RoomToFree}}

NameChanging(c) == MakingNew(c) \cup Truncating(c) \cup Linking(c) \cup Unlinking(c)
Pending(c) == NameChanging(c) \cup Removing(c)

PowerCut(c) ==
  /\ Serving
  /\ \E request \in Pending(c) : fs' \in request.cuts
  /\ server' = "crashed"
  /\ UNCHANGED <<cwd, reply, boots>>

CutsNext == Next \/ \E c \in Clients : PowerCut(c)

CutsSpec == Init /\ [][CutsNext]_vars

----------------------------------------------------------------------------
(* The places that a size covers: slot i of direct[] of an inode in use, as *)
(* far as the next append would go, which markUsed takes as used, too.      *)
InUse == {n \in Inodes : GetInodeType(fs, n) # INODE_FREE}
Uses  == {u \in InUse \X Directs : u[2] <= fs.inodes[u[1]].size \div EntriesPerBlock}
BlockOf(u) == fs.inodes[u[1]].direct[u[2]]

(* A volume without the damage of the requests that are known to leave some *)
(* (CREATE of an existing name, LINK into a file, RMDIR of the root or of   *)
(* another's directory, directories that outgrow their block, a freed block *)
(* 0, indirect blocks handed out after a restart): a name leads to one      *)
(* inode, which is in use like those where the paths start, and no block    *)
(* that is in use has a second use or can be handed out.                    *)
NamesSound ==
  \A n \in Inodes : GetInodeType(fs, n) = INODE_DIRECTORY =>
    \A i, j \in Held(fs, fs.inodes[n]) :
      LET e == EntryAt(fs, fs.inodes[n], i)
          f == EntryAt(fs, fs.inodes[n], j)
      IN e.name \in Names => /\ e.inum \in InUse
                             /\ f.name = e.name => f.inum = e.inum

BlocksSound ==
  /\ \A u \in Uses : BlockOf(u) \notin fs.free
  /\ \A u, w \in Uses : BlockOf(u) = BlockOf(w) => u = w
  /\ \A u \in Uses, n \in InUse : fs.inodes[n].indirect # 0 => BlockOf(u) # fs.inodes[n].indirect

Undamaged ==
  /\ NamesSound /\ BlocksSound
  /\ \A i \in DOMAIN fs.nodes : fs.nodes[i] \notin InUse
  /\ ROOTINODE \in InUse /\ \A c \in Clients : cwd[c] \in InUse

(* Wherever the power goes, every path shows what it showed before the      *)
(* request or what it would have shown after it: the same inode, of the     *)
(* same type.  RMDIR is the exception: it frees the inode first, so that in *)
(* between the path leads to a free one.                                    *)
Shown(v, p) ==
  LET n == CheckPath(v, p, ROOTINODE)
  IN <<n, IF n = ERROR THEN INODE_FREE ELSE GetInodeType(v, n)>>

PathsAtomic ==
  Serving /\ Undamaged => \A c \in Clients : \A p \in Paths :
    /\ \A request \in NameChanging(c) : \A v \in request.cuts :
         Shown(v, p) \in {Shown(fs, p), Shown(request.done, p)}
    /\ \A request \in Removing(c) : \A v \in request.cuts :
         Shown(v, p) \in {Shown(fs, p), Shown(request.done, p),
                          <<CheckPath(fs, p, ROOTINODE), INODE_FREE>>}

(* What a path newly leads to is a whole file: a cut CREATE or MKDIR shows  *)
(* its name only with the inode and its two entries on the disk, unless     *)
(* there was no block for them.                                             *)
NewNamesWhole ==
  Serving /\ Undamaged =>
    \A c \in Clients : \A request \in MakingNew(c) : \A v \in request.cuts, p \in Paths :
      LET n == CheckPath(v, p, ROOTINODE) IN
      /\ CheckPath(fs, p, ROOTINODE) = ERROR /\ n = Head(fs.nodes)
      /\ FindFreeBlock(fs).block # ERROR
      => /\ v.inodes[n] = request.done.inodes[n]
         /\ v.blocks[v.inodes[n].direct[0]] = request.done.blocks[v.inodes[n].direct[0]]

=============================================================================
