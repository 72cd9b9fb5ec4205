------------------------------- MODULE YfsDir -------------------------------
(***************************************************************************)
(* Directories and path names over a volume of YfsDisk: the entries of a   *)
(* directory, findDirectoryEntry, freeDirectoryEntry, checkEmpty,          *)
(* writeDirectoryToInode, setNewInode, findParent and checkPath.           *)
(*                                                                         *)
(* A path is a record: abs tells whether it starts with '/', toks are its  *)
(* names between slashes, slash tells whether it ends with one.            *)
(***************************************************************************)
EXTENDS YfsDisk

Path == [abs : BOOLEAN, toks : Seq(Names \ {NoName}), slash : BOOLEAN]

(* Entry number i of the directory whose inode, as the caller read it, is  *)
(* node.  The caller's copy is used for the size and the block numbers and *)
(* the disk for the contents, as in the code.                              *)
EntryAt(fs, node, i) ==
  fs.blocks[node.direct[i \div EntriesPerBlock]][i % EntriesPerBlock]

(* The entries a scan stops at: those of a free entry (FREEFILE) are passed. *)
Held(fs, node) == {i \in 0 .. node.size - 1 : EntryAt(fs, node, i).inum # 0}

Named(fs, node, name) == {i \in Held(fs, node) : EntryAt(fs, node, i).name = name}
Numbered(fs, node, n) == {i \in Held(fs, node) : EntryAt(fs, node, i).inum = n}

FindDirectoryEntry(fs, node, name) ==
  IF node.type = INODE_DIRECTORY /\ Named(fs, node, name) # {}
  THEN EntryAt(fs, node, First(Named(fs, node, name))).inum
  ELSE ERROR

(* Clears the first entry that holds inode n, whatever its name.  A cleared *)
(* entry keeps its name on the disk, where nothing reads it again.          *)
FreeDirectoryEntryFails(fs, node, n) ==
  node.type # INODE_DIRECTORY \/ Numbered(fs, node, n) = {}

FreeDirectoryEntry(fs, node, n) ==
  LET i       == First(Numbered(fs, node, n))
      sector  == node.direct[i \div EntriesPerBlock]
      content == [fs.blocks[sector] EXCEPT ![i % EntriesPerBlock] = NoEntry]
  IN [fs EXCEPT !.blocks = [@ EXCEPT ![sector] = content]]

CheckEmpty(fs, n) ==
  LET node == fs.inodes[n] IN
  \/ node.size = 2
  \/ \A i \in Held(fs, node) : EntryAt(fs, node, i).name \in {Dot, DotDot}

(* Mutated: the new block goes where the size says, into direct[].          *)
WriteDirectoryToInodeAtBlock(fs, node, n, inum, name) ==
  LET slot    == node.size % EntriesPerBlock
      sector  == node.direct[node.size \div EntriesPerBlock]
      content == [fs.blocks[sector] EXCEPT ![slot] = [inum |-> inum, name |-> name]]
      sized   == [node EXCEPT !.size = @ + 1]
      grown   == IF sized.size % EntriesPerBlock = 0
                 THEN AddNewEmptyBlock(fs, sized, sized.size \div EntriesPerBlock)
                 ELSE [fs |-> fs, node |-> sized]
  IN [fs   |-> WriteInodeToDisk([grown.fs EXCEPT !.blocks = [@ EXCEPT ![sector] = content]], n, grown.node),
      node |-> grown.node]

(* Mutated: the sector is not read before the entry is put into the buffer. *)
WriteDirectoryToInodeBlind(fs, node, n, inum, name) ==
  LET slot    == node.size % EntriesPerBlock
      sector  == node.direct[node.size \div EntriesPerBlock]
      content == [EmptyBlock EXCEPT ![slot] = [inum |-> inum, name |-> name]]
      sized   == [node EXCEPT !.size = @ + 1]
      grown   == IF sized.size % EntriesPerBlock = 0
                 THEN AddNewEmptyBlock(fs, sized, slot + 1)
                 ELSE [fs |-> fs, node |-> sized]
  IN [fs   |-> WriteInodeToDisk([grown.fs EXCEPT !.blocks = [@ EXCEPT ![sector] = content]], n, grown.node),
      node |-> grown.node]

(* Appends an entry to node and writes node as inode n.  The sector was     *)
(* read before the directory grows and is written after it, so the sector's *)
(* own contents win over anything written to the same block in between.     *)
WriteDirectoryToInode(fs, node, n, inum, name) ==
  LET slot    == node.size % EntriesPerBlock
      sector  == node.direct[node.size \div EntriesPerBlock]
      content == [fs.blocks[sector] EXCEPT ![slot] = [inum |-> inum, name |-> name]]
      sized   == [node EXCEPT !.size = @ + 1]
      grown   == IF sized.size % EntriesPerBlock = 0
                 THEN AddNewEmptyBlock(fs, sized, slot + 1)
                 ELSE [fs |-> fs, node |-> sized]
  IN [fs   |-> WriteInodeToDisk([grown.fs EXCEPT !.blocks = [@ EXCEPT ![sector] = content]], n, grown.node),
      node |-> grown.node]

(* Starts inode n as a file of one link with "." and ".." in a new block,   *)
(* whatever the type; with no free block it stops before it writes.  The    *)
(* closing WriteSector puts back the inode that the calls above just wrote. *)
SetNewInode(fs, n, type, parent) ==
  LET got  == FindFreeBlock(fs)
      node == [fs.inodes[n] EXCEPT !.type = type, !.nlink = 1, !.reuse = 0, !.size = 0,
                                   !.direct = [@ EXCEPT ![0] = got.block]]
      self == WriteDirectoryToInode(got.fs, node, n, n, Dot)
  IN IF got.block = ERROR THEN got.fs
     ELSE WriteDirectoryToInode(self.fs, self.node, n, parent, DotDot).fs

----------------------------------------------------------------------------
(* Path names. *)

LastName(p) == IF p.slash \/ p.toks = << >> THEN NoName ELSE p.toks[Len(p.toks)]

Start(p, dir) == IF p.abs THEN ROOTINODE ELSE dir

(* The walks through all names but the last, each step a successful lookup; *)
(* there is at most one.                                                    *)
Walks(fs, p, dir) ==
  LET from(w, i) == IF i = 1 THEN Start(p, dir) ELSE w[i - 1]
  IN {w \in [1 .. Len(p.toks) - 1 -> Offered] :
        \A i \in 1 .. Len(p.toks) - 1 :
          w[i] = FindDirectoryEntry(fs, fs.inodes[from(w, i)], p.toks[i])}

FindParent(fs, p, dir) ==
  IF Len(p.toks) <= 1 THEN Start(p, dir)
  ELSE IF Walks(fs, p, dir) = {} THEN ERROR
  ELSE (CHOOSE w \in Walks(fs, p, dir) : TRUE)[Len(p.toks) - 1]

JustName(p, name) == p = [abs |-> FALSE, toks |-> <<name>>, slash |-> FALSE]

CheckPath(fs, p, dir) ==
  IF JustName(p, Dot) THEN dir
  ELSE IF JustName(p, DotDot) THEN FindDirectoryEntry(fs, fs.inodes[dir], DotDot)
  ELSE LET parent == FindParent(fs, p, dir) IN
       IF parent = ERROR THEN ERROR
       ELSE FindDirectoryEntry(fs, fs.inodes[parent], LastName(p))
=============================================================================
