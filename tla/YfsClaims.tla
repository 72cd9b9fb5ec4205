----------------------------- MODULE YfsClaims -----------------------------
(***************************************************************************)
(* What the comments of yfs.c and the README say of the requests in Yfs.   *)
(***************************************************************************)
EXTENDS Yfs

(* yfs.c, unlinkHandler: "This request removes the directory entry          *)
(* forpathname".  An entry that UNLINK changes carries the path's name.     *)
UnlinkClearsNamedEntry ==
  [][\A c \in Clients, p \in Paths :
       Unlink(c, p) /\ reply' # ERMSG =>
         \A b \in Blocks, s \in Slots :
           fs'.blocks[b][s] # fs.blocks[b][s] => fs.blocks[b][s].name = LastName(p)]_vars

(* README, Create: "If the named file already exists, this request instead  *)
(* truncates the size of the existing file to 0".  A directory never holds  *)
(* two entries of one name.                                                 *)
NamesUnique ==
  \A n \in Inodes : fs.inodes[n].type = INODE_DIRECTORY =>
    \A i, j \in Held(fs, fs.inodes[n]) :
      EntryAt(fs, fs.inodes[n], i).name = EntryAt(fs, fs.inodes[n], j).name => i = j

(* README, RmDir: "it is an error to attempt to remove the root directory". *)
RootStays == fs.inodes[ROOTINODE].type = INODE_DIRECTORY

(* README, Create: "Otherwise, this request returns ERROR".  Requests never *)
(* bring the server down.                                                   *)
ServerSurvives == server # "crashed"

(* yfs.c, findFreeBlock: "finds a block from the free list".  What an inode *)
(* in use names as its indirect block is not free.                          *)
IndirectNotFree ==
  \A n \in Inodes : fs.inodes[n].type # INODE_FREE =>
    fs.inodes[n].indirect \notin fs.free \ {0}

(* README, Link: "creates a (hard) link from the new file name newname to   *)
(* the existing file oldname".  After it the new name leads to the file.    *)
LinkResolves ==
  [][\A c \in Clients, old, new \in Paths :
       Link(c, old, new) /\ reply' # ERMSG =>
         CheckPath(fs', new, cwd[c]) = Target(c, old)]_vars
=============================================================================
