------------------------------ MODULE YfsFiles ------------------------------
(***************************************************************************)
(* The requests of Yfs together with open files: the descriptor table that *)
(* iolib.c keeps in every process, Open, Create and Close, and the SEEK,   *)
(* READ and WRITE requests of yfs.c on the same volume.                    *)
(*                                                                         *)
(* A position, like a size, is counted in units of one directory entry;    *)
(* what a program writes is Text.  The positions that SEEK, READ and WRITE *)
(* answer with are kept in the caller's cursor: reply is 0 for them.       *)
(***************************************************************************)
EXTENDS Yfs

CONSTANTS
  MaxOpenFiles,  \* MAX_OPEN_FILES (16)
  Offsets,       \* the offsets passed to Seek
  Counts,        \* the sizes passed to Read and Write
  Heap,          \* what uninitialised heap bytes may hold, read as entries
  MaxCursor      \* bound: the largest position a descriptor may reach

ASSUME FileAssumption ==
  /\ MaxOpenFiles \in Nat
  /\ PointersPerEntry \in Nat \ {0}
  /\ Offsets \subseteq Int
  /\ Counts \subseteq 0 .. EntriesPerBlock
  /\ Heap \subseteq Entry
  /\ MaxCursor \in Nat
  /\ MaxCursor < EntriesPerBlock * EntriesPerBlock * PointersPerEntry

VARIABLES
  fds,   \* each process's fd_arr: used, inum and cur_pos of every descriptor
  held,  \* the descriptors that calls returned to the process and it has not closed
  data   \* what the last READ delivered

fileVars == <<vars, fds, held, data>>

Descriptors == 0 .. MaxOpenFiles - 1

(* initFileStorage *)
NoFiles == [d \in Descriptors |-> [used |-> FALSE, inum |-> ERROR, pos |-> 0]]

FilesInit ==
  /\ Init
  /\ fds = [c \in Clients |-> NoFiles]
  /\ held = [c \in Clients |-> {}]
  /\ data = << >>

----------------------------------------------------------------------------
(* Descriptors.  Open and Create take the lowest unused one before they     *)
(* send, and do not give it back when the answer is an error; without one   *)
(* they send nothing.                                                       *)

(* Mutated: used is not looked at.                                          *)
UnusedAny(c) == Descriptors

Unused(c) == {d \in Descriptors : ~ fds[c][d].used}

Answered == server' = "running" /\ reply' # ERMSG

TakeDescriptor(c) ==
  LET d == First(Unused(c))
      taken == [fds[c][d] EXCEPT !.used = TRUE, !.pos = 0]
  IN /\ fds' = [fds EXCEPT ![c] = [@ EXCEPT ![d] =
                  IF Answered THEN [taken EXCEPT !.inum = reply'] ELSE taken]]
     /\ held' = IF Answered THEN [held EXCEPT ![c] = @ \cup {d}] ELSE held
     /\ UNCHANGED data

OpenFile(c, p)   == Unused(c) # {} /\ Open(c, p) /\ TakeDescriptor(c)
CreateFile(c, p) == Unused(c) # {} /\ Create(c, p) /\ TakeDescriptor(c)

(* Mutated: only the count of open files goes down.                         *)
CloseCounting(c, d) ==
  /\ d \in held[c] /\ fds[c][d].used
  /\ held' = [held EXCEPT ![c] = @ \ {d}]
  /\ UNCHANGED <<vars, fds, data>>

(* Programs pass descriptors they hold; an unused one is refused by the     *)
(* library and nothing happens.                                             *)
Close(c, d) ==
  /\ d \in held[c] /\ fds[c][d].used
  /\ fds' = [fds EXCEPT ![c][d].used = FALSE]
  /\ held' = [held EXCEPT ![c] = @ \ {d}]
  /\ UNCHANGED <<vars, data>>

----------------------------------------------------------------------------
(* How SEEK, READ and WRITE end. *)

InUse(c, d) == Serving /\ d \in held[c] /\ fds[c][d].used
Inum(c, d)  == fds[c][d].inum
Pos(c, d)   == fds[c][d].pos
Node(c, d)  == fs.inodes[Inum(c, d)]

Refuse(volume) ==
  /\ fs' = volume /\ reply' = ERMSG
  /\ UNCHANGED <<server, cwd, boots, fds, held, data>>

AnswerAt(volume, c, d, pos) ==
  /\ pos <= MaxCursor
  /\ fs' = volume /\ reply' = 0
  /\ fds' = [fds EXCEPT ![c][d].pos = pos]
  /\ UNCHANGED <<server, cwd, boots, held>>

----------------------------------------------------------------------------
(* SEEK. *)

Whences(c, d) == {0, Node(c, d).size, Pos(c, d)}  \* SEEK_SET, SEEK_END, SEEK_CUR

HighestInBlock(size) == (size \div EntriesPerBlock + 1) * EntriesPerBlock

Pointers   == EntriesPerBlock * PointersPerEntry
SeekLimit  == EntriesPerBlock * (NumDirect + Pointers)

(* addNewEmptyBlock's answer: what it has taken before it fails stays taken. *)
GrowFails(node, index) ==
  LET got == FindFreeBlock(fs) IN
  \/ got.block = ERROR /\ (index < NumDirect \/ node.indirect = 0)
  \/ index >= NumDirect
     /\ FindFreeBlock(IF node.indirect = 0 THEN got.fs ELSE fs).block = ERROR

(* A position past the block the size ends in gets a new block; the inode   *)
(* is written without it when it belongs in direct[], which the size does   *)
(* not cover.                                                               *)
SeekPastEnd(c, d, pos) ==
  LET index == pos \div EntriesPerBlock
      grown == AddNewEmptyBlock(fs, Node(c, d), index)
  IN IF pos >= SeekLimit \/ GrowFails(Node(c, d), index)
     THEN Refuse(IF pos >= SeekLimit THEN fs ELSE grown.fs)
     ELSE /\ AnswerAt(WriteInodeToDisk(grown.fs, Inum(c, d), grown.node), c, d, pos)
          /\ UNCHANGED data

Seek(c, d) ==
  /\ InUse(c, d)
  /\ \E start \in Whences(c, d), offset \in Offsets :
       LET pos == start + offset IN
       \/ pos < 0 /\ Refuse(fs)
       \/ /\ 0 <= pos /\ pos <= HighestInBlock(Node(c, d).size)
          /\ AnswerAt(fs, c, d, pos)
          /\ UNCHANGED data
       \/ /\ pos > HighestInBlock(Node(c, d).size)
          /\ pos < EntriesPerBlock * Pointers \/ pos >= SeekLimit
          /\ SeekPastEnd(c, d, pos)

----------------------------------------------------------------------------
(* READ and WRITE.  Both look for the block one past the one the position   *)
(* is in.                                                                   *)

(* Where a pointer in an indirect block is not 0, its bytes are those of    *)
(* entries or of another index's pointer: Reached bounds this away.         *)
Reached(node, i) ==
  (i >= NumDirect /\ node.indirect \notin {0, ERROR}) =>
    /\ SlotOfPointer(i - NumDirect) \in Slots
    /\ fs.blocks[node.indirect][SlotOfPointer(i - NumDirect)] = NoEntry

GetSector(node, i) ==
  IF i < NumDirect THEN node.direct[i] ELSE IF node.indirect = ERROR THEN ERROR ELSE 0

SectorIndex(pos) == pos \div EntriesPerBlock + 1

(* C's quotient of (pos - n) and the block size equals that of pos: a read  *)
(* of two sectors copies to the wrong place on the heap.                    *)
OneSector(pos, n) ==
  IF n <= pos THEN (pos - n) \div EntriesPerBlock = pos \div EntriesPerBlock
  ELSE pos < EntriesPerBlock /\ n - pos < EntriesPerBlock

(* The n units before the position, of which those before the block's start *)
(* come from the heap.                                                      *)
Delivered(node, pos, n, junk) ==
  LET sector == GetSector(node, SectorIndex(pos))
      from   == (pos % EntriesPerBlock) - n
  IN [i \in 1 .. n |-> IF sector = ERROR \/ from + i - 1 < 0 THEN junk[i - 1]
                       ELSE fs.blocks[sector][from + i - 1]]

Read(c, d) ==
  /\ InUse(c, d)
  /\ \E count \in Counts, junk \in [Slots -> Heap] :
       LET pos == Pos(c, d)
           n == IF pos + count > Node(c, d).size THEN Node(c, d).size - pos ELSE count
       IN \/ pos > Node(c, d).size /\ Refuse(fs)
          \/ /\ pos <= Node(c, d).size
             /\ OneSector(pos, n)
             /\ Reached(Node(c, d), SectorIndex(pos))
             /\ AnswerAt(fs, c, d, pos + n)
             /\ data' = Delivered(Node(c, d), pos, n, junk)

(* The buffer from its start: n units of text, then what the heap held.     *)
Buffer(n, junk) == [s \in Slots |-> IF s < n THEN Text ELSE junk[s]]

PutSector(volume, sector, content) ==
  [volume EXCEPT !.blocks = [@ EXCEPT ![sector] = content]]

(* A write that crosses into the next block puts as much as fits into one   *)
(* sector, and all of it, from the start again, into the next.              *)
Write(c, d) ==
  /\ InUse(c, d)
  /\ \E count \in Counts, junk \in [Slots -> Heap] :
       LET pos    == Pos(c, d)
           left   == EntriesPerBlock - (pos % EntriesPerBlock)
           first  == GetSector(Node(c, d), SectorIndex(pos))
           second == GetSector(Node(c, d), SectorIndex(pos) + 1)
           volume == PutSector(fs, first, Buffer(left, junk))
       IN \/ Node(c, d).type = INODE_DIRECTORY /\ Refuse(fs)
          \/ /\ Node(c, d).type # INODE_DIRECTORY
             /\ Reached(Node(c, d), SectorIndex(pos))
             /\ first = ERROR /\ Refuse(fs)
          \/ /\ Node(c, d).type # INODE_DIRECTORY
             /\ Reached(Node(c, d), SectorIndex(pos))
             /\ first # ERROR /\ count <= left
             /\ AnswerAt(PutSector(fs, first, Buffer(count, junk)), c, d, pos + count)
             /\ UNCHANGED data
          \/ /\ Node(c, d).type # INODE_DIRECTORY
             /\ Reached(Node(c, d), SectorIndex(pos) + 1)
             /\ first # ERROR /\ count > left
             /\ second = ERROR /\ Refuse(volume)
          \/ /\ Node(c, d).type # INODE_DIRECTORY
             /\ Reached(Node(c, d), SectorIndex(pos)) /\ Reached(Node(c, d), SectorIndex(pos) + 1)
             /\ first # ERROR /\ count > left /\ second # ERROR
             /\ AnswerAt(PutSector(volume, second, Buffer(count, junk)), c, d, pos + count)
             /\ UNCHANGED data

----------------------------------------------------------------------------
(* The requests that leave descriptors alone, and the restart, after which  *)
(* the processes are new ones.                                              *)

NameRequest(c) ==
  /\ \/ \E p \in Paths : MkDir(c, p) \/ Unlink(c, p) \/ RmDir(c, p) \/ ChDir(c, p) \/ Stat(c, p)
     \/ \E old, new \in Paths : Link(c, old, new)
  /\ UNCHANGED <<fds, held, data>>

FilesReboot ==
  /\ Reboot
  /\ fds' = [c \in Clients |-> NoFiles]
  /\ held' = [c \in Clients |-> {}]
  /\ data' = << >>

FilesNext ==
  \/ \E c \in Clients :
       \/ NameRequest(c)
       \/ \E p \in Paths : OpenFile(c, p) \/ CreateFile(c, p)
       \/ \E d \in Descriptors : Close(c, d) \/ Seek(c, d) \/ Read(c, d) \/ Write(c, d)
  \/ Shutdown /\ UNCHANGED <<fds, held, data>>
  \/ FilesReboot

FilesSpec == FilesInit /\ [][FilesNext]_fileVars
----------------------------------------------------------------------------
(* The volume keeps its types, and what a process holds is a descriptor in  *)
(* use that leads to an inode the server once answered with.                *)
FilesTypeOK ==
  /\ TypeOK
  /\ fds \in [Clients -> [Descriptors -> [used : BOOLEAN, inum : Offered \cup {ERROR},
                                         pos : 0 .. MaxCursor]]]
  /\ held \in [Clients -> SUBSET Descriptors]
  /\ \A c \in Clients : \A d \in held[c] : fds[c][d].used /\ fds[c][d].inum \in Offered

(* A descriptor is lost, in use and held by nobody, only where Open or      *)
(* Create was refused or the server died in it; nothing returns it before   *)
(* the process ends.                                                        *)
Lost(c) == {d \in Descriptors : fds[c][d].used} \ held[c]

LostByRefusalOnly ==
  [][\A c \in Clients :
       /\ boots' = boots => Lost(c) \subseteq Lost(c)'
       /\ Lost(c)' # Lost(c) /\ boots' = boots =>
            /\ Cardinality(Lost(c)') = Cardinality(Lost(c)) + 1
            /\ ~ Answered]_fileVars

(* WRITE, also through a descriptor whose file is gone and whose inode is   *)
(* another file by now, changes the boot block and nothing else: no inode,  *)
(* no file's data, no directory other than one that was given the boot block. *)
WritesOnlyBootBlock ==
  [][\A c \in Clients, d \in Descriptors :
       fs' # fs /\ Write(c, d) => fs' = PutSector(fs, 0, fs'.blocks[0])]_fileVars

(* A SEEK, also a refused one, takes at most two free blocks and changes    *)
(* nothing that a size covers: of the inodes only its own, there only the   *)
(* indirect field, and that only when it was 0; of the blocks only those it *)
(* takes and its indirect block.                                            *)
SeekKeepsContents ==
  [][\A c \in Clients, d \in Descriptors :
       fs' # fs /\ Seek(c, d) =>
         LET n == Inum(c, d)
             taken == fs.free \ fs'.free
             changed == {b \in Blocks : fs'.blocks[b] # fs.blocks[b]}
         IN /\ Cardinality(taken) <= 2
            /\ fs'.inodes = [fs.inodes EXCEPT ![n] = [@ EXCEPT !.indirect = fs'.inodes[n].indirect]]
            /\ fs'.inodes[n].indirect # fs.inodes[n].indirect =>
                 fs.inodes[n].indirect = 0 /\ fs'.inodes[n].indirect \in taken
            /\ changed \subseteq taken \cup {fs'.inodes[n].indirect}]_fileVars

(* The descriptor table implements what OpenFiles promises.                 *)
Table ==
  [c \in Clients |-> [d \in held[c] |-> [file |-> fds[c][d].inum, pos |-> fds[c][d].pos]]]

Abstract == INSTANCE OpenFiles
  WITH Procs <- Clients, Files <- Offered, Positions <- 0 .. MaxCursor, table <- Table

ImplementsOpenFiles == Abstract!Spec

(* README, Read: "reads data from an open file, beginning at the current    *)
(* position".  What READ delivers are the units from the cursor on.         *)
ReadsAtCursor ==
  [][\A c \in Clients, d \in Descriptors :
       Read(c, d) /\ reply' # ERMSG =>
         \A i \in 1 .. Len(data') :
           LET k == Pos(c, d) + i - 1
               b == Node(c, d).direct[k \div EntriesPerBlock]
           IN data'[i] = fs.blocks[b][k % EntriesPerBlock]]_fileVars
=============================================================================
