# A verification project for the Yalnix file server

The repository holds a user-level file system: a server process (`yfs.c`), the
library that client processes link (`iolib.c`), the on-disk layout
(`filesystem.h`) and the tool that writes an empty volume (`mkyfs.c`). This
directory models the server, the message loop and the library as TLA+ modules,
checks them with TLC on small instances, and proves the main properties with TLAPS
for volumes of every size and any number of processes.

## The system

| component | state | operations |
|---|---|---|
| disk layout, `mkyfs.c` | header, inode table, blocks | writes an empty volume: boot block, inode table, root directory |
| block allocator | `freeBlocks[]`, `numFreeBlocks` | `findFreeBlock`, `addFreeBlock`, `markUsed`, `addNewEmptyBlock` |
| inode table and queue of free inodes | inodes on the disk; `free_nodes_head/tail/size` in memory | `readInode`, `writeInodeToDisk`, `addFreeInode`, `getFreeInode`, `freeInode`, `prepFree`, `resetInodeSize` |
| server start | the free lists, from the inode table | `init` |
| directories | entries in the blocks of directory inodes | `findDirectoryEntry`, `freeDirectoryEntry`, `checkEmpty`, `writeDirectoryToInode`, `setNewInode` |
| path lookup | none | `findParent`, `findLastDirName`, `checkPath` |
| name-space requests | none between requests | `createHandler`, `openHandler`, `mkDirHandler`, `rmDirHandler`, `chDirHandler`, `linkHandler`, `unlinkHandler`, `statHandler` |
| file I/O requests | none between requests | `seekHandler`, `readHandler`, `writeHandler` |
| message loop | the message being handled | `Receive`, dispatch on `type`, `Reply`; `SHUTDOWN` |
| client library | `fd_arr[16]` (inode, cursor, used), `open_files`, `current_directory` | `Open` .. `Shutdown`, each one message to the server and its answer |
| Yalnix kernel, disk (external) | | `Send`, `Receive`, `Reply`, `CopyFrom`, `CopyTo`, `ReadSector`, `WriteSector` |

**How they interact.** A library call builds one message, sends it and blocks
until the reply. The server receives one message, runs its handler to the end
and replies. Handlers share state with each other only through the disk and
the two free lists; processes share the volume, and each has a descriptor table
and a current directory of its own, which refer to inodes by number.

**What is hard here.** There is no cache and no thread in the server, so a
handler is not interrupted; the difficulties are elsewhere:

* inside a handler, several copies of one inode or sector are alive at a time
  (`createHandler` holds the parent's inode while `setNewInode` and
  `resetInodeSize` write; `writeDirectoryToInode` holds a sector while it
  allocates), and the order of the write-backs decides which one survives;
* a handler has many steps, each can fail, and what the earlier ones did stays;
* the free lists exist in memory only: what a restart rebuilds must agree with
  what live inodes name;
* processes keep inode numbers (current directory, descriptors) across requests
  of other processes that free and reuse those inodes;
* a request writes several sectors, and the machine may stop after any of them;
* callers wait for an answer, and some message types are never answered;
* boundaries: the last block, the last inode, the last entry of a block, the
  counter `numFreeBlocks` beside the array it counts.

What makes each component correct: no block has two owners and none in use is
free (allocator, start); inode numbers handed out are ones the table has
(queue); an entry, once written, stays until it is removed, and growth disturbs
none (directories); a request that is refused changes nothing (requests); every
request is answered (loop); a descriptor leads to the file it was opened on
(library).

## The modules

| module | what it is |
|---|---|
| `YfsDisk` | the volume (inode table, block contents, free lists) and the helpers on inodes and blocks, `mkyfs` and `init` |
| `YfsDir` | directories and path names over a volume |
| `Yfs` | the specification: the requests, crash, shutdown and restart; its properties |
| `YfsClaims` | what comments and README say of the requests, where the code does otherwise |
| `YfsFiles` | `Yfs` composed with the descriptor tables: Open, Create, Close and the requests SEEK, READ, WRITE |
| `OpenFiles` | abstract: what a process may expect of descriptors |
| `YfsCuts` | `Yfs` with the machine stopped between two sector writes of a request |
| `YfsLoop` | the message loop, the kernel's message passing, and how library calls wait and decide |
| `MCYfs`, `MCYfsFiles`, `MCYfsCuts`, `MCYfsLoop` | the instances TLC checks |
| `YfsDiskProof` | lemmas: what each helper of `YfsDisk` and `YfsDir` preserves |
| `YfsProof`, `YfsFilesProof`, `YfsLoopProof` | inductive invariants of `Yfs`, `YfsFiles` and `YfsLoop`, and the theorems |
| `YfsSessionProof`, `YfsFilesSessionProof` | what holds until the server is first started again: the ledger of blocks; what a SEEK takes and how descriptors are lost |
| `YfsCutsProof` | power cuts: sound volumes, and what paths show in between |

`Yfs` extends `YfsDir` and `YfsDisk`; `YfsFiles`, `YfsCuts` and `YfsClaims` extend `Yfs`.
`YfsLoop` stands alone: of a handler it keeps only how it ends.

**State.** `fs` is the volume, one record. `inodes` and `blocks` are the disk;
`free` is the set of indices where `freeBlocks[]` is `BLOCK_FREE`, `nfree` is
`numFreeBlocks`, `nodes` is the queue that starts at `free_nodes_head`. `server` is
`"running"`, `"down"` after SHUTDOWN, or `"crashed"` after a null pointer was
followed. `cwd` is the library's `current_directory` in each process, `reply` the data
field of the last reply, `boots` counts restarts. `YfsFiles` adds `fds`, every process's
`fd_arr`; `held`, the descriptors a process was given and has not closed; and `data`, what the
last READ delivered. `YfsLoop` has the kernel's `queue`, the message `received`, and for each
process the `call` it is in, `where` it is (running, blocked, back, exited), its message
buffer `box` with the two fields a reply is judged by, and `effect`, what the handler did.

**Actions.** One action is one request: every check of the handler is a conjunct
or a disjunct, and the volume after it is the composition of the helpers in the
order of the code. Each helper is an operator from volumes to volumes; where the
C code holds an inode or a sector in a buffer across other calls, the operator
takes that copy as an argument (`node`, `content`), so a write-back of an old copy
does in the model what it does in the code.

In `YfsFiles` a file request is the library's part and the handler's together: the
descriptor is taken before the message is sent (`TakeDescriptor`), and stays taken when the
answer is an error. In `YfsCuts` each request that writes is a set of volumes, one after
each sector it writes, in the order of the code; `PowerCut` leaves one of them, and `Reboot`
starts a server on it. In `YfsLoop` a handler ends by a success, a refusal, no reply, or the
death of the server, as the code of that type allows (`Ends`).

**Abstractions.**

* Sizes are counted in directory entries. An entry is an inode number and a name;
  an entry that was cleared is `NoEntry` (nothing reads its name again).
* An indirect block is read by the code both as pointers and, after a restart has
  handed it out again, as entries. A pointer in a block is therefore an entry with
  the name `POINTER`, in the slot where its bytes fall.
* A path is a sequence of names with two flags (leading and trailing slash); the
  30-character limit of `findParent` is not modelled.
* STAT's four copied fields are not kept; OPEN and STAT leave the volume alone.
* `CopyFrom`, `CopyTo`, `ReadSector` and `WriteSector` do not fail.
* `init` looks one inode past its sector buffer. What it finds there is on the
  heap: `slotFree` chooses whether it reads as free, `Stray` is the set of block
  numbers it may mark used otherwise.
* In `YfsFiles` a position, like a size, is counted in units of one directory entry, and what a
  program writes is `Text`; the answers of SEEK, READ and WRITE are in the caller's cursor.
  `Heap` is what uninitialised heap bytes hold where READ and WRITE copy them.
* READ of a range that spans two sectors moves its buffer pointer by a negative offset and
  runs over the heap (`yfs.c:375`): there is no defined outcome, and `OneSector` leaves it out.
  `Reached` leaves out positions whose pointer in an indirect block is not 0: `sectors[i]` is
  then the bytes of an entry or of another index's pointer. WRITE is of at most a block.
* A request with a `whence`, size or buffer that the handler refuses at once ends like a SEEK to
  a negative position: refused, without effect.
* The kernel in `YfsLoop` keeps messages in order, ends a Send by a Reply, and lets a Send whose
  receiver is gone return with the message untouched; it is not in the repository.

**Bounds.** `MaxSize` bounds the size of an inode; by `LayoutAssumption` it keeps
`num_blocks` within `NUM_DIRECT`, since `writeInodeToDisk` copies past the end of
`direct[]` beyond that, which has no defined outcome. `MaxLinks` (distance of a link
count from 0), `MaxQueue` (length of the inode queue, which grows without limit when
one inode is freed twice) and `MaxBoots` only keep TLC's state space finite. `MaxCursor` bounds
a descriptor's position. A request that would cross a bound is not taken.

## What is checked

The instances have 4 or 5 inodes in blocks of 2 or 3 records, so that the inode
table spans several blocks and `init`'s over-read falls on an inode of the table; 8
or 9 blocks, of which 4 or 6 hold data (the root's among them), so that allocation
fails within a few requests; 3 or 4 entries in a block, so that a directory fills its first block
and continues; two direct slots, the index that `writeDirectoryToInode` asks for
being beyond them as 16 is beyond `NUM_DIRECT` = 12. Paths include `.` and `..`, a
relative path, a two-name path and a path with a trailing slash.

| run | question | result |
|---|---|---|
| `Session` | two processes (symmetric), every request, until the server stops: types, blocks with one owner, entries that stay, errors without effect, what becomes free again | holds, about 8,700 states |
| `Restart` | one process, two restarts after shutdown or crash, every outcome of the over-read: the rebuilt free lists | holds, about 94,000 states |
| `UnlinkName` | "removes the directory entry forpathname" (`yfs.c:577`) | violated: the first entry with the inode's number is cleared |
| `CreateTwice` | "this request instead truncates" (`README:12`) | violated: the entry is written a second time |
| `RootRemoved` | "an error to attempt to remove the root directory" (`README:43`) | violated: RMDIR of `/.` from another directory |
| `LastInode` | "Otherwise, this request returns ERROR" (`README:12`) | violated: the last inode of the queue brings the server down |
| `IndirectFreed` | "from the free list" (`yfs.c:2234`) | violated: `init` does not mark indirect blocks |
| `Files` | one process, two descriptors, three levels of positions (in the block, at its end, beyond the size), a restart: descriptors against `OpenFiles`, what file I/O may change | holds, about 73,000 states |
| `Cuts` | a machine that stops after any sector of any request, twice, with a restart each time: names before or after the request, whole files, rebuilt free lists | holds, about 41,000 states |
| `Loop` | three processes, calls of every way to end and to be judged, SHUTDOWN at any time: lost requests, honest answers, calls that return | holds, about 242,000 states |
| `ReadCursor` | "beginning at the current position" (`README:14`) | violated: READ takes the bytes before the cursor, of the next block |
| `LinkIntoFile` | "creates a (hard) link" (`yfs.c:498`) | violated: the parent may be a regular file |

What the properties say of the code, beyond the definitions' comments:

* `SessionExclusive` and `OnlyBootBlockReturned` depend on each other. `prepFree` gives
  back indices instead of block numbers, so blocks of deleted files are lost until the
  next restart; that loss is what keeps blocks exclusive although directories are
  removed while other processes are in them, and freed inodes keep their block
  numbers.
* `OneBlockEach` explains the behaviour of large directories: the code asks for
  block number 16 when the first is full, which goes to the indirect block, and
  `direct[1]` stays 0: the 17th entry of every directory is in the boot block.
* `EntriesKept` holds with exceptions stated in it: before a restart, and for the
  first block of a directory that stays a directory.
* `CounterCoversFree`: `numFreeBlocks` starts one too high, since the boot block is
  marked used and still counted; it errs on the side that costs nothing.
* `ErrorChangesNothing` holds although RMDIR frees the inode before it looks for the
  entry, because it looks in the copy of the parent read before.

* `SeekKeepsContents` is where `ErrorChangesNothing` ends: a refused SEEK has changed the volume,
  by a block that is gone until a restart, and this property says by how much.
* `WritesOnlyBootBlock`: a file never has a second block, WRITE asks for the block one past the
  cursor's, so every WRITE of every process goes to block 0. The stale descriptor of a removed
  file can do no other harm, which is why the property matters, and why a fix of the index
  would make the stale descriptor dangerous.
* `LostByRefusalOnly`: descriptors are lost by refused Opens and Creates and by nothing else,
  one at a time, and come back only with the process.
* `ImplementsOpenFiles` is the refinement: `Table`, the rows of held descriptors, behaves as
  `OpenFiles` says, where a number given out is not open already ("new, unique",
  `README:12`), keeps its file, and is moved by its owner's calls only.
* `PathsAtomic` and `NewNamesWhole` are about volumes that are not already damaged
  (`Undamaged`), by what the violations above and restarts are known to leave. Each part excludes
  a way to see more than before or after: a name twice in a directory (CREATE of an existing
  name), an entry that names a free inode (no block for the new file), a block with two uses (after a
  restart, since `init` does not mark indirect blocks, and in a directory that outgrew its
  block), an inode in use on the queue (queued twice by a restart), and paths that start at a
  removed root or current directory. RMDIR frees the inode before it clears the name, which
  `PathsAtomic` says explicitly: in between the name leads to a free inode.
* `ReportsEffect` has an exception as well: once the server has gone, the functions that test
  the data field take their own message for a success.

`CHECK_DEADLOCK FALSE`: the system stops after SHUTDOWN or a crash when no restart is
left. In `YfsLoop` it stops
when every process waits for an answer that never comes, or has exited. `VIEW VolumeView`
leaves out `reply`, which no action reads; `FilesView` also leaves out `data` and what an
unused or lost descriptor still says.

**Fairness.** Only `YfsLoop` assumes any. `WF_vars(ServerStep)`: the server is one loop
(`yfs.c:182`) that waits nowhere but in Receive, so with a message in the queue it
receives, and what it has received it handles. `WF_vars(SendFails(c))`: the kernel
releases a process that sends to a server that has exited. Nothing is assumed of the
processes: they may never call, never return, or all send types that get no answer.
`CallsReturn` is therefore a promise of the server alone, and `ShutdownFrees` that
SHUTDOWN ends the waiting of those, too, that would wait for ever.

**Why the bounds of these runs are enough.** In `Files` an offset leads before the start (-7), one to
or past the limit (24), and 4 leads, from the start, a position or the size, into the block after
the last one, which is a direct slot or, at position 6, a pointer in the indirect block; with
two blocks to give out an allocation fails soon, so every disjunct
of `Seek`, `Read` and `Write` is taken, and two descriptors, so that two calls lose
both. One process suffices there because the theorem `Implementation` is for any number.
`Cuts` has a name in the root, one below it and a path through `.`, 3 inodes, and 4 blocks to
give out; the second restart starts from a volume a cut has left. `Loop` has three
processes: one served, one queued, one behind it.

Each property of a passing run has a mutant, a definition of the model with a
plausible mistake (`...Unchecked`, `...Blind`, `...AtBlock` and others, marked
"Mutated"), and TLC finds the property violated with the mistake in place.

## What is proved

For all constants that satisfy `LayoutAssumption`, `TableAssumption`,
`ClientAssumption` and, for `YfsFilesProof` and `YfsFilesSessionProof`, `FileAssumption`:

| theorem of `YfsProof` | statement |
|---|---|
| `Invariance` | `Spec => []IInv` |
| `Typing` | `Spec => []TypeOK` |
| `CounterCovers` | `Spec => []CounterCoversFree` |
| `OneBlockOnly` | `Spec => []OneBlockEach` |
| `ExclusiveBlocks` | `Spec => []DataBlocksExclusive` |
| `ErrorsChangeNothing` | `Spec => ErrorChangesNothing` |
| `BootBlockOnly` | `Spec => OnlyBootBlockReturned` |

| theorem of `YfsFilesProof` | statement |
|---|---|
| `FilesInvariance` | `FilesSpec => []FilesInv` |
| `FilesTyping` | `FilesSpec => []FilesTypeOK` |
| `Implementation` | `FilesSpec => ImplementsOpenFiles` |
| `BootBlockWritten` | `FilesSpec => WritesOnlyBootBlock` |
| `FilesExclusive` | `FilesSpec => []DataBlocksExclusive` |
| `FilesCounter` | `FilesSpec => []CounterCoversFree` |

| theorem of `YfsSessionProof` | statement |
|---|---|
| `SessionInvariance` | `Spec => []SessionInv` |
| `OneUserPerBlock` | `Spec => []SessionExclusive` |
| `EntriesSurvive` | `Spec => EntriesKept` |

| theorem of `YfsFilesSessionProof` | statement |
|---|---|
| `FilesSessionInvariance` | `FilesSpec => []FilesSessionInv` |
| `FilesOneUserPerBlock` | `FilesSpec => []SessionExclusive` |
| `SeeksKeepContents` | `FilesSpec => SeekKeepsContents` |
| `RefusalsLose` | `FilesSpec => LostByRefusalOnly` |

| theorem of `YfsCutsProof` | statement |
|---|---|
| `CutsInvariance` | `CutsSpec => []IInv` |
| `CutsTyping` | `CutsSpec => []TypeOK` |
| `CutsExclusive` | `CutsSpec => []DataBlocksExclusive` |
| `PathsStayAtomic` | `CutsSpec => []PathsAtomic` |
| `NewNamesStayWhole` | `CutsSpec => []NewNamesWhole` |

| theorem of `YfsLoopProof` | statement |
|---|---|
| `Invariance` | `Spec => []IInv` |
| `RequestsKept` | `Spec => []NoRequestLost` |
| `Typing` | `Spec => []TypeOK` |
| `ReportsTrue` | `Spec => []ReportsEffect` |

**Assumptions.** `LayoutAssumption` states what the C constants satisfy (at least
two inodes, a block holds at least three entries, the index asked for is beyond the
direct slots, the pointer falls into the block, the size bound).
`TableAssumption` says that the number of inodes is not exactly that of one block: with
8 inodes `init` never reads the block that inode 8 is in. `ClientAssumption` types the
paths and the bounds. `FileAssumption` types the descriptor table and says that what is read or
written at once is at most a block, and that heap bytes read as some entry.

**Argument.** `DataBlocksExclusive` is not inductive: to keep a block from being handed
out twice one needs that it is not free, that the free list survives a restart, and
that `init` sees every inode that owns a block. `Sound` (in `YfsDiskProof`) adds to it

* `Counted`: `numFreeBlocks` covers the free set, without which an allocation could be
  refused and `direct[0]` set to a block nobody owns;
* `Fitting`: the inodes `init` never offers, in particular the last one, are free for
  ever, so no inode in use is overlooked when the free list is rebuilt;
* `OneBlock`: `direct[1]` and up are 0, so `direct[0]`, which every size covers, is all
  that has to be marked.

For every helper there is a lemma that it keeps types and `Sound`; the lemmas about
`writeDirectoryToInode` take the caller's copy of the inode as a parameter and state
what it must agree on with the disk (`StaleCopyFits`, `NewInodeFits`), which is the
place where the old copies of `createHandler` and `rmDirHandler` are dealt with. `YfsProof`
has one lemma per action (`MakeNewStep`, `CreateExistingStep`, `LinkStep`, `UnlinkStep`,
`RmDirStep`, ...), which also give the two action properties: `EntryStillThere` shows that
RMDIR always finds the entry whose child it just freed.

`YfsFilesProof` builds on that invariant: `FilesInv` adds the types of the descriptor tables.
The requests of `Yfs` are steps of `YfsProof`'s `Next`, so `StepSound` covers them. `SeekSound`
covers both volumes a SEEK past the end can leave: an index within `direct[]` is beyond the
size, so `writeInodeToDisk` drops it (`DirectBeyondSize`); any other goes to the indirect
block. `BeyondFirst` is why WRITE reaches only block 0: it asks for an index of at least 1,
and by `OneBlock` that is 0. The refinement needs the invariant in one place, Open: the
descriptor is unused, hence not held, hence new in `Table`; `OneRow` then reduces each step
to the row of one process.

`YfsLoopProof`'s `IInv` says of each process, by where it is, what its call, message and effect
can be, and that the queue and the received message hold exactly the blocked processes that
are still to be answered, each once. Neither `NoRequestLost` nor `ReportsEffect` is inductive
without the other: an answer goes to the process whose type it matches because that process
is still in the call it queued.

`YfsSessionProof` adds the `Ledger` before the first restart: every inode, free ones included, stands
`Alone`, its data and indirect block different from each other, from every other inode's, from
the inode table and from what can be handed out. Free inodes belong to it because `prepFree` leaves
their block numbers and `setNewInode` keeps the indirect one. It is stated of a node and an
inode's number rather than of the volume, since the handlers hold copies that differ from the disk:
`WriteDirectoryAlone` takes the caller's copy, and what that grows by was free. `EntriesKept`
follows: `Untouched` says of every helper which blocks it writes (blocks that were free, the
indirect block, the one slot of the entry), and by the ledger no entry of another directory is in
those (`AppendLeaves`, `OneCleared`). The ledger ends with the first restart, as the run
`IndirectFreed` shows, and the theorems say so by `boots = 0`.

`YfsFilesSessionProof` keeps the ledger through SEEK, READ and WRITE. `Takes` is what a SEEK may do to a
volume: two blocks at most leave the free list, one inode's indirect field is set where it was 0,
and contents change in those blocks and the indirect one only. `SeekTakes` shows it for each way
through `seekHandler` and in every session, which gives `SeekKeepsContents`; `TakesAlone` gives the ledger.
`LostByRefusalOnly` goes process by process: an answered Open or Create moves its descriptor
from unused to held at once, a refused one from unused to lost (`TakeLoses`), and the other
calls leave both alone (`OthersLoseNone`).

`YfsCutsProof` has two parts. First, every cut of every request is a sound volume (`CutsSound`): an append is
done or in its middle (`MidAppend`), where the disk's inodes are those of before, so that what it
took is merely lost until the next start. Second, the two properties of paths, without induction:
a walk is a sequence, and if two volumes disagree about one, they do at a least index, where
the step before agreed; so it is enough to compare lookups from a set of inodes that no lookup
leaves (`Closed`, `FindsLess`, `PathsLess`). By `Undamaged` the inodes in use are such a set. A
cut that precedes the new entry is `AsBefore`, its directories hold what they held, because it
wrote only to free blocks, an indirect block and the slot behind the last entry, none of
which a size covers; a cut that clears an entry only finds less. Of CREATE and MKDIR the inode is
complete before the entry, so the cut that shows the name is the last (`AddEntryOnce`: the second
write of the parent's inode writes nothing new); of LINK that cut lacks the link count, which no
path shows (`SameViewShows`).

**Model-checked only.** The liveness properties `CallsReturn` and `ShutdownFrees`, which are beyond the provers,
and the seven violations. Every other property of a passing run is a theorem.

## Not modelled, and the plan

1. An abstract name space, for the entries that name free inodes (a Create with no free
   block answers success) and the inode that is twice on the queue after a restart.
2. A refinement of it by `Yfs` where the volume is undamaged, for which the comparison of
   volumes by their lookups in `YfsCutsProof` is the start.
3. READ over several sectors and pointers in indirect blocks, if the code gives them a defined
   outcome: today both read memory or block numbers that belong to something else.

Out of scope: `package_path`'s buffer sizes and `findParent`'s string handling (undefined
behaviour of C strings, not of the protocol), `fillLastBlock` and `nextSector`'s branch for an index
beyond the largest file (reached only by writing on from the last position SEEK allows; `MaxCursor`
ends before it), `Sync`, which does nothing,
trace output, `TRACE`, the test programs and samples (clients that send requests the model
already has), the kernel and the disk.
