--------------------------- MODULE YfsFilesProof ---------------------------
(***************************************************************************)
(* Theorems about YfsFiles for every layout, any set of processes and any  *)
(* size of the descriptor table: SEEK, READ and WRITE keep the invariant   *)
(* of Yfs, WRITE reaches no block but block 0, and the descriptor tables   *)
(* implement OpenFiles.                                                    *)
(***************************************************************************)
EXTENDS YfsFiles, YfsProof

FilesTyped ==
  /\ fds \in [Clients -> [Descriptors -> [used : BOOLEAN, inum : Offered \cup {ERROR},
                                         pos : 0 .. MaxCursor]]]
  /\ held \in [Clients -> SUBSET Descriptors]
  /\ \A c \in Clients : \A d \in held[c] : fds[c][d].used /\ fds[c][d].inum \in Offered

FilesInv == IInv /\ FilesTyped

----------------------------------------------------------------------------
(* Arithmetic. *)

(* What division by a positive number does.                                 *)
LEMMA Quotient ==
  ASSUME NEW x \in Nat, NEW m \in Nat \ {0}, NEW k \in Nat
  PROVE  /\ x \div m \in Nat
         /\ x < m * k => x \div m < k
         /\ x >= m * k => x \div m >= k
<1> DEFINE q == x \div m
           r == x % m
<1>1. x = m * q + r /\ r \in 0 .. m - 1 /\ q \in Int
  OBVIOUS
<1> HIDE DEF q, r
<1>2. q >= 0
  <2>1. q < 0 => m * q <= - m
    <3> SUFFICES ASSUME q < 0 PROVE m * q <= - m
      OBVIOUS
    <3>1. m * (q + 1) <= 0
      BY <1>1
    <3> QED
      BY <1>1, <3>1
  <2> QED
    BY <1>1, <2>1
<1>3. x < m * k => q < k
  <2> SUFFICES ASSUME q >= k PROVE x >= m * k
    BY <1>1
  <2>1. m * (q - k) >= 0
    BY <1>1
  <2> QED
    BY <1>1, <2>1
<1>4. x >= m * k => q >= k
  <2> SUFFICES ASSUME q < k PROVE x < m * k
    BY <1>1
  <2>1. m * (k - q - 1) >= 0
    BY <1>1
  <2>2. m * k >= m * q + m
    BY <1>1, <2>1
  <2> QED
    BY <1>1, <2>2
<1> QED
  BY <1>1, <1>2, <1>3, <1>4 DEF q

LEMMA Units ==
  /\ EntriesPerBlock \in Nat \ {0} /\ PointersPerEntry \in Nat \ {0}
  /\ NumDirect \in Nat /\ Pointers \in Nat
BY LayoutAssumption, FileAssumption DEF Pointers

----------------------------------------------------------------------------
(* Contents. *)

(* The buffer WRITE copies to a sector holds entries.                       *)
LEMMA BufferTypes ==
  ASSUME NEW n, NEW junk \in [Slots -> Heap]
  PROVE  Buffer(n, junk) \in [Slots -> Entry]
<1>1. Text \in Entry /\ Heap \subseteq Entry
  BY FileAssumption DEF Entry
<1> QED
  BY <1>1 DEF Buffer

(* Any index after the first finds block 0 or no block at all: no inode has *)
(* a second direct block.                                                   *)
LEMMA BeyondFirst ==
  ASSUME NEW node \in Inode, OneBlock(node), NEW i \in Nat \ {0}
  PROVE  GetSector(node, i) \in {0, ERROR}
<1>1. CASE i < NumDirect
  <2>1. i \in Directs \ {0}
    BY <1>1, Units DEF Directs
  <2> QED
    BY <1>1, <2>1 DEF OneBlock, GetSector
<1>2. CASE ~ (i < NumDirect)
  BY <1>2 DEF GetSector
<1> QED
  BY <1>1, <1>2

(* Writing the contents of a sector keeps the volume sound.                 *)
LEMMA PutSectorSound ==
  ASSUME NEW v, Sound(v), NEW b \in Blocks, NEW content \in [Slots -> Entry]
  PROVE  /\ Sound(PutSector(v, b, content))
         /\ PutSector(v, b, content).free = v.free
BY PutBlockSound DEF PutSector

----------------------------------------------------------------------------
(* The volumes SEEK leaves.                                                 *)

(* A block in a direct[] slot beyond the size does not reach the disk.      *)
LEMMA DirectBeyondSize ==
  ASSUME NEW v, Sound(v), NEW n \in Offered, NEW b \in Blocks,
         NEW index \in Directs, index > v.inodes[n].size \div EntriesPerBlock
  PROVE  LET node == [v.inodes[n] EXCEPT !.direct = [@ EXCEPT ![index] = b]]
             w == WriteInodeToDisk(v, n, node)
         IN Sound(w) /\ w.inodes = v.inodes /\ w.free = v.free
<1> DEFINE old  == v.inodes[n]
           node == [old EXCEPT !.direct = [@ EXCEPT ![index] = b]]
           kept == [i \in Directs |-> IF i <= node.size \div EntriesPerBlock
                                      THEN node.direct[i] ELSE v.inodes[n].direct[i]]
           x == [node EXCEPT !.direct = kept]
           w == WriteInodeToDisk(v, n, node)
<1>1. v \in Volume /\ n \in Inodes /\ v.inodes \in [Inodes -> Inode] /\ old \in Inode
  BY LayoutFacts DEF Sound, Volume
<1>2. old.direct \in [Directs -> Blocks] /\ old.size \in 0 .. MaxSize
  BY <1>1 DEF Inode
<1>3. /\ node \in Inode /\ node.size = old.size
      /\ node.direct = [old.direct EXCEPT ![index] = b]
      /\ node = [type |-> old.type, nlink |-> old.nlink, reuse |-> old.reuse, size |-> old.size,
                 direct |-> [old.direct EXCEPT ![index] = b], indirect |-> old.indirect]
      /\ old = [type |-> old.type, nlink |-> old.nlink, reuse |-> old.reuse, size |-> old.size,
                direct |-> old.direct, indirect |-> old.indirect]
  BY <1>1, <1>2 DEF Inode
<1>4. old.size \div EntriesPerBlock \in Directs
  BY <1>2, EntryPlace
<1>5. \A i \in Directs : kept[i] = old.direct[i]
  BY <1>2, <1>3, <1>4 DEF Directs
<1>6. kept = old.direct
  BY <1>2, <1>5
<1> HIDE DEF kept, node
<1>7. x = old
  BY <1>3, <1>6
<1>8. w = [v EXCEPT !.inodes = [@ EXCEPT ![n] = x]]
  BY DEF WriteInodeToDisk, x, kept, node
<1> HIDE DEF x, old
<1>9. /\ w \in Volume /\ w.inodes = v.inodes /\ w.free = v.free /\ w.nfree = v.nfree
  BY <1>1, <1>7, <1>8 DEF Volume, old
<1> HIDE DEF w
<1>10. Counted(w)
  BY <1>9 DEF Sound, Counted
<1>11. Sound(w)
  BY <1>9, <1>10, ShrinkSound
<1> QED
  BY <1>9, <1>11 DEF w, node, old

(* Where SEEK grows a file: past the blocks its size covers, at a pointer    *)
(* that lies inside the indirect block.                                     *)
LEMMA SeekIndex ==
  ASSUME NEW size \in Nat, NEW pos \in Nat,
         pos > HighestInBlock(size), pos < EntriesPerBlock * Pointers
  PROVE  /\ pos \div EntriesPerBlock \in Nat
         /\ pos \div EntriesPerBlock > size \div EntriesPerBlock
         /\ SlotOfPointer(pos \div EntriesPerBlock) \in Slots
<1> DEFINE index == pos \div EntriesPerBlock
<1>1. index \in Nat /\ index < Pointers /\ index > size \div EntriesPerBlock
  <2> DEFINE k == size \div EntriesPerBlock
  <2>1. k \in Nat
    BY Units, Quotient
  <2>2. pos >= EntriesPerBlock * (k + 1)
    BY <2>1, Units DEF HighestInBlock
  <2> HIDE DEF k
  <2>3. index >= k + 1
    BY <2>1, <2>2, Units, Quotient
  <2>4. index \in Nat /\ index < Pointers
    BY Units, Quotient
  <2> QED
    BY <2>1, <2>3, <2>4 DEF k
<1>2. SlotOfPointer(index) \in Slots
  <2>1. index < PointersPerEntry * EntriesPerBlock
    BY <1>1, Units DEF Pointers
  <2> HIDE DEF index
  <2>2. index \div PointersPerEntry \in Nat /\ index \div PointersPerEntry < EntriesPerBlock
    BY <1>1, <2>1, Units, Quotient
  <2> QED
    BY <2>2, Units DEF SlotOfPointer, Slots
<1> QED
  BY <1>1, <1>2

(* Both volumes a SEEK past the end can leave are sound.                    *)
LEMMA SeekSound ==
  ASSUME NEW v, Sound(v), NEW n \in Offered, NEW pos \in Nat,
         pos > HighestInBlock(v.inodes[n].size), pos < EntriesPerBlock * Pointers
  PROVE  LET grown == AddNewEmptyBlock(v, v.inodes[n], pos \div EntriesPerBlock)
             w == WriteInodeToDisk(grown.fs, n, grown.node)
         IN Sound(grown.fs) /\ Sound(w)
<1> DEFINE node  == v.inodes[n]
           index == pos \div EntriesPerBlock
           grown == AddNewEmptyBlock(v, node, index)
           w     == WriteInodeToDisk(grown.fs, n, grown.node)
<1>1. n \in Inodes /\ node \in Inode /\ OneBlock(node) /\ Fitting(v, n, node)
  BY LayoutFacts DEF Sound, Volume
<1>2. node.size \in Nat
  BY <1>1, LayoutAssumption DEF Inode
<1>3. index \in Nat /\ index > node.size \div EntriesPerBlock
  BY <1>2, SeekIndex
<1>4. SlotOfPointer(index) \in Slots
  BY <1>2, SeekIndex
<1> HIDE DEF index
<1>5. CASE index < NumDirect
  <2> DEFINE got == FindFreeBlock(v)
             taken == [node EXCEPT !.direct = [@ EXCEPT ![index] = got.block]]
  <2>1. grown = [fs |-> got.fs, node |-> IF got.block = ERROR THEN node ELSE taken]
    BY <1>5 DEF AddNewEmptyBlock
  <2>2. /\ Sound(got.fs) /\ got.fs.inodes = v.inodes
        /\ got.block \in Blocks \cup {ERROR}
        /\ Fitting(got.fs, n, node)
    BY <1>1, FindFreeBlockSound
  <2> HIDE DEF got
  <2>3. grown.fs = got.fs /\ grown.node = IF got.block = ERROR THEN node ELSE taken
    BY <2>1
  <2>4. CASE got.block = ERROR
    <3> HIDE DEF grown, node
    <3>1. Sound(grown.fs) /\ grown.node = node /\ Fitting(grown.fs, n, grown.node)
      BY <2>2, <2>3, <2>4
    <3>2. Sound(WriteInodeToDisk(grown.fs, n, grown.node))
      BY <1>1, <3>1, WriteInodeSound, Zenon
    <3> QED
      BY <3>1, <3>2 DEF grown, index, node, w
  <2>5. CASE got.block # ERROR
    <3>1. index \in Directs
      BY <1>3, <1>5, Units DEF Directs
    <3>2. got.block \in Blocks
      BY <2>2, <2>5
    <3>3. got.fs.inodes[n] = node
      BY <2>2
    <3>4. index > got.fs.inodes[n].size \div EntriesPerBlock
      BY <1>3, <3>3
    <3>5. grown.node = [got.fs.inodes[n] EXCEPT !.direct = [@ EXCEPT ![index] = got.block]]
      BY <2>3, <2>5, <3>3
    <3> HIDE DEF grown
    <3>6. Sound(WriteInodeToDisk(got.fs, n, [got.fs.inodes[n] EXCEPT !.direct = [@ EXCEPT ![index] = got.block]]))
      <4> DEFINE u == got.fs  b == got.block
      <4>1. Sound(u) /\ b \in Blocks /\ index > u.inodes[n].size \div EntriesPerBlock
        BY <2>2, <3>2, <3>4
      <4> HIDE DEF u, b
      <4>2. Sound(WriteInodeToDisk(u, n, [u.inodes[n] EXCEPT !.direct = [@ EXCEPT ![index] = b]]))
        BY <3>1, <4>1, DirectBeyondSize
      <4> QED
        BY <4>2 DEF u, b
    <3> QED
      BY <2>2, <2>3, <3>5, <3>6 DEF grown, index
  <2> QED
    BY <2>4, <2>5
<1>6. CASE ~ (index < NumDirect)
  <2>1. /\ Sound(grown.fs)
        /\ grown.node \in Inode
        /\ grown.node.direct = node.direct /\ grown.node.type = node.type
        /\ \A m \in Inodes : \A y : Fitting(v, m, y) => Fitting(grown.fs, m, y)
    BY <1>1, <1>3, <1>4, <1>6, AddNewEmptyBlockSound
  <2> HIDE DEF grown
  <2>2. OneBlock(grown.node) /\ Fitting(grown.fs, n, grown.node)
    <3>1. Fitting(grown.fs, n, node)
      BY <1>1, <2>1
    <3> QED
      BY <1>1, <2>1, <3>1 DEF OneBlock, Fitting, Owns
  <2>3. Sound(WriteInodeToDisk(grown.fs, n, grown.node))
    BY <2>1, <2>2, WriteInodeSound, Zenon
  <2> QED
    BY <2>1, <2>3 DEF grown, index
<1> QED
  BY <1>5, <1>6 DEF index

----------------------------------------------------------------------------
(* Descriptors. *)

Row(c) == [d \in held[c] |-> [file |-> fds[c][d].inum, pos |-> fds[c][d].pos]]

(* The table, row by row.                                                   *)
LEMMA Rows ==
  /\ Table = [c \in Clients |-> Row(c)]
  /\ \A c \in Clients : DOMAIN Table[c] = held[c]
BY DEF Table, Row

(* Nothing a process holds changed: the same table.                         *)
LEMMA SameTable ==
  ASSUME \A c \in Clients : /\ held'[c] = held[c]
                            /\ \A d \in held[c] : /\ fds'[c][d].inum = fds[c][d].inum
                                                   /\ fds'[c][d].pos = fds[c][d].pos
  PROVE  Table' = Table
<1>1. \A c \in Clients : Row(c)' = Row(c)
  BY DEF Row
<1>2. Table' = [c \in Clients |-> Row(c)']
  BY DEF Table, Row
<1> QED
  BY <1>1, <1>2, Rows

(* One process's row changed.                                               *)
LEMMA OneRow ==
  ASSUME NEW c \in Clients,
         \A b \in Clients \ {c} : held'[b] = held[b] /\ fds'[b] = fds[b]
  PROVE  Table' = [Table EXCEPT ![c] = Row(c)']
<1>1. \A b \in Clients \ {c} : Row(b)' = Row(b)
  BY DEF Row
<1>2. Table' = [b \in Clients |-> Row(b)']
  BY DEF Table, Row
<1> QED
  BY <1>1, <1>2, Rows

AbstractStep == Abstract!Next \/ Table' = Table

(* Open and Create, answered or not: the new descriptor was nobody's.       *)
LEMMA TakeStep ==
  ASSUME FilesInv, NEW c \in Clients, Unused(c) # {}, TakeDescriptor(c),
         Answered => reply' \in Offered
  PROVE  FilesTyped' /\ AbstractStep
<1> DEFINE d == First(Unused(c))
           taken == [fds[c][d] EXCEPT !.used = TRUE, !.pos = 0]
           new == IF Answered THEN [taken EXCEPT !.inum = reply'] ELSE taken
<1>1. d \in Descriptors /\ ~ fds[c][d].used
  <2>1. Unused(c) \subseteq Nat
    BY FileAssumption DEF Unused, Descriptors
  <2>2. d \in Unused(c)
    BY <2>1, FirstOfNat
  <2> QED
    BY <2>2 DEF Unused
<1>2. fds' = [fds EXCEPT ![c] = [@ EXCEPT ![d] = new]]
  BY DEF TakeDescriptor
<1>3. held' = IF Answered THEN [held EXCEPT ![c] = @ \cup {d}] ELSE held
  BY DEF TakeDescriptor
<1> HIDE DEF d
<1>4. FilesTyped
  BY DEF FilesInv
<1>5. 0 \in 0 .. MaxCursor
  BY FileAssumption
<1>6. /\ new \in [used : BOOLEAN, inum : Offered \cup {ERROR}, pos : 0 .. MaxCursor]
      /\ new.used = TRUE /\ new.pos = 0 /\ (Answered => new.inum = reply')
  <2>1. fds[c][d] \in [used : BOOLEAN, inum : Offered \cup {ERROR}, pos : 0 .. MaxCursor]
    BY <1>1, <1>4 DEF FilesTyped
  <2>2. /\ taken \in [used : BOOLEAN, inum : Offered \cup {ERROR}, pos : 0 .. MaxCursor]
        /\ taken.used = TRUE /\ taken.pos = 0
    BY <1>5, <2>1
  <2> HIDE DEF taken
  <2>3. CASE Answered
    BY <2>2, <2>3
  <2>4. CASE ~ Answered
    BY <2>2, <2>4
  <2> QED
    BY <2>3, <2>4
<1> HIDE DEF new
<1>7. /\ fds'[c] = [fds[c] EXCEPT ![d] = new]
      /\ \A b \in Clients \ {c} : fds'[b] = fds[b] /\ held'[b] = held[b]
      /\ d \notin held[c]
      /\ Answered => held'[c] = held[c] \cup {d}
      /\ ~ Answered => held' = held
      /\ \A e \in Descriptors : fds'[c][e] = IF e = d THEN new ELSE fds[c][e]
  BY <1>1, <1>2, <1>3, <1>4 DEF FilesTyped
<1>8. FilesTyped'
  <2>1. fds' \in [Clients -> [Descriptors -> [used : BOOLEAN, inum : Offered \cup {ERROR},
                                            pos : 0 .. MaxCursor]]]
    BY <1>2, <1>4, <1>6 DEF FilesTyped
  <2>2. held' \in [Clients -> SUBSET Descriptors]
    BY <1>1, <1>3, <1>4 DEF FilesTyped
  <2>3. ASSUME NEW b \in Clients, NEW e \in held'[b]
        PROVE  fds'[b][e].used /\ fds'[b][e].inum \in Offered
    <3>1. CASE b = c /\ e = d
      <4>1. Answered
        BY <2>3, <3>1, <1>7
      <4> QED
        BY <3>1, <4>1, <1>1, <1>6, <1>7
    <3>2. CASE ~ (b = c /\ e = d)
      <4>1. e \in held[b] /\ e \in Descriptors
        BY <2>3, <3>2, <1>4, <1>7 DEF FilesTyped
      <4>2. fds'[b][e] = fds[b][e]
        BY <3>2, <4>1, <1>7
      <4> QED
        BY <4>1, <4>2, <1>4 DEF FilesTyped
    <3> QED
      BY <3>1, <3>2
  <2> QED
    BY <2>1, <2>2, <2>3 DEF FilesTyped
<1>9. CASE Answered
  <2>1. Table' = [Table EXCEPT ![c] = Row(c)']
    BY <1>7, OneRow
  <2>2. Row(c)' = [e \in held[c] \cup {d} |->
                     IF e = d THEN [file |-> reply', pos |-> 0] ELSE Row(c)[e]]
    <3>1. held'[c] = held[c] \cup {d} /\ held[c] \subseteq Descriptors
      BY <1>4, <1>7, <1>9 DEF FilesTyped
    <3>2. Row(c)' = [e \in held'[c] |-> [file |-> fds'[c][e].inum, pos |-> fds'[c][e].pos]]
      BY DEF Row
    <3>3. \A e \in held[c] \cup {d} :
            [file |-> fds'[c][e].inum, pos |-> fds'[c][e].pos]
              = IF e = d THEN [file |-> reply', pos |-> 0] ELSE Row(c)[e]
      BY <1>1, <1>6, <1>7, <1>9, <3>1 DEF Row
    <3> HIDE DEF Row
    <3>4. Row(c)' = [e \in held[c] \cup {d} |-> [file |-> fds'[c][e].inum, pos |-> fds'[c][e].pos]]
      BY <3>1, <3>2, Zenon
    <3> QED
      BY <3>3, <3>4, Zenon
  <2>3. Table[c] = Row(c) /\ DOMAIN Table[c] = held[c]
    BY Rows
  <2>4. Table' = [Table EXCEPT ![c] = [e \in DOMAIN @ \cup {d} |->
                    IF e = d THEN [file |-> reply', pos |-> 0] ELSE @[e]]]
    BY <2>1, <2>2, <2>3, Zenon
  <2>5. d \in Descriptors \ DOMAIN Table[c] /\ reply' \in Offered
    BY <1>1, <1>7, <1>9, <2>3
  <2>6. Abstract!Open(c)
    BY <2>4, <2>5, Zenon DEF Abstract!Open
  <2> QED
    BY <1>8, <2>6 DEF AbstractStep, Abstract!Next
<1>10. CASE ~ Answered
  <2>1. \A b \in Clients : /\ held'[b] = held[b]
                           /\ \A e \in held[b] : /\ fds'[b][e].inum = fds[b][e].inum
                                                  /\ fds'[b][e].pos = fds[b][e].pos
    BY <1>4, <1>7, <1>10 DEF FilesTyped
  <2> QED
    BY <1>8, <2>1, SameTable DEF AbstractStep
<1> QED
  BY <1>9, <1>10

Handle == [used : BOOLEAN, inum : Offered \cup {ERROR}, pos : 0 .. MaxCursor]

(* A step that changes one descriptor. *)
LEMMA OneDescriptor ==
  ASSUME fds \in [Clients -> [Descriptors -> Handle]],
         NEW c \in Clients, NEW d \in Descriptors, NEW x \in Handle,
         fds' = [fds EXCEPT ![c] = [@ EXCEPT ![d] = x]]
  PROVE  /\ fds' \in [Clients -> [Descriptors -> Handle]]
         /\ fds'[c][d] = x
         /\ \A b \in Clients \ {c} : fds'[b] = fds[b]
         /\ \A e \in Descriptors \ {d} : fds'[c][e] = fds[c][e]
OBVIOUS

(* The end of a call that leaves every table alone. *)
LEMMA KeepStep ==
  ASSUME FilesInv, UNCHANGED <<fds, held>>
  PROVE  FilesTyped' /\ Table' = Table
<1>1. FilesTyped'
  BY DEF FilesInv, FilesTyped
<1>2. Table' = Table
  BY DEF Table
<1> QED
  BY <1>1, <1>2

LEMMA CloseStep ==
  ASSUME FilesInv, NEW c \in Clients, NEW d \in Descriptors, Close(c, d)
  PROVE  FilesInv' /\ AbstractStep /\ fs' = fs
<1> DEFINE x == [fds[c][d] EXCEPT !.used = FALSE]
<1>1. IInv' /\ fs' = fs
  BY DEF FilesInv, IInv, Close, vars
<1>2. /\ fds \in [Clients -> [Descriptors -> Handle]] /\ held \in [Clients -> SUBSET Descriptors]
      /\ \A b \in Clients : \A e \in held[b] : fds[b][e].used /\ fds[b][e].inum \in Offered
  BY DEF FilesInv, FilesTyped, Handle
<1>3. /\ d \in held[c] /\ held' = [held EXCEPT ![c] = @ \ {d}]
      /\ fds' = [fds EXCEPT ![c] = [@ EXCEPT ![d] = x]]
  BY DEF Close
<1>x. x \in Handle
  <2>1. fds[c][d] \in Handle
    BY <1>2
  <2> QED
    BY <2>1 DEF Handle
<1> HIDE DEF x
<1>4. /\ fds' \in [Clients -> [Descriptors -> Handle]]
      /\ held'[c] = held[c] \ {d}
      /\ \A b \in Clients \ {c} : held'[b] = held[b] /\ fds'[b] = fds[b]
      /\ \A e \in Descriptors \ {d} : fds'[c][e] = fds[c][e]
      /\ held[c] \subseteq Descriptors
  BY <1>2, <1>3, <1>x, OneDescriptor
<1>5. FilesTyped'
  <2>1. held' \in [Clients -> SUBSET Descriptors]
    BY <1>2, <1>3
  <2>2. ASSUME NEW b \in Clients, NEW e \in held'[b]
        PROVE  fds'[b][e].used /\ fds'[b][e].inum \in Offered
    <3>1. e \in held[b] /\ e \in Descriptors /\ fds'[b][e] = fds[b][e]
      BY <1>2, <1>4, <2>2
    <3> QED
      BY <1>2, <3>1
  <2> QED
    BY <1>4, <2>1, <2>2 DEF FilesTyped, Handle
<1>6. AbstractStep
  <2>1. Table' = [Table EXCEPT ![c] = Row(c)']
    BY <1>4, OneRow
  <2>2. Row(c)' = [e \in held[c] \ {d} |-> Row(c)[e]]
    <3>1. Row(c)' = [e \in held'[c] |-> [file |-> fds'[c][e].inum, pos |-> fds'[c][e].pos]]
      BY DEF Row
    <3>2. \A e \in held[c] \ {d} :
            [file |-> fds'[c][e].inum, pos |-> fds'[c][e].pos] = Row(c)[e]
      BY <1>4 DEF Row
    <3> HIDE DEF Row
    <3>3. Row(c)' = [e \in held[c] \ {d} |-> [file |-> fds'[c][e].inum, pos |-> fds'[c][e].pos]]
      BY <1>4, <3>1, Zenon
    <3> QED
      BY <3>2, <3>3, Zenon
  <2>3. Table[c] = Row(c) /\ DOMAIN Table[c] = held[c]
    BY Rows
  <2>4. Table' = [Table EXCEPT ![c] = [e \in DOMAIN @ \ {d} |-> @[e]]]
    BY <2>1, <2>2, <2>3, Zenon
  <2>5. Abstract!Close(c)
    BY <1>3, <2>3, <2>4, Zenon DEF Abstract!Close
  <2> QED
    BY <2>5 DEF AbstractStep, Abstract!Next
<1> QED
  BY <1>1, <1>5, <1>6 DEF FilesInv

(* How SEEK, READ and WRITE end. *)
LEMMA RefuseStep ==
  ASSUME FilesInv, NEW volume, Sound(volume), Refuse(volume)
  PROVE  FilesInv' /\ AbstractStep
<1>1. IInv'
  BY DEF FilesInv, IInv, Refuse
<1>2. UNCHANGED <<fds, held>>
  BY DEF Refuse
<1> QED
  BY <1>1, <1>2, KeepStep DEF FilesInv, AbstractStep

(* An answered file request is a step of OpenFiles by its owner.            *)
LEMMA AnswerStep ==
  ASSUME FilesInv, NEW volume, Sound(volume), NEW c \in Clients, NEW d \in held[c],
         NEW pos \in Nat, AnswerAt(volume, c, d, pos)
  PROVE  FilesInv' /\ AbstractStep
<1> DEFINE x == [fds[c][d] EXCEPT !.pos = pos]
<1>1. IInv'
  BY DEF FilesInv, IInv, AnswerAt
<1>2. /\ fds \in [Clients -> [Descriptors -> Handle]] /\ held \in [Clients -> SUBSET Descriptors]
      /\ \A b \in Clients : \A e \in held[b] : fds[b][e].used /\ fds[b][e].inum \in Offered
      /\ d \in Descriptors
  BY DEF FilesInv, FilesTyped, Handle
<1>3. /\ fds' = [fds EXCEPT ![c] = [@ EXCEPT ![d] = x]]
      /\ held' = held
      /\ pos \in 0 .. MaxCursor
  BY FileAssumption DEF AnswerAt
<1>5. x \in Handle /\ x.used = fds[c][d].used /\ x.inum = fds[c][d].inum /\ x.pos = pos
  <2>1. fds[c][d] \in Handle
    BY <1>2
  <2> QED
    BY <1>3, <2>1 DEF Handle
<1> HIDE DEF x
<1>6. /\ fds' \in [Clients -> [Descriptors -> Handle]]
      /\ fds'[c][d] = x
      /\ \A b \in Clients \ {c} : fds'[b] = fds[b]
      /\ \A e \in Descriptors \ {d} : fds'[c][e] = fds[c][e]
  BY <1>2, <1>3, <1>5, OneDescriptor
<1>7. FilesTyped'
  <2>1. ASSUME NEW b \in Clients, NEW e \in held'[b]
        PROVE  fds'[b][e].used /\ fds'[b][e].inum \in Offered
    <3>1. e \in held[b] /\ e \in Descriptors
      BY <1>2, <1>3, <2>1
    <3>2. fds'[b][e].used = fds[b][e].used /\ fds'[b][e].inum = fds[b][e].inum
      BY <1>5, <1>6, <3>1
    <3> QED
      BY <1>2, <3>1, <3>2
  <2> QED
    BY <1>2, <1>3, <1>6, <2>1 DEF FilesTyped, Handle
<1>8. AbstractStep
  <2>1. Table' = [Table EXCEPT ![c] = Row(c)']
    BY <1>3, <1>6, OneRow
  <2>2. Row(c)' = [Row(c) EXCEPT ![d] = [@ EXCEPT !.pos = pos]]
    <3>1. Row(c)' = [e \in held[c] |-> [file |-> fds'[c][e].inum, pos |-> fds'[c][e].pos]]
      BY <1>3 DEF Row
    <3>2. \A e \in held[c] :
            [file |-> fds'[c][e].inum, pos |-> fds'[c][e].pos]
              = [Row(c) EXCEPT ![d] = [@ EXCEPT !.pos = pos]][e]
      <4> SUFFICES ASSUME NEW e \in held[c]
                   PROVE  [file |-> fds'[c][e].inum, pos |-> fds'[c][e].pos]
                            = [Row(c) EXCEPT ![d] = [@ EXCEPT !.pos = pos]][e]
        OBVIOUS
      <4>1. CASE e = d
        BY <1>5, <1>6, <4>1 DEF Row
      <4>2. CASE e # d
        <5>1. e \in Descriptors
          BY <1>2
        <5> QED
          BY <1>6, <4>2, <5>1 DEF Row
      <4> QED
        BY <4>1, <4>2
    <3>3. [Row(c) EXCEPT ![d] = [@ EXCEPT !.pos = pos]]
            = [e \in held[c] |-> [Row(c) EXCEPT ![d] = [@ EXCEPT !.pos = pos]][e]]
      BY DEF Row
    <3> DEFINE moved == [Row(c) EXCEPT ![d] = [@ EXCEPT !.pos = pos]]
    <3> HIDE DEF moved, Row
    <3> QED
      BY <3>1, <3>2, <3>3, Zenon DEF moved
  <2>3. Table[c] = Row(c) /\ DOMAIN Table[c] = held[c]
    BY Rows
  <2>4. Table' = [Table EXCEPT ![c][d].pos = pos]
    BY <2>1, <2>2, <2>3
  <2>5. d \in DOMAIN Table[c] /\ pos \in 0 .. MaxCursor
    BY <1>3, <2>3
  <2>6. Abstract!Move(c)
    BY <2>4, <2>5, Zenon DEF Abstract!Move
  <2> QED
    BY <2>6 DEF AbstractStep, Abstract!Next
<1> QED
  BY <1>1, <1>7, <1>8 DEF FilesInv

(* What a call finds through a descriptor it holds.                         *)
LEMMA HeldFacts ==
  ASSUME FilesInv, NEW c \in Clients, NEW d \in Descriptors, InUse(c, d)
  PROVE  /\ d \in held[c] /\ d \in Descriptors
         /\ Inum(c, d) \in Offered /\ Pos(c, d) \in Nat
         /\ Sound(fs) /\ Node(c, d) \in Inode /\ OneBlock(Node(c, d))
         /\ Node(c, d).size \in Nat
<1>1. d \in held[c] /\ d \in Descriptors /\ Inum(c, d) \in Offered /\ Pos(c, d) \in Nat
  BY DEF InUse, FilesInv, FilesTyped, Inum, Pos
<1>2. Sound(fs) /\ Inum(c, d) \in Inodes
  BY <1>1, LayoutFacts DEF FilesInv, IInv
<1>3. Node(c, d) \in Inode /\ OneBlock(Node(c, d))
  BY <1>2 DEF Node, Sound, Volume
<1>4. Node(c, d).size \in Nat
  BY <1>3, LayoutAssumption DEF Inode
<1> QED
  BY <1>1, <1>2, <1>3, <1>4

LEMMA HighestTypes ==
  ASSUME NEW size \in Nat
  PROVE  HighestInBlock(size) \in Nat
<1>1. size \div EntriesPerBlock \in Nat
  BY Units, Quotient
<1> QED
  BY <1>1, Units DEF HighestInBlock

LEMMA SeekStep ==
  ASSUME FilesInv, NEW c \in Clients, NEW d \in Descriptors, Seek(c, d)
  PROVE  FilesInv' /\ AbstractStep
<1> DEFINE size == Node(c, d).size
<1>1. InUse(c, d)
  BY DEF Seek
<1>2. /\ d \in held[c] /\ Inum(c, d) \in Offered /\ Pos(c, d) \in Nat
      /\ Sound(fs) /\ size \in Nat
  BY <1>1, HeldFacts
<1>3. PICK start \in Whences(c, d), offset \in Offsets :
        LET pos == start + offset IN
        \/ pos < 0 /\ Refuse(fs)
        \/ /\ 0 <= pos /\ pos <= HighestInBlock(size)
           /\ AnswerAt(fs, c, d, pos)
           /\ UNCHANGED data
        \/ /\ pos > HighestInBlock(size)
           /\ pos < EntriesPerBlock * Pointers \/ pos >= SeekLimit
           /\ SeekPastEnd(c, d, pos)
  BY DEF Seek
<1> DEFINE pos == start + offset
<1>4. pos \in Int
  <2>1. start \in Nat
    BY <1>2 DEF Whences
  <2> QED
    BY <2>1, FileAssumption
<1> HIDE DEF size, pos
<1>5. CASE pos < 0 /\ Refuse(fs)
  BY <1>2, <1>5, RefuseStep
<1>6. CASE 0 <= pos /\ AnswerAt(fs, c, d, pos)
  BY <1>2, <1>4, <1>6, AnswerStep
<1>7. CASE /\ pos > HighestInBlock(size)
           /\ pos < EntriesPerBlock * Pointers \/ pos >= SeekLimit
           /\ SeekPastEnd(c, d, pos)
  <2> DEFINE grown == AddNewEmptyBlock(fs, Node(c, d), pos \div EntriesPerBlock)
             w     == WriteInodeToDisk(grown.fs, Inum(c, d), grown.node)
  <2>1. pos \in Nat
    BY <1>2, <1>4, <1>7, HighestTypes
  <2>2. CASE pos >= SeekLimit
    <3>1. Refuse(fs)
      BY <1>7, <2>2 DEF SeekPastEnd
    <3> QED
      BY <1>2, <3>1, RefuseStep
  <2>3. CASE ~ (pos >= SeekLimit)
    <3>1. Sound(grown.fs) /\ Sound(w)
      BY <1>2, <1>7, <2>1, <2>3, SeekSound DEF Node, size
    <3>2. Refuse(grown.fs) \/ AnswerAt(w, c, d, pos)
      BY <1>7, <2>3 DEF SeekPastEnd
    <3> HIDE DEF grown, w
    <3>3. CASE Refuse(grown.fs)
      BY <3>1, <3>3, RefuseStep
    <3>4. CASE AnswerAt(w, c, d, pos)
      BY <1>2, <2>1, <3>1, <3>4, AnswerStep
    <3> QED
      BY <3>2, <3>3, <3>4
  <2> QED
    BY <2>2, <2>3
<1> QED
  BY <1>3, <1>5, <1>6, <1>7 DEF pos

LEMMA ReadStep ==
  ASSUME FilesInv, NEW c \in Clients, NEW d \in Descriptors, Read(c, d)
  PROVE  FilesInv' /\ AbstractStep
<1> DEFINE size == Node(c, d).size
           pos  == Pos(c, d)
<1>1. InUse(c, d)
  BY DEF Read
<1>2. d \in held[c] /\ pos \in Nat /\ Sound(fs) /\ size \in Nat
  BY <1>1, HeldFacts
<1>3. PICK count \in Counts :
        LET n == IF pos + count > size THEN size - pos ELSE count
        IN Refuse(fs) \/ (pos <= size /\ AnswerAt(fs, c, d, pos + n))
  BY DEF Read
<1>4. count \in Nat
  BY FileAssumption, Units
<1> HIDE DEF size, pos
<1>5. CASE Refuse(fs)
  BY <1>2, <1>5, RefuseStep
<1>6. CASE pos <= size /\ AnswerAt(fs, c, d, pos + (IF pos + count > size THEN size - pos ELSE count))
  <2>1. pos + (IF pos + count > size THEN size - pos ELSE count) \in Nat
    BY <1>2, <1>4, <1>6
  <2> QED
    BY <1>2, <1>6, <2>1, AnswerStep
<1> QED
  BY <1>3, <1>5, <1>6

----------------------------------------------------------------------------
(* WRITE. *)

(* What WRITE leaves on the volume: new contents of block 0, at most.       *)
LEMMA WriteReaches ==
  ASSUME FilesInv, NEW c \in Clients, NEW d \in Descriptors, Write(c, d)
  PROVE  \E volume : /\ volume = fs \/ \E content \in [Slots -> Entry] : volume = PutSector(fs, 0, content)
                     /\ \/ Refuse(volume)
                        \/ \E pos \in Nat : AnswerAt(volume, c, d, pos)
<1> DEFINE p == Pos(c, d)
           node == Node(c, d)
           first  == GetSector(node, SectorIndex(p))
           second == GetSector(node, SectorIndex(p) + 1)
           left == EntriesPerBlock - (p % EntriesPerBlock)
<1>1. InUse(c, d)
  BY DEF Write
<1>2. /\ p \in Nat /\ Sound(fs) /\ node \in Inode /\ OneBlock(node)
  BY <1>1, HeldFacts
<1>3. PICK count \in Counts, junk \in [Slots -> Heap] :
        \/ Refuse(fs)
        \/ first # ERROR /\ AnswerAt(PutSector(fs, first, Buffer(count, junk)), c, d, p + count)
        \/ first # ERROR /\ Refuse(PutSector(fs, first, Buffer(left, junk)))
        \/ /\ first # ERROR /\ second # ERROR
           /\ AnswerAt(PutSector(PutSector(fs, first, Buffer(left, junk)), second, Buffer(count, junk)),
                       c, d, p + count)
  BY DEF Write
<1>4. SectorIndex(p) \in Nat \ {0} /\ SectorIndex(p) + 1 \in Nat \ {0}
  <2>1. p \div EntriesPerBlock \in Nat
    BY <1>2, Units, Quotient
  <2> QED
    BY <2>1 DEF SectorIndex
<1>5. first \in {0, ERROR} /\ second \in {0, ERROR}
  BY <1>2, <1>4, BeyondFirst
<1>6. p + count \in Nat
  BY <1>2, FileAssumption, Units
<1>7. Buffer(count, junk) \in [Slots -> Entry] /\ Buffer(left, junk) \in [Slots -> Entry]
  BY BufferTypes
<1> HIDE DEF p, node, first, second, left
<1>8. CASE Refuse(fs)
  BY <1>8
<1>9. CASE first # ERROR /\ AnswerAt(PutSector(fs, first, Buffer(count, junk)), c, d, p + count)
  BY <1>5, <1>6, <1>7, <1>9
<1>10. CASE first # ERROR /\ Refuse(PutSector(fs, first, Buffer(left, junk)))
  BY <1>5, <1>7, <1>10
<1>11. CASE /\ first # ERROR /\ second # ERROR
            /\ AnswerAt(PutSector(PutSector(fs, first, Buffer(left, junk)), second, Buffer(count, junk)),
                        c, d, p + count)
  <2>1. first = 0 /\ second = 0
    BY <1>5, <1>11
  <2>2. \A one, two \in [Slots -> Entry] : PutSector(PutSector(fs, 0, one), 0, two) = PutSector(fs, 0, two)
    <3>1. fs \in Volume /\ 0 \in Blocks
      BY <1>2, LayoutFacts DEF Sound
    <3> QED
      BY <3>1 DEF PutSector, Volume
  <2>3. PutSector(PutSector(fs, first, Buffer(left, junk)), second, Buffer(count, junk))
          = PutSector(fs, 0, Buffer(count, junk))
    BY <1>7, <2>1, <2>2
  <2> QED
    BY <1>6, <1>7, <1>11, <2>3
<1> QED
  BY <1>3, <1>8, <1>9, <1>10, <1>11

(* WRITE is one, too, and of the volume it changes the boot block at most.  *)
LEMMA WriteStep ==
  ASSUME FilesInv, NEW c \in Clients, NEW d \in Descriptors, Write(c, d)
  PROVE  /\ FilesInv' /\ AbstractStep
         /\ fs' # fs => fs' = PutSector(fs, 0, fs'.blocks[0])
<1>1. PICK volume : /\ volume = fs \/ \E content \in [Slots -> Entry] : volume = PutSector(fs, 0, content)
                    /\ \/ Refuse(volume)
                       \/ \E pos \in Nat : AnswerAt(volume, c, d, pos)
  BY WriteReaches
<1>2. d \in held[c] /\ Sound(fs) /\ fs \in Volume /\ 0 \in Blocks
  BY HeldFacts, LayoutFacts DEF Write, Sound
<1>3. Sound(volume)
  BY <1>1, <1>2, PutSectorSound
<1>4. FilesInv' /\ AbstractStep
  BY <1>1, <1>2, <1>3, RefuseStep, AnswerStep
<1>5. fs' = volume
  BY <1>1 DEF Refuse, AnswerAt
<1>6. ASSUME NEW content \in [Slots -> Entry], volume = PutSector(fs, 0, content)
      PROVE  fs' = PutSector(fs, 0, fs'.blocks[0])
  <2>1. PutSector(fs, 0, content).blocks[0] = content
    BY <1>2 DEF PutSector, Volume
  <2> QED
    BY <1>5, <1>6, <2>1
<1> QED
  BY <1>1, <1>4, <1>5, <1>6

----------------------------------------------------------------------------
(* The requests of Yfs and the restart. *)

(* A request that is answered names an inode the server offers.             *)
LEMMA Answers ==
  ASSUME FilesInv, NEW c \in Clients, NEW p \in Paths, Open(c, p) \/ Create(c, p), Answered
  PROVE  reply' \in Offered
<1>0. IInv
  BY DEF FilesInv
<1>1. CASE Open(c, p)
  BY <1>0, <1>1, Reads DEF Open, Lookup, ReplyWith, ReplyError, Answered
<1>2. CASE MakeNew(c, p, INODE_REGULAR)
  <2>1. CASE GetFreeInodeFails(fs) /\ Crash
    BY <2>1 DEF Crash, Answered
  <2>2. CASE ~ GetFreeInodeFails(fs) /\ ReplyWith(NewFile(c, p, INODE_REGULAR), Head(fs.nodes))
    BY <1>0, <2>2, GetFreeInodeSound DEF IInv, ReplyWith
  <2> QED
    BY <1>2, <2>1, <2>2 DEF MakeNew
<1>3. CASE CreateExisting(c, p)
  BY <1>0, <1>3, Reads DEF CreateExisting, ReplyWith
<1>4. CASE CreateRefused(c, p)
  BY <1>4 DEF CreateRefused, ReplyError, Answered
<1> QED
  BY <1>1, <1>2, <1>3, <1>4 DEF Create

(* Open and Create: the descriptor is new in the table.                     *)
LEMMA TakingStep ==
  ASSUME FilesInv, NEW c \in Clients, NEW p \in Paths, OpenFile(c, p) \/ CreateFile(c, p)
  PROVE  FilesInv' /\ AbstractStep
<1>1. Unused(c) # {} /\ TakeDescriptor(c) /\ (Open(c, p) \/ Create(c, p))
  BY DEF OpenFile, CreateFile
<1>2. Request(c)
  BY <1>1 DEF Request
<1>3. IInv'
  BY <1>2, StepSound DEF FilesInv, Next
<1>4. Answered => reply' \in Offered
  BY <1>1, Answers
<1> QED
  BY <1>1, <1>3, <1>4, TakeStep DEF FilesInv

LEMMA NameStep ==
  ASSUME FilesInv, NEW c \in Clients, NameRequest(c)
  PROVE  FilesInv' /\ AbstractStep
<1>1. Request(c) /\ UNCHANGED <<fds, held>>
  BY DEF NameRequest, Request
<1>2. IInv'
  BY <1>1, StepSound DEF FilesInv, Next
<1> QED
  BY <1>1, <1>2, KeepStep DEF FilesInv, AbstractStep

(* New processes have nothing open. *)
LEMMA Empty ==
  /\ 0 \in 0 .. MaxCursor
  /\ NoFiles \in [Descriptors -> Handle]
BY FileAssumption DEF NoFiles, Handle

LEMMA FilesRebootStep ==
  ASSUME FilesInv, FilesReboot
  PROVE  FilesInv' /\ AbstractStep
<1>1. IInv'
  BY StepSound DEF FilesReboot, Next, FilesInv
<1>2. fds' = [c \in Clients |-> NoFiles] /\ held' = [c \in Clients |-> {}]
  BY DEF FilesReboot
<1>3. FilesTyped'
  BY <1>2, Empty DEF FilesTyped, Handle
<1>4. Table' = Abstract!Closed
  <2>1. \A c \in Clients : Row(c)' = [d \in {} |-> 0]
    BY <1>2 DEF Row
  <2>2. Table' = [c \in Clients |-> Row(c)']
    BY DEF Table, Row
  <2> QED
    BY <2>1, <2>2 DEF Abstract!Closed
<1> QED
  BY <1>1, <1>3, <1>4 DEF FilesInv, AbstractStep, Abstract!Next, Abstract!Restart

LEMMA FilesInitial == FilesInit => FilesInv /\ Abstract!Init
<1> SUFFICES ASSUME FilesInit PROVE FilesInv /\ Abstract!Init
  OBVIOUS
<1>1. IInv
  BY InitSound DEF FilesInit
<1>2. fds = [c \in Clients |-> NoFiles] /\ held = [c \in Clients |-> {}]
  BY DEF FilesInit
<1>3. FilesTyped
  BY <1>2, Empty DEF FilesTyped, Handle
<1>4. Table = Abstract!Closed
  <2>1. \A c \in Clients : Row(c) = [d \in {} |-> 0]
    BY <1>2 DEF Row
  <2> QED
    BY <2>1, Rows DEF Abstract!Closed
<1> QED
  BY <1>1, <1>3, <1>4 DEF FilesInv, Abstract!Init

(* Every step keeps the invariant and is a step of OpenFiles or none.       *)
LEMMA FilesStep == FilesInv /\ [FilesNext]_fileVars => FilesInv' /\ AbstractStep
<1> SUFFICES ASSUME FilesInv, [FilesNext]_fileVars
             PROVE  FilesInv' /\ AbstractStep
  OBVIOUS
<1>1. CASE UNCHANGED fileVars
  <2>1. IInv' /\ UNCHANGED <<fds, held>>
    BY <1>1 DEF FilesInv, IInv, fileVars, vars
  <2> QED
    BY <2>1, KeepStep DEF FilesInv, AbstractStep
<1>2. ASSUME NEW c \in Clients, NameRequest(c)
      PROVE  FilesInv' /\ AbstractStep
  BY <1>2, NameStep
<1>3. ASSUME NEW c \in Clients, NEW p \in Paths, OpenFile(c, p) \/ CreateFile(c, p)
      PROVE  FilesInv' /\ AbstractStep
  BY <1>3, TakingStep
<1>4. ASSUME NEW c \in Clients, NEW d \in Descriptors,
             Close(c, d) \/ Seek(c, d) \/ Read(c, d) \/ Write(c, d)
      PROVE  FilesInv' /\ AbstractStep
  BY <1>4, CloseStep, SeekStep, ReadStep, WriteStep
<1>5. CASE Shutdown /\ UNCHANGED <<fds, held, data>>
  <2>1. IInv'
    BY <1>5, StepSound DEF FilesInv, Next
  <2> QED
    BY <1>5, <2>1, KeepStep DEF FilesInv, AbstractStep
<1>6. CASE FilesReboot
  BY <1>6, FilesRebootStep
<1> QED
  BY <1>1, <1>2, <1>3, <1>4, <1>5, <1>6, Zenon DEF FilesNext

----------------------------------------------------------------------------
(* The inductive invariant of YfsFiles: that of Yfs and the types of the    *)
(* descriptor tables.                                                       *)
THEOREM FilesInvariance == FilesSpec => []FilesInv
<1>1. FilesInit => FilesInv
  BY FilesInitial
<1>2. FilesInv /\ [FilesNext]_fileVars => FilesInv'
  BY FilesStep
<1> QED
  BY <1>1, <1>2, PTL DEF FilesSpec

(* What a process holds is a descriptor in use, of an inode the server      *)
(* offers.                                                                  *)
THEOREM FilesTyping == FilesSpec => []FilesTypeOK
<1>1. FilesInv => FilesTypeOK
  BY DEF FilesInv, IInv, Sound, FilesTyped, FilesTypeOK, TypeOK
<1> QED
  BY <1>1, FilesInvariance, PTL

(* The descriptor tables of all processes implement OpenFiles: a number     *)
(* stays with its file, and only its owner's calls move its position.       *)
THEOREM Implementation == FilesSpec => ImplementsOpenFiles
<1>1. FilesInit => Abstract!Init
  BY FilesInitial
<1>2. FilesInv /\ [FilesNext]_fileVars => [Abstract!Next]_Table
  BY FilesStep DEF AbstractStep
<1> QED
  BY <1>1, <1>2, FilesInvariance, PTL DEF FilesSpec, ImplementsOpenFiles, Abstract!Spec

(* Whatever the descriptor leads to by now, WRITE changes block 0 or nothing. *)
THEOREM BootBlockWritten == FilesSpec => WritesOnlyBootBlock
<1>1. FilesInv /\ [FilesNext]_fileVars =>
        [\A c \in Clients, d \in Descriptors :
           fs' # fs /\ Write(c, d) => fs' = PutSector(fs, 0, fs'.blocks[0])]_fileVars
  BY WriteStep
<1> QED
  BY <1>1, FilesInvariance, PTL DEF FilesSpec, WritesOnlyBootBlock

(* With SEEK, READ and WRITE among the requests, too, no two inodes in use  *)
(* own one data block.                                                      *)
THEOREM FilesExclusive == FilesSpec => []DataBlocksExclusive
<1>1. FilesInv => DataBlocksExclusive
  BY SoundExclusive DEF FilesInv
<1> QED
  BY <1>1, FilesInvariance, PTL

(* Nor does numFreeBlocks fall below the number of free blocks.             *)
THEOREM FilesCounter == FilesSpec => []CounterCoversFree
<1>1. FilesInv => CounterCoversFree
  BY DEF FilesInv, IInv, Sound, Counted, CounterCoversFree
<1> QED
  BY <1>1, FilesInvariance, PTL
=============================================================================
